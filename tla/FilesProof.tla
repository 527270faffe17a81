------------------------------ MODULE FilesProof ------------------------------
(***************************************************************************)
(* Proofs about the protocols of MCParts that work on files: edits of      *)
(* backup rules, for any number of edits and rules, and restores, for any  *)
(* number of them.                                                         *)
(***************************************************************************)
EXTENDS MCParts, FiniteSetTheorems, TLAPS

-----------------------------------------------------------------------------
(* Edits of backup rules: what they are within.                            *)

\* The rule of name n is the same in two lists.
Same(l, k, n) ==
  /\ n \in DOMAIN l <=> n \in DOMAIN k
  /\ n \in DOMAIN l => l[n] = k[n]

\* So is its part of the first that is in the second too: none more, none more enabled.
Below(l, k, n) == n \in DOMAIN l => n \in DOMAIN k /\ (l[n] => k[n])

\* A user's edit goes through create and write and never meets a reload; a machine edit goes
\* through assign, marshal and rename, only adds and removes, and its file is always whole.
RuleStages ==
  /\ store = "user" =>
       reload = {} /\ \A e \in Edits : editAt[e] \in {"idle", "load", "create", "write", "over"}
  /\ store = "machine" =>
       /\ file.state = "rules" /\ ~doubled
       /\ \A e \in Edits : /\ editAt[e] \in {"idle", "load", "assign", "marshal", "rename", "over"}
                           /\ edit[e].op \in {"none", "add", "remove"}

RuleType ==
  /\ store \in {"user", "machine"}
  /\ file \in [state : {"none", "empty", "broken", "rules"}, rules : Rules!Lists]
  /\ doubled \in BOOLEAN
  /\ memory \in Rules!Lists
  /\ edit \in [Edits -> {Rules!NoEdit} \cup [op : {"add", "remove", "enable", "disable"}, name : Names]]
  /\ loaded \in [Edits -> Rules!Lists]
  /\ editAt \in [Edits -> {"idle", "load", "create", "write", "assign", "marshal", "rename", "over"}]
  /\ reload = {} \/ \E l \in Rules!Lists : reload = {l}
  /\ expected \in Rules!Lists
  /\ contested \subseteq Names
  /\ torn \in BOOLEAN
  /\ \A e \in Edits : Rules!Active(e) => edit[e] # Rules!NoEdit

-----------------------------------------------------------------------------
(* Edits of backup rules: what their order keeps.                          *)

\* An edit that is not alone, and one that meets a reload, is of a contested name.
Overlaps ==
  /\ \A d, e \in Edits : d # e /\ Rules!Active(d) /\ Rules!Active(e) => edit[e].name \in contested
  /\ \A e \in Edits : reload # {} /\ Rules!Active(e) => edit[e].name \in contested

\* Two edits that write into one file have contested every name.
Doubled ==
  /\ doubled => contested = Names
  /\ \A d, e \in Edits : d # e /\ Rules!Writing(d) /\ Rules!Writing(e) => doubled

\* A file that does not decode is being written, or was last written by two edits.
UnreadableForNow ==
  file.state \in {"empty", "broken"} =>
    torn \/ contested = Names \/ \E e \in Edits : Rules!Writing(e)

\* What edit e makes of what is expected when it is acknowledged.
Outcome(e) == Rules!Result(edit[e], expected)

Readable == file.state \in {"none", "rules"}

\* Of an uncontested name the lists that a later write could start from say no more than is
\* expected: an edit of the name itself is ahead while it is writing.
UserFollows(n) ==
  /\ Readable /\ (\A e \in Edits : Rules!Writing(e) => edit[e].name # n) => Below(file.rules, expected, n)
  /\ \A e \in Edits : editAt[e] \in {"create", "write"} => Below(loaded[e], expected, n)

\* As long as no edits overlap, they say just what is expected.
UserExact(n) ==
  /\ Readable /\ (\A e \in Edits : ~Rules!Writing(e)) => Same(file.rules, expected, n)
  /\ \A e \in Edits : editAt[e] \in {"create", "write"} => Same(loaded[e], expected, n)

\* The machine's memory is ahead while the one edit of the name is being saved.
MachineFollows(n) ==
  /\ Same(file.rules, expected, n)
  /\ \A l \in reload : Same(l, expected, n)
  /\ \A e \in Edits : editAt[e] = "assign" => Same(loaded[e], expected, n)
  /\ \A e \in Edits : editAt[e] = "rename" =>
       Same(loaded[e], IF edit[e].name = n THEN Outcome(e) ELSE expected, n)
  /\ \A e \in Edits : editAt[e] \in {"marshal", "rename"} /\ edit[e].name = n =>
       Same(memory, Outcome(e), n)
  /\ (\A e \in Edits : editAt[e] \in {"marshal", "rename"} => edit[e].name # n) =>
       Same(memory, expected, n)

RulesFollow ==
  ~torn => \A n \in Names \ contested :
             IF store = "user" THEN UserFollows(n) /\ (contested = {} => UserExact(n))
             ELSE MachineFollows(n)

RuleInv ==
  /\ RuleType /\ RuleStages /\ Overlaps /\ Doubled /\ UnreadableForNow /\ RulesFollow

-----------------------------------------------------------------------------
(* Lists of rules.                                                         *)

Requested == [op : {"add", "remove", "enable", "disable"}, name : Names]

LEMMA ListDomain ==
  ASSUME NEW l \in Rules!Lists
  PROVE  DOMAIN l \subseteq Names /\ l \in [DOMAIN l -> BOOLEAN]
BY DEF Rules!Lists

LEMMA ListOf ==
  ASSUME NEW S \in SUBSET Names, NEW l \in [S -> BOOLEAN]
  PROVE  l \in Rules!Lists
BY DEF Rules!Lists

LEMMA NoRulesList == Rules!NoRules \in Rules!Lists /\ DOMAIN Rules!NoRules = {}
<1>1. Rules!NoRules \in [{} -> BOOLEAN]
  BY DEF Rules!NoRules
<1> QED
  BY <1>1, ListOf DEF Rules!NoRules

\* A list is the rules of its names: lists that agree on every name are one.
LEMMA SameList ==
  ASSUME NEW l \in Rules!Lists, NEW k \in Rules!Lists, \A n \in Names : Same(l, k, n)
  PROVE  l = k
<1>1. DOMAIN l = DOMAIN k
  BY ListDomain DEF Same
<1>2. \A n \in DOMAIN l : l[n] = k[n]
  BY ListDomain DEF Same
<1>3. l = [n \in DOMAIN l |-> l[n]] /\ k = [n \in DOMAIN k |-> k[n]]
  BY ListDomain
<1> QED
  BY <1>1, <1>2, <1>3

LEMMA ResultList ==
  ASSUME NEW l \in Rules!Lists, NEW o \in Requested
  PROVE  Rules!Result(o, l) \in Rules!Lists
<1>1. DOMAIN l \subseteq Names /\ l \in [DOMAIN l -> BOOLEAN] /\ o.name \in Names
  BY ListDomain DEF Requested
<1>2. CASE o.op = "add"
  <2>1. Rules!Result(o, l) = [n \in DOMAIN l \cup {o.name} |-> IF n = o.name THEN TRUE ELSE l[n]]
    BY <1>2 DEF Rules!Result
  <2>2. Rules!Result(o, l) \in [DOMAIN l \cup {o.name} -> BOOLEAN]
    BY <1>1, <2>1
  <2> QED
    BY <1>1, <2>2, ListOf
<1>3. CASE o.op = "remove"
  <2>1. Rules!Result(o, l) = [n \in DOMAIN l \ {o.name} |-> l[n]]
    BY <1>3 DEF Rules!Result
  <2>2. Rules!Result(o, l) \in [DOMAIN l \ {o.name} -> BOOLEAN]
    BY <1>1, <2>1
  <2> QED
    BY <1>1, <2>2, ListOf
<1>4. CASE o.op \notin {"add", "remove"}
  <2>1. Rules!Result(o, l) = [n \in DOMAIN l |-> IF n = o.name THEN o.op = "enable" ELSE l[n]]
    BY <1>4 DEF Rules!Result
  <2>2. Rules!Result(o, l) \in [DOMAIN l -> BOOLEAN]
    BY <1>1, <2>1
  <2> QED
    BY <1>1, <2>2, ListOf
<1> QED
  BY <1>2, <1>3, <1>4

\* An edit changes the rule of its name only.
LEMMA ResultOther ==
  ASSUME NEW l \in Rules!Lists, NEW o \in Requested, NEW n, n # o.name
  PROVE  Same(Rules!Result(o, l), l, n)
<1>1. l \in [DOMAIN l -> BOOLEAN]
  BY ListDomain
<1>2. CASE o.op = "add"
  <2>1. Rules!Result(o, l) = [m \in DOMAIN l \cup {o.name} |-> IF m = o.name THEN TRUE ELSE l[m]]
    BY <1>2 DEF Rules!Result
  <2> QED
    BY <2>1 DEF Same
<1>3. CASE o.op = "remove"
  BY <1>3 DEF Rules!Result, Same
<1>4. CASE o.op \notin {"add", "remove"}
  BY <1>1, <1>4 DEF Rules!Result, Same
<1> QED
  BY <1>2, <1>3, <1>4

\* What it makes of that rule depends on that rule only.
LEMMA ResultOwn ==
  ASSUME NEW l \in Rules!Lists, NEW o \in Requested
  PROVE  LET m == Rules!Result(o, l) IN
         /\ o.op = "add" => o.name \in DOMAIN m /\ m[o.name] = TRUE
         /\ o.op = "remove" => o.name \notin DOMAIN m
         /\ o.op \in {"enable", "disable"} =>
              /\ o.name \in DOMAIN m <=> o.name \in DOMAIN l
              /\ o.name \in DOMAIN m => m[o.name] = (o.op = "enable")
<1>1. l \in [DOMAIN l -> BOOLEAN]
  BY ListDomain
<1>2. CASE o.op = "add"
  <2>1. Rules!Result(o, l) = [n \in DOMAIN l \cup {o.name} |-> IF n = o.name THEN TRUE ELSE l[n]]
    BY <1>2 DEF Rules!Result
  <2> QED
    BY <1>2, <2>1
<1>3. CASE o.op = "remove"
  BY <1>3 DEF Rules!Result
<1>4. CASE o.op \notin {"add", "remove"}
  BY <1>1, <1>4 DEF Rules!Result
<1> QED
  BY <1>2, <1>3, <1>4

LEMMA ResultSame ==
  ASSUME NEW l \in Rules!Lists, NEW k \in Rules!Lists, NEW o \in Requested
  PROVE  /\ Same(l, k, o.name) => Same(Rules!Result(o, l), Rules!Result(o, k), o.name)
         /\ Below(l, k, o.name) => Below(Rules!Result(o, l), Rules!Result(o, k), o.name)
<1> DEFINE L == Rules!Result(o, l)
           K == Rules!Result(o, k)
<1>1. o.op \in {"add", "remove", "enable", "disable"}
  BY DEF Requested
<1>2. /\ o.op = "add" => /\ o.name \in DOMAIN L /\ L[o.name] = TRUE
                         /\ o.name \in DOMAIN K /\ K[o.name] = TRUE
      /\ o.op = "remove" => o.name \notin DOMAIN L /\ o.name \notin DOMAIN K
      /\ o.op \in {"enable", "disable"} =>
           /\ o.name \in DOMAIN L <=> o.name \in DOMAIN l
           /\ o.name \in DOMAIN K <=> o.name \in DOMAIN k
           /\ o.name \in DOMAIN L => L[o.name] = (o.op = "enable")
           /\ o.name \in DOMAIN K => K[o.name] = (o.op = "enable")
  BY ResultOwn, Zenon
<1> HIDE DEF L, K
<1>3. Same(l, k, o.name) => Same(L, K, o.name)
  <2>1. CASE o.op \in {"add", "remove"}
    BY <1>2, <2>1, Zenon DEF Same
  <2>2. CASE o.op \in {"enable", "disable"}
    BY <1>2, <2>2, Zenon DEF Same
  <2> QED
    BY <1>1, <2>1, <2>2
<1>4. Below(l, k, o.name) => Below(L, K, o.name)
  <2>1. CASE o.op \in {"add", "remove"}
    BY <1>2, <2>1, Zenon DEF Below
  <2>2. CASE o.op \in {"enable", "disable"}
    BY <1>2, <2>2, Zenon DEF Below
  <2> QED
    BY <1>1, <2>1, <2>2
<1> QED
  BY <1>3, <1>4 DEF L, K

LEMMA SameIsEquality ==
  ASSUME NEW l, NEW k, NEW j, NEW n
  PROVE  /\ Same(l, l, n)
         /\ Same(l, k, n) => Same(k, l, n)
         /\ Same(l, k, n) /\ Same(k, j, n) => Same(l, j, n)
BY DEF Same

\* Being below is kept by what is the same.
LEMMA BelowSame ==
  ASSUME NEW l, NEW k, NEW j, NEW n
  PROVE  /\ Below(l, l, n)
         /\ Same(l, k, n) /\ Below(k, j, n) => Below(l, j, n)
         /\ Below(l, k, n) /\ Same(k, j, n) => Below(l, j, n)
         /\ Below(l, k, n) /\ Below(k, j, n) => Below(l, j, n)
BY DEF Same, Below

-----------------------------------------------------------------------------
(* Edits of backup rules: the invariant.                                   *)

LEMMA ActiveEdit ==
  ASSUME RuleType, NEW e \in Edits, Rules!Active(e)
  PROVE  edit[e] \in Requested
BY DEF RuleType, Requested

LEMMA OutcomeList ==
  ASSUME RuleType, NEW e \in Edits, Rules!Active(e)
  PROVE  Outcome(e) \in Rules!Lists
BY ActiveEdit, ResultList DEF RuleType, Outcome

LEMMA OutcomeOther ==
  ASSUME RuleType, NEW e \in Edits, Rules!Active(e), NEW n, n # edit[e].name
  PROVE  Same(Outcome(e), expected, n)
BY ActiveEdit, ResultOther DEF RuleType, Outcome

LEMMA RuleInit == Rules!Init => RuleInv
<1> SUFFICES ASSUME Rules!Init PROVE RuleInv
  OBVIOUS
<1>1. /\ file.rules = expected /\ expected \in Rules!Lists /\ memory \in Rules!Lists
      /\ store = "machine" => memory = expected /\ file.state = "rules"
      /\ file \in [state : {"none", "empty", "broken", "rules"}, rules : Rules!Lists]
      /\ file.state \in {"none", "rules"}
  BY NoRulesList DEF Rules!Init, Rules!NoFile, Rules!File
<1>2. \A e \in Edits : ~Rules!Active(e) /\ editAt[e] = "idle" /\ edit[e].op = "none"
  BY DEF Rules!Init, Rules!Active, Rules!NoEdit
<1>3. RuleType
  BY <1>1, <1>2, NoRulesList DEF Rules!Init, RuleType
<1>4. RuleStages /\ Overlaps /\ Doubled /\ UnreadableForNow
  BY <1>1, <1>2 DEF Rules!Init, RuleStages, Overlaps, Doubled, UnreadableForNow, Rules!Writing
<1>5. RulesFollow
  BY <1>1, <1>2, SameIsEquality, BelowSame
  DEF Rules!Init, RulesFollow, UserFollows, UserExact, MachineFollows
<1> QED
  BY <1>3, <1>4, <1>5 DEF RuleInv

\* The answer of an edit that failed.
LEMMA OverType ==
  ASSUME RuleType, NEW e \in Edits, Rules!Over(e)
  PROVE  /\ editAt' = [editAt EXCEPT ![e] = "over"]
         /\ edit' \in [Edits -> {Rules!NoEdit} \cup Requested]
         /\ loaded' \in [Edits -> Rules!Lists]
         /\ \A d \in Edits \ {e} : edit'[d] = edit[d] /\ loaded'[d] = loaded[d] /\ editAt'[d] = editAt[d]
         /\ editAt'[e] = "over" /\ edit'[e] = Rules!NoEdit
BY NoRulesList DEF RuleType, Rules!Over, Rules!Goto, Requested

\* What a piece or the end of a list leaves in the file.
LEMMA WriteType ==
  ASSUME RuleType, NEW e \in Edits, Rules!WritePiece(e) \/ Rules!Write(e)
  PROVE  /\ file' \in [state : {"none", "empty", "broken", "rules"}, rules : Rules!Lists]
         /\ file'.state \in {"broken", "rules"}
         /\ ~doubled /\ file'.state = "rules" =>
              IF Rules!Write(e) THEN file'.rules = Rules!Result(edit[e], loaded[e])
              ELSE file'.rules \in Rules!Beginnings(Rules!Result(edit[e], loaded[e]))
         /\ ~doubled /\ Rules!Write(e) => file'.state = "rules"
<1> DEFINE R == Rules!Result(edit[e], loaded[e])
<1>1. Rules!Writing(e) /\ Rules!Active(e)
  BY DEF Rules!WritePiece, Rules!Write, Rules!Writing, Rules!Active
<1>2. R \in Rules!Lists
  BY <1>1, ActiveEdit, ResultList DEF RuleType
<1>3. Rules!Beginnings(R) \subseteq Rules!Lists
  BY DEF Rules!Beginnings
<1> HIDE DEF R
<1>4. ASSUME NEW W \in SUBSET Rules!Lists PROVE Rules!Decodable(W) \in SUBSET Rules!Lists
  BY DEF Rules!Decodable
<1>5. ASSUME NEW l \in Rules!Lists
      PROVE  /\ Rules!File(l) \in [state : {"none", "empty", "broken", "rules"}, rules : Rules!Lists]
             /\ Rules!File(l).state = "rules" /\ Rules!File(l).rules = l
  BY DEF Rules!File
<1>6. /\ Rules!NoFile("broken") \in [state : {"none", "empty", "broken", "rules"}, rules : Rules!Lists]
      /\ Rules!NoFile("broken").state = "broken"
  BY NoRulesList DEF Rules!NoFile
<1>7. CASE Rules!Write(e)
  <2>1. \/ \E l \in Rules!Decodable({R}) : file' = Rules!File(l)
        \/ doubled /\ file' = Rules!NoFile("broken")
    BY <1>7 DEF Rules!Write, R
  <2>2. ~doubled => Rules!Decodable({R}) = {R}
    BY DEF Rules!Decodable
  <2>3. Rules!Decodable({R}) \in SUBSET Rules!Lists
    BY <1>2, <1>4
  <2> QED
    BY <1>5, <1>6, <1>7, <2>1, <2>2, <2>3 DEF R
<1>8. CASE ~Rules!Write(e)
  <2>1. \/ file' = Rules!NoFile("broken")
        \/ \E l \in Rules!Decodable(Rules!Beginnings(R)) : file' = Rules!File(l)
    BY <1>8 DEF Rules!WritePiece, R
  <2>2. ~doubled => Rules!Decodable(Rules!Beginnings(R)) = Rules!Beginnings(R)
    BY DEF Rules!Decodable
  <2>3. Rules!Decodable(Rules!Beginnings(R)) \in SUBSET Rules!Lists
    BY <1>3, <1>4
  <2> QED
    BY <1>5, <1>6, <1>8, <2>1, <2>2, <2>3 DEF R
<1> QED
  BY <1>7, <1>8

LEMMA RuleTypeStep ==
  ASSUME RuleType, RuleStages, [Rules!Next]_ruleState
  PROVE  RuleType'
<1>1. CASE Rules!Restart
  BY <1>1, NoRulesList DEF Rules!Restart, Rules!Active, RuleType
<1>2. CASE Rules!ReloadReads \/ Rules!ReloadAssigns
  BY <1>2, ActiveEdit DEF Rules!ReloadReads, Rules!ReloadAssigns, Rules!Active, RuleType, Requested
<1>3. ASSUME NEW e \in Edits, Rules!Ask(e) PROVE RuleType'
  <2>1. PICK o \in {"add", "remove", "enable", "disable"}, n \in Names :
          /\ edit' = [edit EXCEPT ![e] = [op |-> o, name |-> n]]
          /\ contested' \subseteq contested \cup {n} \cup {edit[d].name : d \in {d \in Edits : Rules!Active(d)}}
    BY <1>3 DEF Rules!Ask, Rules!UserEdits, Rules!MachineEdits
  <2>2. \A d \in Edits : Rules!Active(d) => edit[d].name \in Names
    BY ActiveEdit DEF Requested
  <2>3. contested' \subseteq Names
    BY <2>1, <2>2 DEF RuleType
  <2>4. [op |-> o, name |-> n] \in Requested /\ [op |-> o, name |-> n] # Rules!NoEdit
    BY DEF Requested, Rules!NoEdit
  <2> HIDE DEF Rules!NoEdit
  <2>5. /\ edit' \in [Edits -> {Rules!NoEdit} \cup Requested]
        /\ editAt' = [editAt EXCEPT ![e] = "load"]
        /\ \A d \in Edits : Rules!Active(d)' => edit'[d] # Rules!NoEdit
    BY <1>3, <2>1, <2>4 DEF Rules!Ask, Rules!Goto, Rules!Active, RuleType, Requested
  <2> QED
    BY <1>3, <2>3, <2>5 DEF Rules!Ask, RuleType, Requested
<1>4. ASSUME NEW e \in Edits, Rules!Load(e) \/ Rules!ReadMemory(e) PROVE RuleType'
  BY <1>4, OverType DEF Rules!Load, Rules!ReadMemory, Rules!Goto, Rules!Active, RuleType, Requested
<1>5. ASSUME NEW e \in Edits, Rules!Create(e) \/ Rules!Marshal(e) PROVE RuleType'
  <2>1. doubled' \in BOOLEAN /\ contested' \subseteq Names
    <3>1. Rules!Create(e) => doubled' = \E d \in Edits \ {e} : Rules!Writing(d)
      BY DEF Rules!Create
    <3>2. Rules!Create(e) => doubled' \in BOOLEAN
      BY <3>1, Zenon
    <3> QED
      BY <1>5, <3>2 DEF Rules!Create, Rules!Marshal, RuleType
  <2>2. CASE Rules!Create(e)
    <3>1. /\ file' = Rules!NoFile("empty") /\ editAt' = [editAt EXCEPT ![e] = "write"] /\ editAt[e] = "create"
          /\ UNCHANGED <<store, memory, edit, loaded, reload, expected, torn>>
      BY <2>2 DEF Rules!Create, Rules!Goto
    <3>2. file' \in [state : {"none", "empty", "broken", "rules"}, rules : Rules!Lists]
      BY <3>1, NoRulesList DEF Rules!NoFile
    <3> QED
      BY <2>1, <3>1, <3>2 DEF RuleType, Rules!Active
  <2>3. CASE Rules!Marshal(e)
    BY <2>3 DEF Rules!Marshal, Rules!Goto, Rules!Active, RuleType
  <2> QED
    BY <1>5, <2>2, <2>3
<1>p. ASSUME NEW e \in Edits, Rules!WritePiece(e) PROVE RuleType'
  <2>1. UNCHANGED <<store, doubled, memory, edit, loaded, editAt, reload, expected, contested, torn>>
    BY <1>p DEF Rules!WritePiece
  <2> QED
    BY <1>p, <2>1, WriteType DEF RuleType, Rules!Active
<1>6. ASSUME NEW e \in Edits, Rules!CreateFails(e) \/ Rules!SaveFails(e) PROVE RuleType'
  <2>1. Rules!Over(e) /\ torn' \in BOOLEAN /\ UNCHANGED <<store, file, doubled, memory, reload, expected, contested>>
    BY <1>6 DEF Rules!CreateFails, Rules!SaveFails, RuleType
  <2> QED
    BY <2>1, OverType DEF Rules!Active, RuleType, Requested
<1>7. ASSUME NEW e \in Edits, Rules!Assign(e) PROVE RuleType'
  <2>1. edit[e] \in Requested /\ edit[e].op \in {"add", "remove"}
    BY <1>7, ActiveEdit DEF Rules!Assign, Rules!Active, RuleStages, RuleType, Requested
  <2>2. Rules!Result(edit[e], loaded[e]) \in Rules!Lists
    BY <2>1, ResultList DEF RuleType
  <2> QED
    BY <1>7, <2>2 DEF Rules!Assign, Rules!Goto, Rules!Active, RuleType
<1>8. ASSUME NEW e \in Edits, Rules!Write(e) \/ Rules!Rename(e) PROVE RuleType'
  <2>1. Rules!Active(e) /\ Rules!Over(e) /\ expected' = Outcome(e)
    BY <1>8 DEF Rules!Write, Rules!Writing, Rules!Rename, Rules!Acknowledged, Rules!Active, Outcome
  <2>2. Outcome(e) \in Rules!Lists /\ edit[e] \in Requested
    BY <2>1, OutcomeList, ActiveEdit
  <2>3. file' \in [state : {"none", "empty", "broken", "rules"}, rules : Rules!Lists]
    BY <1>8, WriteType DEF Rules!Rename, Rules!File, RuleType
  <2> QED
    BY <1>8, <2>1, <2>2, <2>3, OverType DEF Rules!Write, Rules!Rename, Rules!Active, RuleType, Requested
<1>9. CASE UNCHANGED ruleState
  BY <1>9 DEF ruleState, RuleType, Rules!Active
<1> QED
  BY <1>1, <1>2, <1>3, <1>4, <1>5, <1>p, <1>6, <1>7, <1>8, <1>9 DEF Rules!Next, Rules!EditStep

LEMMA RuleStagesStep ==
  ASSUME RuleType, RuleStages, [Rules!Next]_ruleState
  PROVE  RuleStages'
<1> USE DEF RuleType, RuleStages
<1>1. CASE Rules!Restart
  BY <1>1 DEF Rules!Restart, Rules!Active, Rules!NoEdit
<1>2. CASE Rules!ReloadReads \/ Rules!ReloadAssigns
  BY <1>2 DEF Rules!ReloadReads, Rules!ReloadAssigns
<1>3. ASSUME NEW e \in Edits, Rules!Ask(e) PROVE RuleStages'
  BY <1>3 DEF Rules!Ask, Rules!Goto, Rules!UserEdits, Rules!MachineEdits
<1>4. ASSUME NEW e \in Edits, Rules!Load(e) \/ Rules!ReadMemory(e) PROVE RuleStages'
  BY <1>4 DEF Rules!Load, Rules!ReadMemory, Rules!Over, Rules!Goto, Rules!NoEdit
<1>5. ASSUME NEW e \in Edits, Rules!Create(e) PROVE RuleStages'
  BY <1>5 DEF Rules!Create, Rules!Goto
<1>6. ASSUME NEW e \in Edits, Rules!Assign(e) \/ Rules!Marshal(e) PROVE RuleStages'
  BY <1>6 DEF Rules!Assign, Rules!Marshal, Rules!Goto
<1>7. ASSUME NEW e \in Edits, Rules!CreateFails(e) \/ Rules!SaveFails(e) PROVE RuleStages'
  BY <1>7 DEF Rules!CreateFails, Rules!SaveFails, Rules!Over, Rules!Goto, Rules!NoEdit
<1>8. ASSUME NEW e \in Edits, Rules!WritePiece(e) \/ Rules!Write(e) PROVE RuleStages'
  BY <1>8 DEF Rules!WritePiece, Rules!Write, Rules!Writing, Rules!Acknowledged, Rules!Over, Rules!Goto, Rules!NoEdit
<1>9. ASSUME NEW e \in Edits, Rules!Rename(e) PROVE RuleStages'
  BY <1>9 DEF Rules!Rename, Rules!File, Rules!Acknowledged, Rules!Over, Rules!Goto, Rules!NoEdit
<1>10. CASE UNCHANGED ruleState
  BY <1>10 DEF ruleState
<1> QED
  BY <1>1, <1>2, <1>3, <1>4, <1>5, <1>6, <1>7, <1>8, <1>9, <1>10 DEF Rules!Next, Rules!EditStep

\* What a step of edit e leaves of the other edits, and of its own name.
StepOf(e) ==
  /\ \A d \in Edits \ {e} : edit'[d] = edit[d] /\ loaded'[d] = loaded[d] /\ editAt'[d] = editAt[d]
  /\ UNCHANGED <<store, reload>> /\ contested \subseteq contested' /\ contested' \subseteq Names
  /\ Rules!Active(e)
  /\ editAt'[e] = "over" \/ (Rules!Active(e)' /\ edit'[e] = edit[e])

LEMMA EditSteps ==
  ASSUME RuleType, NEW e \in Edits, Rules!EditStep(e), ~Rules!Ask(e)
  PROVE  StepOf(e)
<1>0. contested \subseteq contested' /\ contested' \subseteq Names
  BY DEF Rules!EditStep, Rules!Load, Rules!ReadMemory, Rules!Create, Rules!Assign, Rules!Marshal,
         Rules!CreateFails, Rules!SaveFails, Rules!WritePiece, Rules!Write, Rules!Rename, RuleType
<1>1. CASE Rules!Over(e)
  <2>1. UNCHANGED <<store, reload>> /\ Rules!Active(e)
    BY <1>1 DEF Rules!EditStep, Rules!Load, Rules!ReadMemory, Rules!Create, Rules!Assign, Rules!Marshal,
                Rules!CreateFails, Rules!SaveFails, Rules!WritePiece, Rules!Write, Rules!Writing,
                Rules!Rename, Rules!Active
  <2>2. /\ editAt'[e] = "over"
        /\ \A d \in Edits \ {e} : edit'[d] = edit[d] /\ loaded'[d] = loaded[d] /\ editAt'[d] = editAt[d]
    BY <1>1, OverType
  <2> QED
    BY <1>0, <2>1, <2>2 DEF StepOf
<1>2. CASE Rules!WritePiece(e)
  BY <1>0, <1>2 DEF Rules!WritePiece, Rules!Writing, Rules!Active, StepOf
<1>3. CASE ~Rules!Over(e) /\ ~Rules!WritePiece(e)
  <2>1. \/ Rules!Load(e) \/ Rules!ReadMemory(e)
        \/ Rules!Create(e) \/ Rules!Assign(e) \/ Rules!Marshal(e)
    BY <1>3 DEF Rules!EditStep, Rules!CreateFails, Rules!SaveFails, Rules!Write, Rules!Rename, Rules!Acknowledged
  <2>2. edit' = edit /\ \E s \in {"create", "write", "assign", "marshal", "rename"} : Rules!Goto(e, s)
    BY <1>3, <2>1 DEF Rules!Load, Rules!ReadMemory, Rules!Create, Rules!Assign, Rules!Marshal
  <2>3. UNCHANGED <<store, reload>> /\ Rules!Active(e)
    BY <2>1 DEF Rules!Load, Rules!ReadMemory, Rules!Create, Rules!Assign, Rules!Marshal, Rules!Active
  <2>4. \A d \in Edits \ {e} : loaded'[d] = loaded[d]
    BY <1>3, <2>1 DEF Rules!Load, Rules!ReadMemory, Rules!Create, Rules!Assign, Rules!Marshal, RuleType
  <2> QED
    BY <1>0, <2>2, <2>3, <2>4 DEF StepOf, Rules!Goto, Rules!Active, RuleType
<1> QED
  BY <1>1, <1>2, <1>3

\* A request makes its name and those of the active edits contested, unless it is alone.
LEMMA AskStep ==
  ASSUME RuleType, NEW e \in Edits, Rules!Ask(e)
  PROVE  /\ edit'[e].name \in Names /\ editAt[e] = "idle" /\ editAt'[e] = "load"
         /\ \A d \in Edits \ {e} : edit'[d] = edit[d] /\ editAt'[d] = editAt[d]
         /\ contested \subseteq contested'
         /\ ~Rules!Quiet => /\ edit'[e].name \in contested'
                            /\ \A d \in Edits : Rules!Active(d) => edit[d].name \in contested'
         /\ UNCHANGED <<store, file, doubled, memory, loaded, reload, expected, torn>>
<1>1. PICK o \in Rules!UserEdits \cup Rules!MachineEdits, n \in Names :
        /\ edit' = [edit EXCEPT ![e] = [op |-> o, name |-> n]]
        /\ contested' = IF Rules!Quiet THEN contested
                        ELSE contested \cup {n} \cup {edit[d].name : d \in {d \in Edits : Rules!Active(d)}}
  BY DEF Rules!Ask
<1>2. edit'[e].name = n /\ \A d \in Edits \ {e} : edit'[d] = edit[d]
  BY <1>1 DEF RuleType
<1> HIDE DEF Rules!Quiet, Rules!Active
<1> QED
  BY <1>1, <1>2 DEF Rules!Ask, Rules!Goto, RuleType

LEMMA OverlapsStep ==
  ASSUME RuleType, RuleStages, Overlaps, [Rules!Next]_ruleState
  PROVE  Overlaps'
<1>1. CASE Rules!Restart
  BY <1>1 DEF Rules!Restart, Rules!Active, Overlaps, RuleType
<1>2. CASE Rules!ReloadReads \/ Rules!ReloadAssigns
  BY <1>2 DEF Rules!ReloadReads, Rules!ReloadAssigns, Rules!Active, Overlaps
<1>3. ASSUME NEW e \in Edits, Rules!Ask(e) PROVE Overlaps'
  <2>1. \A d \in Edits \ {e} : Rules!Active(d)' = Rules!Active(d)
    BY <1>3, AskStep DEF Rules!Active
  <2>2. ~Rules!Active(e)
    BY <1>3, AskStep DEF Rules!Active
  <2>3. (\E d \in Edits : Rules!Active(d)) \/ reload # {} => ~Rules!Quiet
    BY DEF Rules!Quiet
  <2> QED
    BY <1>3, <2>1, <2>2, <2>3, AskStep DEF Overlaps
<1>4. ASSUME NEW e \in Edits, Rules!EditStep(e), ~Rules!Ask(e) PROVE Overlaps'
  <2>1. StepOf(e)
    BY <1>4, EditSteps
  <2>2. \A d \in Edits : Rules!Active(d)' => Rules!Active(d) /\ edit'[d] = edit[d]
    BY <2>1 DEF StepOf, Rules!Active
  <2> QED
    BY <2>1, <2>2 DEF StepOf, Overlaps
<1>5. CASE UNCHANGED ruleState
  BY <1>5 DEF ruleState, Overlaps, Rules!Active
<1> QED
  BY <1>1, <1>2, <1>3, <1>4, <1>5 DEF Rules!Next

LEMMA DoubledStep ==
  ASSUME RuleType, RuleStages, Overlaps, Doubled, [Rules!Next]_ruleState
  PROVE  Doubled'
<1> USE DEF Doubled, Rules!Writing
<1>1. CASE Rules!Restart
  BY <1>1 DEF Rules!Restart, Rules!Active, RuleType
<1>2. CASE Rules!ReloadReads \/ Rules!ReloadAssigns
  <2>1. doubled' = doubled /\ editAt' = editAt /\ store = "machine"
    BY <1>2 DEF Rules!ReloadReads, Rules!ReloadAssigns, RuleStages, RuleType
  <2> QED
    BY <2>1 DEF RuleStages
<1>3. ASSUME NEW e \in Edits, Rules!Ask(e) PROVE Doubled'
  <2>1. \A d \in Edits : editAt'[d] = "write" => editAt[d] = "write"
    BY <1>3, AskStep
  <2>2. contested \subseteq contested' /\ contested' \subseteq Names /\ doubled' = doubled
    BY <1>3, AskStep, RuleTypeStep DEF RuleType
  <2> QED
    BY <2>1, <2>2
<1>4. ASSUME NEW e \in Edits, Rules!EditStep(e), ~Rules!Ask(e), ~Rules!Create(e) PROVE Doubled'
  <2>1. StepOf(e)
    BY <1>4, EditSteps
  <2>2. doubled' = doubled /\ (editAt'[e] = "write" => editAt[e] = "write")
    BY <1>4 DEF Rules!EditStep, Rules!Load, Rules!ReadMemory, Rules!Assign, Rules!Marshal,
                Rules!CreateFails, Rules!SaveFails, Rules!WritePiece, Rules!Write, Rules!Rename,
                Rules!Acknowledged, Rules!Over, Rules!Goto, RuleType
  <2> QED
    BY <2>1, <2>2 DEF StepOf
<1>5. ASSUME NEW e \in Edits, Rules!Create(e) PROVE Doubled'
  <2>1. /\ doubled' = (\E d \in Edits \ {e} : editAt[d] = "write")
        /\ contested' = IF doubled' THEN Names ELSE contested
        /\ \A d \in Edits \ {e} : editAt'[d] = editAt[d]
    BY <1>5 DEF Rules!Create, Rules!Goto, RuleType
  <2>2. doubled' => contested' = Names
    BY <2>1, Zenon
  <2>3. ASSUME NEW d \in Edits, d # e, editAt'[d] = "write" PROVE doubled'
    BY <2>1, <2>3, Zenon
  <2>4. ASSUME NEW c \in Edits, NEW d \in Edits, c # d, editAt'[c] = "write", editAt'[d] = "write"
        PROVE  doubled'
    BY <2>3, <2>4, Zenon
  <2> QED
    BY <2>2, <2>4
<1>6. CASE UNCHANGED ruleState
  BY <1>6 DEF ruleState
<1> QED
  BY <1>1, <1>2, <1>3, <1>4, <1>5, <1>6 DEF Rules!Next

LEMMA UnreadableStep ==
  ASSUME RuleType, RuleStages, Overlaps, Doubled, UnreadableForNow, [Rules!Next]_ruleState
  PROVE  UnreadableForNow'
<1> USE DEF UnreadableForNow, Rules!Writing
<1>1. CASE Rules!Restart
  <2>1. torn \/ (\E e \in Edits : editAt[e] = "write") => torn'
    BY <1>1, Zenon DEF Rules!Restart, Rules!Writing
  <2> QED
    BY <1>1, <2>1 DEF Rules!Restart
<1>2. CASE Rules!ReloadReads \/ Rules!ReloadAssigns
  BY <1>2 DEF Rules!ReloadReads, Rules!ReloadAssigns, RuleStages, RuleType
<1>3. ASSUME NEW e \in Edits, Rules!Ask(e) PROVE UnreadableForNow'
  BY <1>3, AskStep, RuleTypeStep DEF RuleType
<1>5. ASSUME NEW e \in Edits, Rules!EditStep(e), ~Rules!Ask(e),
             ~(Rules!Create(e) \/ Rules!WritePiece(e) \/ Rules!Write(e) \/ Rules!SaveFails(e) \/ Rules!Rename(e))
      PROVE  UnreadableForNow'
  <2>1. StepOf(e)
    BY <1>5, EditSteps
  <2>2. file' = file /\ editAt[e] # "write" /\ torn' = torn
    BY <1>5 DEF Rules!EditStep, Rules!Load, Rules!CreateFails, Rules!ReadMemory, Rules!Assign, Rules!Marshal
  <2> QED
    BY <2>1, <2>2 DEF StepOf
<1>6. ASSUME NEW e \in Edits, Rules!Create(e) \/ Rules!WritePiece(e) PROVE UnreadableForNow'
  <2>1. editAt'[e] = "write"
    BY <1>6 DEF Rules!Create, Rules!WritePiece, Rules!Goto, RuleType
  <2> QED
    BY <2>1
<1>7. ASSUME NEW e \in Edits, Rules!Write(e) PROVE UnreadableForNow'
  <2>1. contested' = contested
    BY <1>7 DEF Rules!Write
  <2>2. file'.state = "rules" \/ contested = Names
    BY <1>7, WriteType DEF Doubled
  <2> QED
    BY <2>1, <2>2
<1>8. ASSUME NEW e \in Edits, Rules!SaveFails(e) PROVE UnreadableForNow'
  BY <1>8 DEF Rules!SaveFails
<1>9. ASSUME NEW e \in Edits, Rules!Rename(e) PROVE UnreadableForNow'
  BY <1>9 DEF Rules!Rename, Rules!File
<1>10. CASE UNCHANGED ruleState
  BY <1>10 DEF ruleState
<1> QED
  BY <1>1, <1>2, <1>3, <1>5, <1>6, <1>7, <1>8, <1>9, <1>10 DEF Rules!Next, Rules!EditStep

\* What is expected changes when a write or a rename answers an edit.
LEMMA ExpectedStep ==
  ASSUME RuleType, [Rules!Next]_ruleState
  PROVE  \/ expected' = expected
         \/ \E e \in Edits : Rules!Active(e) /\ expected' = Outcome(e)
<1>1. ASSUME NEW e \in Edits, Rules!Write(e) \/ Rules!Rename(e)
      PROVE  Rules!Active(e) /\ expected' = Outcome(e)
  BY <1>1 DEF Rules!Write, Rules!Writing, Rules!Rename, Rules!Acknowledged, Rules!Active, Outcome
<1>2. ASSUME NEW e \in Edits, Rules!EditStep(e), ~(Rules!Write(e) \/ Rules!Rename(e))
      PROVE  expected' = expected
  BY <1>2 DEF Rules!EditStep, Rules!Ask, Rules!Load, Rules!Create, Rules!CreateFails, Rules!ReadMemory,
              Rules!Assign, Rules!Marshal, Rules!SaveFails, Rules!WritePiece
<1>3. Rules!Restart \/ Rules!ReloadReads \/ Rules!ReloadAssigns \/ UNCHANGED ruleState => expected' = expected
  BY DEF Rules!Restart, Rules!ReloadReads, Rules!ReloadAssigns, ruleState
<1> QED
  BY <1>1, <1>2, <1>3 DEF Rules!Next

\* While an edit of an uncontested name is active no other edit is, and no reload.
LEMMA AloneWith ==
  ASSUME Overlaps, NEW e \in Edits, Rules!Active(e), edit[e].name \notin contested
  PROVE  reload = {} /\ \A d \in Edits \ {e} : ~Rules!Active(d)
BY DEF Overlaps

\* The file while its writers write, with respect to a name.
LEMMA WrittenName ==
  ASSUME RuleType, ~doubled, NEW e \in Edits, Rules!WritePiece(e) \/ Rules!Write(e), NEW n, Readable'
  PROVE  /\ Below(file'.rules, Rules!Result(edit[e], loaded[e]), n)
         /\ Rules!Write(e) => file'.rules = Rules!Result(edit[e], loaded[e])
<1> DEFINE R == Rules!Result(edit[e], loaded[e])
<1>1. file'.state = "rules"
  BY WriteType DEF Readable
<1>2. file'.rules \in {R} \cup Rules!Beginnings(R)
  BY <1>1, WriteType
<1> QED
  BY <1>1, <1>2, WriteType DEF Rules!Beginnings, Below

\* A user's file, with respect to a name that stays uncontested: it says no more.
LEMMA UserStep ==
  ASSUME RuleType, RuleStages, Overlaps, Doubled, store = "user",
         [Rules!Next]_ruleState,
         NEW n \in Names, n \notin contested, UserFollows(n), ~torn'
  PROVE  UserFollows(n)'
<1> USE DEF UserFollows, Readable, Rules!Writing
<1>0. ~doubled
  BY DEF Doubled
<1>1. CASE Rules!Restart
  <2>1. ~ \E e \in Edits : editAt[e] = "write"
    BY <1>1, Zenon DEF Rules!Restart, Rules!Writing
  <2>2. file' = file /\ expected' = expected /\ \A e \in Edits : editAt'[e] \notin {"create", "write"}
    BY <1>1 DEF Rules!Restart, Rules!Active, RuleType
  <2> QED
    BY <2>1, <2>2
<1>2. CASE Rules!ReloadReads \/ Rules!ReloadAssigns
  BY <1>2 DEF Rules!ReloadReads, Rules!ReloadAssigns, RuleStages
<1>3. ASSUME NEW e \in Edits, Rules!Ask(e) PROVE UserFollows(n)'
  BY <1>3, AskStep
<1>4. ASSUME NEW e \in Edits, Rules!Load(e) PROVE UserFollows(n)'
  <2>1. StepOf(e) /\ file' = file /\ expected' = expected /\ editAt[e] = "load" /\ editAt'[e] # "write"
    BY <1>4, EditSteps, OverType DEF Rules!EditStep, Rules!Load, Rules!Ask, Rules!Goto, RuleType
  <2>2. editAt'[e] = "create" => loaded'[e] = file.rules /\ file.state \in {"none", "rules"}
    BY <1>4, OverType DEF Rules!Load, Rules!Goto, RuleType
  <2>3. \A d \in Edits : editAt[d] = "write" => edit[d].name # n
    BY <2>1 DEF Overlaps, Rules!Active
  <2>4. file.state \in {"none", "rules"} => Below(file.rules, expected, n)
    BY <2>3
  <2> QED
    BY <2>1, <2>2, <2>4 DEF StepOf
<1>5. ASSUME NEW e \in Edits, Rules!Create(e) PROVE UserFollows(n)'
  BY <1>5 DEF Rules!Create, Rules!NoFile, Rules!Goto, RuleType
<1>6. ASSUME NEW e \in Edits, Rules!CreateFails(e) PROVE UserFollows(n)'
  <2>1. StepOf(e) /\ file' = file /\ expected' = expected /\ editAt'[e] = "over" /\ editAt[e] = "create"
    BY <1>6, EditSteps, OverType DEF Rules!EditStep, Rules!CreateFails, Rules!Ask
  <2> QED
    BY <2>1 DEF StepOf
<1>7. ASSUME NEW e \in Edits, Rules!WritePiece(e) \/ Rules!Write(e) PROVE UserFollows(n)'
  <2> DEFINE R == Rules!Result(edit[e], loaded[e])
  <2>1. /\ StepOf(e) /\ editAt[e] = "write"
        /\ edit[e] \in Requested /\ loaded[e] \in Rules!Lists /\ expected \in Rules!Lists
    BY <1>7, EditSteps, ActiveEdit
    DEF Rules!EditStep, Rules!WritePiece, Rules!Write, Rules!Ask, Rules!Active, RuleType
  <2>2. Below(loaded[e], expected, n)
    BY <2>1
  <2>3. expected' = expected \/ (Rules!Write(e) /\ expected' = Outcome(e) /\ editAt'[e] = "over")
    BY <1>7, OverType DEF Rules!WritePiece, Rules!Write, Rules!Acknowledged, Outcome
  <2>4. Readable' => Below(file'.rules, R, n)
    BY <1>0, <1>7, WrittenName
  <2> HIDE DEF R
  <2>5. CASE edit[e].name = n
    <3>1. \A d \in Edits \ {e} : ~Rules!Active(d) /\ editAt'[d] = editAt[d]
      BY <2>1, <2>5, AloneWith DEF StepOf, Rules!Active
    <3>2. CASE Rules!Write(e)
      <4>1. expected' = Outcome(e) /\ editAt'[e] = "over"
        BY <3>2, OverType DEF Rules!Write, Rules!Acknowledged, Outcome
      <4>2. Below(R, Outcome(e), n)
        BY <2>1, <2>2, <2>5, ResultSame DEF Outcome, R
      <4>3. Readable' => Below(file'.rules, expected', n)
        BY <2>4, <4>1, <4>2, BelowSame
      <4> QED
        BY <3>1, <4>1, <4>3 DEF Rules!Active
    <3>3. CASE ~Rules!Write(e)
      <4>1. UNCHANGED <<loaded, edit, editAt, expected>>
        BY <1>7, <3>3 DEF Rules!WritePiece
      <4> QED
        BY <2>1, <2>5, <4>1
    <3> QED
      BY <3>2, <3>3
  <2>6. CASE edit[e].name # n
    <3>1. Same(expected', expected, n)
      BY <2>1, <2>3, <2>6, OutcomeOther, SameIsEquality DEF StepOf
    <3>2. Same(R, loaded[e], n)
      BY <2>1, <2>6, ResultOther DEF R
    <3>3. \A l : Below(l, expected, n) => Below(l, expected', n)
      BY <3>1, SameIsEquality, BelowSame
    <3>4. Readable' => Below(file'.rules, expected', n)
      BY <2>2, <2>4, <3>2, <3>3, BelowSame
    <3>5. ASSUME NEW d \in Edits, editAt'[d] \in {"create", "write"} PROVE Below(loaded'[d], expected', n)
      <4>1. CASE d # e
        BY <2>1, <3>3, <3>5, <4>1 DEF StepOf
      <4>2. CASE d = e
        <5>1. loaded' = loaded
          BY <1>7, <3>5, <4>2, OverType DEF Rules!WritePiece, Rules!Write, Rules!Acknowledged
        <5> QED
          BY <2>2, <3>3, <4>2, <5>1
      <4> QED
        BY <4>1, <4>2
    <3> QED
      BY <3>4, <3>5
  <2> QED
    BY <2>5, <2>6
<1>8. ASSUME NEW e \in Edits, Rules!SaveFails(e) PROVE UserFollows(n)'
  BY <1>8 DEF Rules!SaveFails
<1>9. ASSUME NEW e \in Edits, Rules!ReadMemory(e) \/ Rules!Assign(e) \/ Rules!Marshal(e) \/ Rules!Rename(e)
      PROVE  UserFollows(n)'
  BY <1>9 DEF Rules!ReadMemory, Rules!Assign, Rules!Marshal, Rules!Rename, RuleStages
<1>10. CASE UNCHANGED ruleState
  BY <1>10 DEF ruleState
<1> QED
  BY <1>1, <1>2, <1>3, <1>4, <1>5, <1>6, <1>7, <1>8, <1>9, <1>10 DEF Rules!Next, Rules!EditStep

\* While no edits overlap it says just what is expected.
LEMMA ExactStep ==
  ASSUME RuleType, RuleStages, Overlaps, Doubled, store = "user",
         [Rules!Next]_ruleState,
         NEW n \in Names, contested = {}, UserExact(n), ~torn'
  PROVE  UserExact(n)'
<1> USE DEF UserExact, Readable, Rules!Writing
<1>0. ~doubled
  BY DEF Doubled
<1>1. CASE Rules!Restart
  <2>1. ~ \E e \in Edits : editAt[e] = "write"
    BY <1>1, Zenon DEF Rules!Restart, Rules!Writing
  <2>2. file' = file /\ expected' = expected /\ \A e \in Edits : editAt'[e] \notin {"create", "write"}
    BY <1>1 DEF Rules!Restart, Rules!Active, RuleType
  <2> QED
    BY <2>1, <2>2
<1>2. CASE Rules!ReloadReads \/ Rules!ReloadAssigns
  BY <1>2 DEF Rules!ReloadReads, Rules!ReloadAssigns, RuleStages
<1>3. ASSUME NEW e \in Edits, Rules!Ask(e) PROVE UserExact(n)'
  BY <1>3, AskStep
<1>4. ASSUME NEW e \in Edits, Rules!Load(e) PROVE UserExact(n)'
  <2>1. StepOf(e) /\ file' = file /\ expected' = expected /\ editAt[e] = "load" /\ editAt'[e] # "write"
    BY <1>4, EditSteps, OverType DEF Rules!EditStep, Rules!Load, Rules!Ask, Rules!Goto, RuleType
  <2>2. editAt'[e] = "create" => loaded'[e] = file.rules /\ file.state \in {"none", "rules"}
    BY <1>4, OverType DEF Rules!Load, Rules!Goto, RuleType
  <2>3. \A d \in Edits : editAt[d] # "write"
    BY <2>1 DEF Overlaps, Rules!Active
  <2>4. file.state \in {"none", "rules"} => Same(file.rules, expected, n)
    BY <2>3
  <2> QED
    BY <2>1, <2>2, <2>4 DEF StepOf
<1>5. ASSUME NEW e \in Edits, Rules!Create(e) PROVE UserExact(n)'
  BY <1>5 DEF Rules!Create, Rules!NoFile, Rules!Goto, RuleType
<1>6. ASSUME NEW e \in Edits, Rules!CreateFails(e) PROVE UserExact(n)'
  <2>1. StepOf(e) /\ file' = file /\ expected' = expected /\ editAt'[e] = "over" /\ editAt[e] = "create"
    BY <1>6, EditSteps, OverType DEF Rules!EditStep, Rules!CreateFails, Rules!Ask
  <2> QED
    BY <2>1 DEF StepOf
<1>p. ASSUME NEW e \in Edits, Rules!WritePiece(e) PROVE UserExact(n)'
  <2>1. UNCHANGED <<loaded, editAt, expected>> /\ editAt[e] = "write"
    BY <1>p DEF Rules!WritePiece
  <2> QED
    BY <2>1
<1>7. ASSUME NEW e \in Edits, Rules!Write(e) PROVE UserExact(n)'
  <2>1. /\ StepOf(e) /\ editAt[e] = "write" /\ editAt'[e] = "over" /\ expected' = Outcome(e)
        /\ edit[e] \in Requested /\ loaded[e] \in Rules!Lists /\ expected \in Rules!Lists
    BY <1>7, EditSteps, OverType, ActiveEdit
    DEF Rules!EditStep, Rules!Write, Rules!Ask, Rules!Acknowledged, Rules!Active, RuleType, Outcome
  <2>2. Readable' => file'.rules = Rules!Result(edit[e], loaded[e])
    BY <1>0, <1>7, WrittenName
  <2>3. Same(loaded[e], expected, n)
    BY <2>1
  <2>4. Same(Rules!Result(edit[e], loaded[e]), Outcome(e), n)
    <3>1. CASE edit[e].name = n
      BY <2>1, <2>3, <3>1, ResultSame DEF Outcome
    <3>2. CASE edit[e].name # n
      BY <2>1, <2>3, <3>2, ResultOther, SameIsEquality DEF Outcome
    <3> QED
      BY <3>1, <3>2
  <2>5. \A d \in Edits : editAt'[d] \notin {"create", "write"}
    BY <2>1 DEF Overlaps, Rules!Active, StepOf
  <2> QED
    BY <2>1, <2>2, <2>4, <2>5
<1>8. ASSUME NEW e \in Edits, Rules!SaveFails(e) PROVE UserExact(n)'
  BY <1>8 DEF Rules!SaveFails
<1>9. ASSUME NEW e \in Edits, Rules!ReadMemory(e) \/ Rules!Assign(e) \/ Rules!Marshal(e) \/ Rules!Rename(e)
      PROVE  UserExact(n)'
  BY <1>9 DEF Rules!ReadMemory, Rules!Assign, Rules!Marshal, Rules!Rename, RuleStages
<1>10. CASE UNCHANGED ruleState
  BY <1>10 DEF ruleState
<1> QED
  BY <1>1, <1>2, <1>3, <1>4, <1>5, <1>6, <1>p, <1>7, <1>8, <1>9, <1>10 DEF Rules!Next, Rules!EditStep

LEMMA OutcomeStays ==
  ASSUME NEW e \in Edits, edit'[e] = edit[e], expected' = expected
  PROVE  Outcome(e)' = Outcome(e)
BY DEF Outcome

\* Beside an edit of another name none of an uncontested one is active.
LEMMA OnlyOther ==
  ASSUME Overlaps, NEW n, n \notin contested, NEW e \in Edits, Rules!Active(e), edit[e].name # n
  PROVE  \A d \in Edits : Rules!Active(d) => edit[d].name # n
BY DEF Overlaps

LEMMA MemoryIsExpected ==
  ASSUME Overlaps, NEW n, n \notin contested, MachineFollows(n),
         NEW e \in Edits, Rules!Active(e), edit[e].name # n \/ editAt[e] \in {"load", "assign"}
  PROVE  Same(memory, expected, n)
BY DEF Overlaps, MachineFollows, Rules!Active

\* The machine's list and file, with respect to a name that stays uncontested.
LEMMA MachineStep ==
  ASSUME RuleType, RuleStages, Overlaps, store = "machine",
         [Rules!Next]_ruleState,
         NEW n \in Names, n \notin contested, n \notin contested', MachineFollows(n), ~torn'
  PROVE  MachineFollows(n)'
<1>1. CASE Rules!Restart
  <2>1. /\ reload' = {} /\ memory' = file.rules /\ file' = file /\ expected' = expected
        /\ \A e \in Edits : editAt'[e] \notin {"assign", "marshal", "rename"}
    BY <1>1 DEF Rules!Restart, Rules!Active, RuleType
  <2> QED
    BY <2>1 DEF MachineFollows
<1>2. CASE Rules!ReloadReads
  <2>1. reload' = {file.rules} /\ UNCHANGED <<file, memory, edit, loaded, editAt, expected>>
    BY <1>2 DEF Rules!ReloadReads
  <2>2. \A e \in Edits : Outcome(e)' = Outcome(e)
    BY <2>1, OutcomeStays
  <2> QED
    BY <2>1, <2>2 DEF MachineFollows
<1>3. CASE Rules!ReloadAssigns
  <2>1. PICK l \in reload : memory' = l /\ reload' = {} /\ UNCHANGED <<file, edit, loaded, editAt, expected>>
    BY <1>3 DEF Rules!ReloadAssigns
  <2>2. \A e \in Edits : Outcome(e)' = Outcome(e)
    BY <2>1, OutcomeStays
  <2>3. \A e \in Edits : editAt[e] \in {"marshal", "rename"} => edit[e].name # n
    BY <2>1 DEF Overlaps, Rules!Active
  <2> QED
    BY <2>1, <2>2, <2>3 DEF MachineFollows
<1>4. ASSUME NEW e \in Edits, Rules!Ask(e) PROVE MachineFollows(n)'
  <2>1. \A d \in Edits \ {e} : Outcome(d)' = Outcome(d) /\ edit'[d] = edit[d] /\ editAt'[d] = editAt[d]
    BY <1>4, AskStep, OutcomeStays
  <2>2. editAt[e] = "idle" /\ editAt'[e] = "load" /\ UNCHANGED <<file, memory, loaded, reload, expected>>
    BY <1>4, AskStep
  <2> QED
    BY <2>1, <2>2 DEF MachineFollows
<1>5. ASSUME NEW e \in Edits, Rules!ReadMemory(e) PROVE MachineFollows(n)'
  <2>1. /\ StepOf(e) /\ editAt[e] = "load" /\ Rules!Active(e)
        /\ UNCHANGED <<file, memory, reload, expected>>
    BY <1>5, EditSteps DEF Rules!EditStep, Rules!ReadMemory, Rules!Ask, Rules!Active
  <2>2. editAt'[e] = "over" \/ (editAt'[e] = "assign" /\ loaded'[e] = memory)
    BY <1>5, OverType DEF Rules!ReadMemory, Rules!Goto, RuleType
  <2>3. Same(memory, expected, n)
    BY <2>1, MemoryIsExpected
  <2>4. \A d \in Edits \ {e} : Outcome(d)' = Outcome(d)
    BY <2>1, OutcomeStays DEF StepOf
  <2> QED
    BY <2>1, <2>2, <2>3, <2>4 DEF MachineFollows, StepOf
<1>6. ASSUME NEW e \in Edits, Rules!Assign(e) PROVE MachineFollows(n)'
  <2>1. /\ StepOf(e) /\ editAt[e] = "assign" /\ editAt'[e] = "marshal" /\ Rules!Active(e)
        /\ edit' = edit /\ UNCHANGED <<file, reload, expected>>
        /\ memory' = Rules!Result(edit[e], loaded[e])
    BY <1>6, EditSteps DEF Rules!EditStep, Rules!Assign, Rules!Ask, Rules!Goto, Rules!Active, RuleType
  <2>2. \A d \in Edits : Outcome(d)' = Outcome(d)
    BY <2>1, OutcomeStays
  <2>3. Same(loaded[e], expected, n) /\ edit[e] \in Requested /\ loaded[e] \in Rules!Lists
    BY <2>1, ActiveEdit DEF MachineFollows, RuleType
  <2>4. CASE edit[e].name = n
    <3>1. Same(memory', Outcome(e), n)
      BY <2>1, <2>3, <2>4, ResultSame DEF Outcome, RuleType
    <3>2. \A d \in Edits \ {e} : ~Rules!Active(d)
      BY <2>1, <2>4, AloneWith
    <3> QED
      BY <2>1, <2>2, <2>4, <3>1, <3>2 DEF MachineFollows, StepOf, Rules!Active
  <2>5. CASE edit[e].name # n
    <3>1. Same(memory', expected, n)
      BY <2>1, <2>3, <2>5, ResultOther, SameIsEquality
    <3>2. \A d \in Edits : editAt[d] \in {"marshal", "rename"} => edit[d].name # n
      BY <2>1, <2>5, OnlyOther DEF Rules!Active
    <3> QED
      BY <2>1, <2>2, <2>5, <3>1, <3>2 DEF MachineFollows, StepOf
  <2> QED
    BY <2>4, <2>5
<1>7. ASSUME NEW e \in Edits, Rules!Marshal(e) PROVE MachineFollows(n)'
  <2>1. /\ StepOf(e) /\ editAt[e] = "marshal" /\ editAt'[e] = "rename" /\ Rules!Active(e)
        /\ edit' = edit /\ UNCHANGED <<file, memory, reload, expected>> /\ loaded'[e] = memory
    BY <1>7, EditSteps DEF Rules!EditStep, Rules!Marshal, Rules!Ask, Rules!Goto, Rules!Active, RuleType
  <2>2. \A d \in Edits : Outcome(d)' = Outcome(d)
    BY <2>1, OutcomeStays
  <2>3. Same(memory, IF edit[e].name = n THEN Outcome(e) ELSE expected, n)
    BY <2>1, MemoryIsExpected DEF MachineFollows
  <2> QED
    BY <2>1, <2>2, <2>3 DEF MachineFollows, StepOf
<1>8. ASSUME NEW e \in Edits, Rules!Rename(e) PROVE MachineFollows(n)'
  <2>1. /\ StepOf(e) /\ editAt[e] = "rename" /\ editAt'[e] = "over" /\ Rules!Active(e)
        /\ UNCHANGED <<memory, reload>> /\ file'.rules = loaded[e] /\ expected' = Outcome(e)
    BY <1>8, EditSteps, OverType
    DEF Rules!EditStep, Rules!Rename, Rules!Ask, Rules!Acknowledged, Rules!Active, Rules!File, Outcome
  <2>2. CASE edit[e].name = n
    <3>1. reload = {} /\ \A d \in Edits \ {e} : ~Rules!Active(d)
      BY <2>1, <2>2, AloneWith
    <3>2. \A d \in Edits : editAt'[d] \notin {"assign", "marshal", "rename"}
      BY <2>1, <3>1 DEF StepOf, Rules!Active
    <3>3. Same(loaded[e], Outcome(e), n) /\ Same(memory, Outcome(e), n)
      BY <2>1, <2>2 DEF MachineFollows
    <3> QED
      BY <2>1, <3>1, <3>2, <3>3 DEF MachineFollows
  <2>3. CASE edit[e].name # n
    <3>1. Same(expected', expected, n)
      BY <2>1, <2>3, OutcomeOther
    <3>2. \A l : Same(l, expected, n) => Same(l, expected', n)
      BY <3>1, SameIsEquality
    <3>3. \A d \in Edits : Rules!Active(d) => edit[d].name # n
      BY <2>1, <2>3, OnlyOther
    <3>4. \A d \in Edits : editAt'[d] \in {"assign", "marshal", "rename"} =>
            edit'[d].name # n /\ loaded'[d] = loaded[d] /\ editAt'[d] = editAt[d] /\ edit'[d] = edit[d]
      BY <2>1, <3>3 DEF StepOf, Rules!Active
    <3>5. Same(memory, expected, n)
      BY <2>1, <2>3, MemoryIsExpected
    <3>6. Same(loaded[e], expected, n)
      BY <2>1, <2>3 DEF MachineFollows
    <3> QED
      BY <2>1, <3>2, <3>4, <3>5, <3>6 DEF MachineFollows
  <2> QED
    BY <2>2, <2>3
<1>9. ASSUME NEW e \in Edits,
             \/ Rules!Load(e) \/ Rules!Create(e) \/ Rules!CreateFails(e)
             \/ Rules!WritePiece(e) \/ Rules!Write(e) \/ Rules!SaveFails(e)
      PROVE  MachineFollows(n)'
  BY <1>9 DEF Rules!Load, Rules!Create, Rules!CreateFails, Rules!WritePiece, Rules!Write, Rules!Writing,
              Rules!SaveFails, RuleStages
<1>10. CASE UNCHANGED ruleState
  <2>1. UNCHANGED <<file, memory, edit, loaded, editAt, reload, expected>>
    BY <1>10 DEF ruleState
  <2>2. \A e \in Edits : Outcome(e)' = Outcome(e)
    BY <2>1, OutcomeStays
  <2> QED
    BY <2>1, <2>2 DEF MachineFollows
<1> QED
  BY <1>1, <1>2, <1>3, <1>4, <1>5, <1>6, <1>7, <1>8, <1>9, <1>10 DEF Rules!Next, Rules!EditStep

\* Nothing that ever tore a file or contested a name is forgotten.
LEMMA RuleHistory ==
  ASSUME [Rules!Next]_ruleState, RuleType
  PROVE  store' = store /\ contested \subseteq contested' /\ (torn => torn')
<1>1. ASSUME NEW e \in Edits, Rules!Ask(e) PROVE store' = store /\ contested \subseteq contested' /\ torn' = torn
  BY <1>1, AskStep
<1>2. ASSUME NEW e \in Edits, Rules!EditStep(e), ~Rules!Ask(e)
      PROVE  store' = store /\ contested \subseteq contested' /\ (torn' = torn \/ torn' = TRUE)
  <2>1. torn' = torn \/ torn' = TRUE
    BY <1>2 DEF Rules!EditStep, Rules!Load, Rules!Create, Rules!CreateFails, Rules!WritePiece, Rules!Write,
                Rules!ReadMemory, Rules!Assign, Rules!Marshal, Rules!Rename, Rules!SaveFails
  <2> QED
    BY <1>2, <2>1, EditSteps DEF StepOf
<1>3. CASE Rules!ReloadReads \/ Rules!ReloadAssigns \/ UNCHANGED ruleState
  BY <1>3 DEF Rules!ReloadReads, Rules!ReloadAssigns, ruleState
<1>4. CASE Rules!Restart
  <2>1. torn' = (torn \/ \E e \in Edits : Rules!Writing(e)) /\ store' = store /\ contested' = contested
    BY <1>4 DEF Rules!Restart
  <2>2. torn => torn'
    BY <2>1, Zenon
  <2> QED
    BY <2>1, <2>2
<1> QED
  BY <1>1, <1>2, <1>3, <1>4 DEF Rules!Next

LEMMA RuleStep == RuleInv /\ [Rules!Next]_ruleState => RuleInv'
<1> SUFFICES ASSUME RuleInv, [Rules!Next]_ruleState PROVE RuleInv'
  OBVIOUS
<1> USE DEF RuleInv
<1>1. RuleType' /\ RuleStages' /\ Overlaps' /\ Doubled' /\ UnreadableForNow'
  BY RuleTypeStep, RuleStagesStep, OverlapsStep, DoubledStep, UnreadableStep
<1>2. SUFFICES ASSUME ~torn', NEW n \in Names, n \notin contested'
               PROVE  IF store' = "user" THEN UserFollows(n)' /\ (contested' = {} => UserExact(n)')
                      ELSE MachineFollows(n)'
  BY <1>1 DEF RulesFollow
<1>3. store' = store /\ n \notin contested /\ ~torn
  BY <1>2, RuleHistory
<1>4. CASE store = "user"
  <2>1. UserFollows(n)'
    BY <1>2, <1>3, <1>4, UserStep DEF RulesFollow
  <2>2. contested' = {} => contested = {}
    BY RuleHistory
  <2>3. contested' = {} => UserExact(n)'
    BY <1>2, <1>3, <1>4, <2>2, ExactStep DEF RulesFollow
  <2> QED
    BY <1>3, <1>4, <2>1, <2>3
<1>5. CASE store = "machine"
  BY <1>2, <1>3, <1>5, MachineStep DEF RulesFollow
<1> QED
  BY <1>3, <1>4, <1>5 DEF RuleType

\* UserRuleStore and the machine rules: for any number of edits, reloads and restarts, what was
\* acknowledged without overlap is in the file, of a user's name that overlapped no edit never
\* more than that, only a cut write or two at once leave a file nobody can load, and memory and
\* file do not drift apart.
THEOREM RuleEditsAddUp == Rules!Spec => []RulesAgree
<1>1. RuleInv => RulesAgree
  <2> SUFFICES ASSUME RuleInv PROVE RulesAgree
    OBVIOUS
  <2> USE DEF RuleInv
  <2>1. Rules!Quiet => \A e \in Edits : editAt[e] \notin {"create", "write", "assign", "marshal", "rename"}
    BY DEF Rules!Quiet, Rules!Active
  <2>2. Rules!UnreadableHasCause
    BY <2>1 DEF Rules!UnreadableHasCause, UnreadableForNow, Rules!Writing
  <2>3. ASSUME Rules!Quiet, ~torn, file.state # "broken", NEW n \in Names \ contested
        PROVE  /\ Below(file.rules, expected, n)
               /\ store = "machine" \/ contested = {} => Same(file.rules, expected, n)
    <3>1. Readable /\ \A e \in Edits : ~Rules!Writing(e)
      BY <2>1, <2>3 DEF UnreadableForNow, RuleType, Readable, Rules!Writing
    <3>2. CASE store = "user"
      BY <2>3, <3>1, <3>2 DEF RulesFollow, UserFollows, UserExact
    <3>3. CASE store = "machine"
      <4>1. Same(file.rules, expected, n)
        BY <2>3, <3>3 DEF RulesFollow, MachineFollows
      <4> QED
        BY <4>1 DEF Same, Below
    <3> QED
      BY <3>2, <3>3 DEF RuleType
  <2>4. Rules!EditsAddUp
    BY <2>3 DEF Rules!EditsAddUp, Same, Below
  <2>5. ASSUME store = "machine", Rules!Quiet, ~torn, contested = {} PROVE memory = file.rules
    <3>1. \A n \in Names : Same(memory, expected, n) /\ Same(file.rules, expected, n)
      BY <2>1, <2>5 DEF RulesFollow, MachineFollows
    <3>2. memory \in Rules!Lists /\ file.rules \in Rules!Lists
      BY DEF RuleType
    <3> QED
      BY <3>1, <3>2, SameList, SameIsEquality
  <2>6. Rules!MemoryIsDisk
    BY <2>5 DEF Rules!MemoryIsDisk
  <2> QED
    BY <2>2, <2>4, <2>6 DEF RulesAgree
<1> QED
  BY RuleInit, RuleStep, <1>1, PTL DEF Rules!Spec, Rules!ruleVars, ruleState

-----------------------------------------------------------------------------
(* Restores.                                                               *)

\* What a restore has accepted is in its temporary directory, unless the directory around
\* its target was restored: every file once the last batch has come.
Received ==
  /\ \A r \in Restores : stage[r] \in {"idle", "temp"} => got[r] = {}
  /\ \A r \in Restores : stage[r] = "receive" /\ ~Restore!Enclosed(r) =>
       tmp[r] # Restore!NoDir /\ tmp[r] \ {"part"} = got[r]
  /\ \A r \in Restores : stage[r] \in {"inspect", "remove", "removing", "rename"} /\ ~Restore!Enclosed(r) =>
       tmp[r] = Restore!Files

\* A temporary directory is there from its making to the rename or the cleanup.
TempWhileNeeded ==
  \A r \in Restores :
    \/ stage[r] \in {"idle", "temp", "chown", "undo", "undoing", "completed"}
    \/ stage[r] = "failed" /\ <<r, "tmp">> \notin cut
    => tmp[r] = Restore!NoDir

\* No directory of the user comes back where a restore has removed one.
OldIsGone ==
  \A r \in Restores : stage[r] \in {"rename", "chown", "undo", "undoing"} =>
    /\ tree[target[r]].kind # "old"
    /\ target[r] = "outer" => tree["inner"].kind # "old"

\* The tree that restore r puts into its target's place.
TreeOf(r, o) == [kind |-> "restored", by |-> r, files |-> Restore!Files, owned |-> o]

\* What a restore beside no other has put there stays.
LoneResult ==
  \A r \in Restores : Restore!Alone(r) =>
    /\ stage[r] = "chown" => tree[target[r]] = TreeOf(r, FALSE)
    /\ stage[r] = "completed" => tree[target[r]] = TreeOf(r, TRUE)

RestoreInv ==
  /\ Restore!TypeOK /\ Received /\ TempWhileNeeded /\ OldIsGone /\ LoneResult
  /\ Restore!RestoredIsWhole /\ Restore!PartHasCause

LEMMA RestoreInit == Restore!Init => RestoreInv
<1> SUFFICES ASSUME Restore!Init PROVE RestoreInv
  OBVIOUS
<1>1. Restore!TypeOK
  <2>1. tree \in [Restore!Paths -> Restore!Plain]
    BY DEF Restore!Init, Restore!Plain
  <2> QED
    BY <2>1 DEF Restore!Init, Restore!TypeOK, Restore!Stages
<1>2. \A p \in Restore!Paths : tree[p].kind \notin {"restored", "half"}
  BY DEF Restore!Init
<1> QED
  BY <1>1, <1>2 DEF Restore!Init, RestoreInv, Received, TempWhileNeeded, OldIsGone, LoneResult,
                    Restore!RestoredIsWhole, Restore!PartHasCause

\* Every step of a restore is after its request, which starts it.
LEMMA RestoreHistory ==
  ASSUME Restore!TypeOK, [Restore!Next]_restoreState
  PROVE  /\ target' = target
         /\ \A r \in Restores : stage'[r] = "idle" => stage[r] = "idle"
         /\ \A r \in Restores : Restore!Enclosed(r) => Restore!Enclosed(r)'
         /\ \A r \in Restores : Restore!Alone(r)' => Restore!Alone(r)
         /\ cut \subseteq cut'
<1>1. /\ target' = target
      /\ \A r \in Restores : stage'[r] = "idle" => stage[r] = "idle"
      /\ cut \subseteq cut'
  <2>1. ASSUME NEW r \in Restores, Restore!RestoreStep(r)
        PROVE  target' = target /\ cut \subseteq cut' /\ (stage' = stage \/ \E s \in Restore!Stages \ {"idle"} : Restore!Goto(r, s))
    BY <2>1 DEF Restore!RestoreStep, Restore!Ask, Restore!NoStream, Restore!MakeTemp, Restore!ReceiveFile,
                Restore!ReceiveFirstChunk, Restore!ReceiveFinalChunk, Restore!StreamFails, Restore!LastBatch,
                Restore!Inspect, Restore!RemoveBegins, Restore!RemoveEnds, Restore!RemoveFails, Restore!Rename,
                Restore!RenameFails, Restore!Chown, Restore!ChownFails, Restore!UndoBegins,
                Restore!UndoEnds, Restore!UndoFails, Restore!Cleanup, Restore!CleanupFails,
                Restore!Stages
  <2>2. ASSUME NEW r \in Restores, Restore!RestoreStep(r), NEW q \in Restores, stage'[q] = "idle"
        PROVE  stage[q] = "idle"
    BY <2>1, <2>2 DEF Restore!Goto, Restore!TypeOK
  <2>3. CASE Restore!AgentStops
    BY <2>3 DEF Restore!AgentStops, Restore!TypeOK
  <2>4. CASE UNCHANGED restoreState
    BY <2>4 DEF restoreState
  <2> QED
    BY <2>1, <2>2, <2>3, <2>4 DEF Restore!Next
<1> QED
  BY <1>1 DEF Restore!Enclosed, Restore!Alone

\* What RemoveAll has done on its way: each tree is as it was, a part or gone, and temporary
\* directories go only from below.
LEMMA HalfGoneTypes ==
  ASSUME Restore!TypeOK, NEW p \in Restore!Paths, Restore!HalfGone(p)
  PROVE  /\ tree' \in [Restore!Paths -> Restore!Plain \cup Restore!Partial \cup Restore!Restored]
         /\ tmp' \in [Restores -> {Restore!NoDir} \cup SUBSET (Restore!Files \cup {"part"})]
         /\ \A q \in Restore!Paths : \/ tree'[q] = tree[q]
                                     \/ (q = p \/ p = "outer") /\ tree'[q].kind \in {"half", "absent"}
         /\ \A r \in Restores : tmp'[r] = tmp[r] \/ (p = "outer" /\ target[r] = "inner" /\ tmp'[r] = Restore!NoDir)
<1> DEFINE Trees == Restore!Plain \cup Restore!Partial \cup Restore!Restored
           Half(t) == IF t = Restore!Absent THEN t ELSE [kind |-> "half", owned |-> Restore!UserDir(t)]
<1> USE DEF Restore!TypeOK
<1>1. \A q \in Restore!Paths : Restore!UserDir(tree[q]) \in BOOLEAN
  BY DEF Restore!UserDir, Restore!Plain, Restore!Partial, Restore!Restored
<1>2. /\ \A q \in Restore!Paths : Half(tree[q]) \in Trees /\ Half(tree[q]).kind \in {"half", "absent"}
      /\ Restore!Absent \in Trees /\ Restore!Absent.kind = "absent"
  BY <1>1 DEF Restore!Absent, Restore!Plain, Restore!Partial
<1> HIDE DEF Half
<1>3. PICK below \in {"whole", "half", "gone"} :
        /\ tree' = [q \in Restore!Paths |->
                      CASE q = p \/ (p = "outer" /\ below = "half") -> Half(tree[q])
                        [] q # p /\ p = "outer" /\ below = "gone"   -> Restore!Absent
                        [] OTHER                                     -> tree[q]]
        /\ tmp' = [r \in Restores |->
                      IF p = "outer" /\ below = "gone" /\ target[r] = "inner" THEN Restore!NoDir ELSE tmp[r]]
  BY DEF Restore!HalfGone, Half
<1>4. \A q \in Restore!Paths :
        tree'[q] = IF q = p \/ (p = "outer" /\ below = "half") THEN Half(tree[q])
                   ELSE IF p = "outer" /\ below = "gone" THEN Restore!Absent ELSE tree[q]
  BY <1>3
<1>5. \A q \in Restore!Paths : tree'[q] \in Trees
  BY <1>2, <1>4
<1>6. tree' \in [Restore!Paths -> Trees]
  BY <1>3, <1>5
<1>7. \A q \in Restore!Paths : \/ tree'[q] = tree[q]
                               \/ (q = p \/ p = "outer") /\ tree'[q].kind \in {"half", "absent"}
  BY <1>2, <1>4
<1>8. /\ tmp' \in [Restores -> {Restore!NoDir} \cup SUBSET (Restore!Files \cup {"part"})]
      /\ \A r \in Restores :
           tmp'[r] = tmp[r] \/ (p = "outer" /\ target[r] = "inner" /\ tmp'[r] = Restore!NoDir)
  BY <1>3
<1> QED
  BY <1>6, <1>7, <1>8

LEMMA RestoreTypeStep ==
  ASSUME Restore!TypeOK, [Restore!Next]_restoreState
  PROVE  Restore!TypeOK'
<1> USE DEF Restore!TypeOK
<1> DEFINE Trees == Restore!Plain \cup Restore!Partial \cup Restore!Restored
<1>1. /\ \A b \in BOOLEAN, k \in {"half", "stray"} : [kind |-> k, owned |-> b] \in Trees
      /\ Restore!Absent \in Trees
  BY DEF Restore!Absent, Restore!Plain, Restore!Partial
<1>2. \A t \in Trees : Restore!Given(t) \in Trees
  <2> SUFFICES ASSUME NEW t \in Trees, t.kind \in {"half", "stray", "restored"}
               PROVE  [t EXCEPT !.owned = TRUE] \in Trees
    BY DEF Restore!Given
  <2> QED
    BY DEF Restore!Plain, Restore!Partial, Restore!Restored
<1>3. \A r \in Restores : target[r] \in Restore!Paths /\ "outer" \in Restore!Paths
  BY DEF Restore!Paths
<1>4. CASE Restore!AgentStops
  <2>1. cut' \subseteq Restores \X {"target", "tmp"}
    BY <1>4 DEF Restore!AgentStops
  <2> QED
    BY <1>4, <2>1 DEF Restore!AgentStops, Restore!Stages
<1>5. ASSUME NEW r \in Restores,
             \/ Restore!Ask(r) \/ Restore!NoStream(r) \/ Restore!MakeTemp(r) \/ Restore!ReceiveFinalChunk(r)
             \/ Restore!StreamFails(r) \/ Restore!LastBatch(r) \/ Restore!Inspect(r) \/ Restore!RemoveFails(r)
             \/ Restore!RenameFails(r) \/ Restore!UndoFails(r) \/ Restore!Cleanup(r) \/ Restore!CleanupFails(r)
      PROVE  Restore!TypeOK'
  <2>1. /\ stage' \in [Restores -> Restore!Stages]
        /\ UNCHANGED <<target, tree, halted>>
        /\ cut' \subseteq Restores \X {"target", "tmp"}
    BY <1>5 DEF Restore!Ask, Restore!NoStream, Restore!MakeTemp, Restore!ReceiveFinalChunk,
                Restore!StreamFails, Restore!LastBatch, Restore!Inspect, Restore!RemoveFails,
                Restore!RenameFails, Restore!UndoFails, Restore!Cleanup, Restore!CleanupFails,
                Restore!Goto, Restore!Stages
  <2>2. CASE Restore!MakeTemp(r) \/ Restore!ReceiveFinalChunk(r) \/ Restore!Cleanup(r)
    <3>1. \A q \in Restores : tmp[q] \ {"part"} \subseteq Restore!Files \/ tmp[q] = Restore!NoDir
      BY DEF Restore!Files
    <3>2. Restore!NoDir = {"no dir"} /\ "large" \in Restore!Files
      BY DEF Restore!NoDir, Restore!Files
    <3>3. tmp' \in [Restores -> {Restore!NoDir} \cup SUBSET (Restore!Files \cup {"part"})]
      <4>1. CASE Restore!MakeTemp(r) \/ Restore!Cleanup(r)
        BY <4>1 DEF Restore!MakeTemp, Restore!Cleanup
      <4>2. CASE Restore!ReceiveFinalChunk(r)
        <5>1. tmp[r] \in SUBSET (Restore!Files \cup {"part"})
          BY <3>2, <4>2 DEF Restore!ReceiveFinalChunk
        <5>2. (tmp[r] \ {"part"}) \cup {"large"} \in SUBSET (Restore!Files \cup {"part"})
          BY <3>2, <5>1
        <5> QED
          BY <4>2, <5>2 DEF Restore!ReceiveFinalChunk
      <4> QED
        BY <2>2, <4>1, <4>2
    <3>4. got' \in [Restores -> SUBSET Restore!Files]
      BY <2>2, <3>2 DEF Restore!MakeTemp, Restore!ReceiveFinalChunk, Restore!Cleanup
    <3> QED
      BY <2>1, <3>3, <3>4
  <2>3. CASE ~(Restore!MakeTemp(r) \/ Restore!ReceiveFinalChunk(r) \/ Restore!Cleanup(r))
    BY <1>5, <2>1, <2>3 DEF Restore!Ask, Restore!NoStream, Restore!StreamFails, Restore!LastBatch,
                            Restore!Inspect, Restore!RemoveFails, Restore!RenameFails, Restore!UndoFails,
                            Restore!CleanupFails
  <2> QED
    BY <2>2, <2>3
<1>6. ASSUME NEW r \in Restores, Restore!ReceiveFile(r) \/ Restore!ReceiveFirstChunk(r)
      PROVE  Restore!TypeOK'
  <2>1. ASSUME NEW f \in {"small", "part"}, Restore!PutFile(r, f)
        PROVE  /\ tree' \in [Restore!Paths -> Trees]
               /\ tmp' \in [Restores -> {Restore!NoDir} \cup SUBSET (Restore!Files \cup {"part"})]
    BY <1>1, <1>3, <2>1 DEF Restore!PutFile, Restore!NoDir, Restore!Files
  <2> QED
    BY <1>6, <2>1 DEF Restore!ReceiveFile, Restore!ReceiveFirstChunk, Restore!Files
<1>7. ASSUME NEW r \in Restores, Restore!RemoveBegins(r) \/ Restore!UndoBegins(r) PROVE Restore!TypeOK'
  <2>1. Restore!HalfGone(target[r])
    BY <1>7 DEF Restore!RemoveBegins, Restore!UndoBegins
  <2>2. tree' \in [Restore!Paths -> Trees] /\ tmp' \in [Restores -> {Restore!NoDir} \cup SUBSET (Restore!Files \cup {"part"})]
    BY <2>1, HalfGoneTypes
  <2> QED
    BY <1>7, <2>2 DEF Restore!RemoveBegins, Restore!UndoBegins, Restore!Goto, Restore!Stages
<1>8. ASSUME NEW r \in Restores, Restore!RemoveEnds(r) \/ Restore!UndoEnds(r) PROVE Restore!TypeOK'
  BY <1>1, <1>3, <1>8 DEF Restore!RemoveEnds, Restore!UndoEnds, Restore!GoneWith, Restore!Goto, Restore!Stages
<1>9. ASSUME NEW r \in Restores, Restore!Rename(r) PROVE Restore!TypeOK'
  <2>1. [kind |-> "restored", by |-> r, files |-> tmp[r], owned |-> FALSE] \in Restore!Restored
    BY <1>9 DEF Restore!Rename, Restore!Restored
  <2> QED
    BY <1>3, <1>9, <2>1 DEF Restore!Rename, Restore!Goto, Restore!Stages
<1>10. ASSUME NEW r \in Restores, Restore!Chown(r) \/ Restore!ChownFails(r) PROVE Restore!TypeOK'
  <2>1. tree' \in [Restore!Paths -> Trees]
    BY <1>2, <1>3, <1>10 DEF Restore!Chown, Restore!ChownFails
  <2> QED
    BY <1>10, <2>1 DEF Restore!Chown, Restore!ChownFails, Restore!Goto, Restore!Stages
<1>11. CASE UNCHANGED restoreState
  BY <1>11 DEF restoreState
<1> QED
  BY <1>4, <1>5, <1>6, <1>7, <1>8, <1>9, <1>10, <1>11 DEF Restore!Next, Restore!RestoreStep

\* What a restore step leaves of the others: temporary directories below a target of
\* others go with it.
LEMMA OthersTemp ==
  ASSUME Restore!TypeOK, [Restore!Next]_restoreState, NEW r \in Restores
  PROVE  \/ Restore!RestoreStep(r)
         \/ Restore!AgentStops
         \/ /\ stage'[r] = stage[r] /\ got'[r] = got[r]
            /\ tmp'[r] = tmp[r] \/ (tmp'[r] = Restore!NoDir /\ Restore!Enclosed(r)')
<1>1. ASSUME NEW q \in Restores \ {r}, Restore!RestoreStep(q)
      PROVE  /\ stage'[r] = stage[r] /\ got'[r] = got[r]
             /\ tmp'[r] = tmp[r] \/ (tmp'[r] = Restore!NoDir /\ Restore!Enclosed(r)')
  <2>1. CASE Restore!RemoveEnds(q) \/ Restore!UndoEnds(q)
    <3>1. /\ stage'[r] = stage[r] /\ got'[r] = got[r] /\ target' = target
          /\ tmp'[r] = IF target[q] = "outer" /\ target[r] = "inner" THEN Restore!NoDir ELSE tmp[r]
          /\ stage'[q] # "idle"
      BY <2>1 DEF Restore!RemoveEnds, Restore!UndoEnds, Restore!GoneWith, Restore!Goto, Restore!TypeOK
    <3> QED
      BY <3>1 DEF Restore!Enclosed
  <2>3. CASE Restore!RemoveBegins(q) \/ Restore!UndoBegins(q)
    <3>1. /\ stage'[r] = stage[r] /\ got'[r] = got[r] /\ target' = target
          /\ stage'[q] # "idle" /\ Restore!HalfGone(target[q]) /\ target[q] \in Restore!Paths
      BY <2>3 DEF Restore!RemoveBegins, Restore!UndoBegins, Restore!Goto, Restore!TypeOK
    <3>2. tmp'[r] = tmp[r] \/ (target[q] = "outer" /\ target[r] = "inner" /\ tmp'[r] = Restore!NoDir)
      BY <3>1, HalfGoneTypes
    <3> QED
      BY <3>1, <3>2 DEF Restore!Enclosed
  <2>2. CASE ~(\/ Restore!RemoveEnds(q) \/ Restore!UndoEnds(q)
               \/ Restore!RemoveBegins(q) \/ Restore!UndoBegins(q))
    <3> USE DEF Restore!TypeOK
    <3>1. CASE \/ Restore!Ask(q) \/ Restore!NoStream(q) \/ Restore!MakeTemp(q) \/ Restore!ReceiveFile(q)
               \/ Restore!ReceiveFirstChunk(q) \/ Restore!ReceiveFinalChunk(q) \/ Restore!StreamFails(q)
               \/ Restore!LastBatch(q)
      BY <3>1 DEF Restore!Ask, Restore!NoStream, Restore!MakeTemp, Restore!ReceiveFile,
                  Restore!ReceiveFirstChunk, Restore!ReceiveFinalChunk, Restore!StreamFails,
                  Restore!LastBatch, Restore!PutFile, Restore!Goto
    <3>2. CASE \/ Restore!Inspect(q) \/ Restore!RemoveFails(q) \/ Restore!Rename(q)
               \/ Restore!RenameFails(q) \/ Restore!Chown(q) \/ Restore!ChownFails(q) \/ Restore!UndoFails(q)
               \/ Restore!Cleanup(q) \/ Restore!CleanupFails(q)
      BY <3>2 DEF Restore!Inspect, Restore!RemoveFails, Restore!Rename, Restore!RenameFails, Restore!Chown,
                  Restore!ChownFails, Restore!UndoFails, Restore!Cleanup, Restore!CleanupFails, Restore!Goto
    <3> QED
      BY <1>1, <2>2, <3>1, <3>2 DEF Restore!RestoreStep
  <2> QED
    BY <2>1, <2>2, <2>3
<1>2. CASE UNCHANGED restoreState
  BY <1>2 DEF restoreState
<1> QED
  BY <1>1, <1>2 DEF Restore!Next

LEMMA ReceivedStep ==
  ASSUME Restore!TypeOK, Received, [Restore!Next]_restoreState
  PROVE  Received'
<1> SUFFICES ASSUME NEW r \in Restores
             PROVE  /\ stage'[r] \in {"idle", "temp"} => got'[r] = {}
                    /\ stage'[r] = "receive" /\ ~Restore!Enclosed(r)' =>
                         tmp'[r] # Restore!NoDir /\ tmp'[r] \ {"part"} = got'[r]
                    /\ stage'[r] \in {"inspect", "remove", "removing", "rename"} /\ ~Restore!Enclosed(r)' =>
                         tmp'[r] = Restore!Files
  BY DEF Received
<1>1. ~Restore!Enclosed(r)' => ~Restore!Enclosed(r)
  BY RestoreHistory
<1> USE DEF Restore!TypeOK, Received
<1>2. CASE Restore!AgentStops
  BY <1>2 DEF Restore!AgentStops, Restore!Running
<1>3. CASE Restore!Ask(r) \/ Restore!NoStream(r) \/ Restore!MakeTemp(r)
  BY <1>3 DEF Restore!Ask, Restore!NoStream, Restore!MakeTemp, Restore!Goto, Restore!NoDir
<1>4. CASE Restore!ReceiveFile(r) \/ Restore!ReceiveFirstChunk(r) \/ Restore!ReceiveFinalChunk(r)
  <2>1. stage' = stage /\ stage[r] = "receive"
    BY <1>4 DEF Restore!ReceiveFile, Restore!ReceiveFirstChunk, Restore!ReceiveFinalChunk
  <2>2. ASSUME ~Restore!Enclosed(r)
        PROVE  tmp'[r] \ {"part"} = got'[r] /\ "no dir" \notin tmp'[r]
    <3>1. /\ tmp[r] \ {"part"} = got[r] /\ "no dir" \notin tmp[r]
          /\ tmp[r] \ Restore!NoDir = tmp[r]
      BY <2>1, <2>2 DEF Restore!NoDir, Restore!Files
    <3>2. CASE Restore!ReceiveFile(r)
      <4>1. tmp'[r] = tmp[r] \cup {"small"} /\ got'[r] = got[r] \cup {"small"}
        BY <3>1, <3>2 DEF Restore!ReceiveFile, Restore!PutFile
      <4> QED
        BY <3>1, <4>1
    <3>3. CASE Restore!ReceiveFirstChunk(r)
      <4>1. tmp'[r] = tmp[r] \cup {"part"} /\ got'[r] = got[r]
        BY <3>1, <3>3 DEF Restore!ReceiveFirstChunk, Restore!PutFile
      <4> QED
        BY <3>1, <4>1
    <3>4. CASE Restore!ReceiveFinalChunk(r)
      <4>1. tmp'[r] = (tmp[r] \ {"part"}) \cup {"large"} /\ got'[r] = got[r] \cup {"large"}
        BY <3>4 DEF Restore!ReceiveFinalChunk
      <4> QED
        BY <3>1, <4>1
    <3> QED
      BY <1>4, <3>2, <3>3, <3>4
  <2> QED
    BY <1>1, <2>1, <2>2 DEF Restore!NoDir
<1>5. CASE Restore!LastBatch(r)
  <2>1. stage'[r] = "inspect" /\ tmp' = tmp /\ stage[r] = "receive" /\ got[r] = Restore!Files /\ "part" \notin tmp[r]
    BY <1>5 DEF Restore!LastBatch, Restore!Goto
  <2>2. tmp[r] = tmp[r] \ {"part"}
    BY <2>1
  <2> QED
    BY <1>1, <2>1, <2>2
<1>6. CASE Restore!Inspect(r)
  BY <1>1, <1>6 DEF Restore!Inspect, Restore!Goto
<1>10. CASE Restore!RemoveBegins(r)
  <2>1. stage[r] = "remove" /\ stage'[r] = "removing" /\ Restore!HalfGone(target[r])
    BY <1>10 DEF Restore!RemoveBegins, Restore!Goto
  <2>2. tmp'[r] = tmp[r]
    BY <2>1, HalfGoneTypes
  <2> QED
    BY <1>1, <2>1, <2>2
<1>7. CASE Restore!RemoveEnds(r)
  <2>1. stage'[r] = "rename" /\ stage[r] = "removing"
    BY <1>7 DEF Restore!RemoveEnds, Restore!Goto
  <2>2. tmp'[r] = tmp[r]
    BY <1>7 DEF Restore!RemoveEnds, Restore!GoneWith
  <2> QED
    BY <1>1, <2>1, <2>2
<1>8. CASE \/ Restore!StreamFails(r) \/ Restore!RemoveFails(r) \/ Restore!Rename(r)
           \/ Restore!RenameFails(r) \/ Restore!Chown(r) \/ Restore!ChownFails(r) \/ Restore!UndoBegins(r)
           \/ Restore!UndoEnds(r) \/ Restore!UndoFails(r) \/ Restore!Cleanup(r) \/ Restore!CleanupFails(r)
  BY <1>8 DEF Restore!StreamFails, Restore!RemoveFails, Restore!Rename, Restore!RenameFails,
              Restore!Chown, Restore!ChownFails, Restore!UndoBegins,
                Restore!UndoEnds, Restore!UndoFails, Restore!Cleanup, Restore!CleanupFails, Restore!Goto
<1>9. CASE /\ stage'[r] = stage[r] /\ got'[r] = got[r]
           /\ tmp'[r] = tmp[r] \/ (tmp'[r] = Restore!NoDir /\ Restore!Enclosed(r)')
  BY <1>1, <1>9
<1> QED
  BY <1>2, <1>3, <1>4, <1>5, <1>6, <1>7, <1>8, <1>9, <1>10, OthersTemp DEF Restore!RestoreStep

LEMMA TempStep ==
  ASSUME Restore!TypeOK, TempWhileNeeded, [Restore!Next]_restoreState
  PROVE  TempWhileNeeded'
<1> SUFFICES ASSUME NEW r \in Restores,
                    \/ stage'[r] \in {"idle", "temp", "chown", "undo", "undoing", "completed"}
                    \/ stage'[r] = "failed" /\ <<r, "tmp">> \notin cut'
             PROVE  tmp'[r] = Restore!NoDir
  BY DEF TempWhileNeeded
<1>1. cut \subseteq cut'
  BY RestoreHistory
<1> USE DEF Restore!TypeOK, TempWhileNeeded
<1>2. CASE Restore!AgentStops
  <2>1. tmp' = tmp /\ (stage'[r] = stage[r] \/ (stage'[r] = "failed" /\ (Restore!Running(r) /\ tmp[r] # Restore!NoDir => <<r, "tmp">> \in cut')))
    BY <1>2 DEF Restore!AgentStops
  <2> QED
    BY <1>1, <2>1 DEF Restore!Running
<1>3. CASE \/ Restore!Ask(r) \/ Restore!NoStream(r) \/ Restore!MakeTemp(r) \/ Restore!ReceiveFile(r)
           \/ Restore!ReceiveFirstChunk(r) \/ Restore!ReceiveFinalChunk(r) \/ Restore!StreamFails(r)
           \/ Restore!LastBatch(r) \/ Restore!Inspect(r)
  BY <1>1, <1>3 DEF Restore!Ask, Restore!NoStream, Restore!MakeTemp, Restore!ReceiveFile,
                    Restore!ReceiveFirstChunk, Restore!ReceiveFinalChunk, Restore!StreamFails,
                    Restore!LastBatch, Restore!Inspect, Restore!Goto
<1>6. CASE Restore!RemoveBegins(r) \/ Restore!UndoBegins(r)
  <2>1. /\ stage'[r] = "removing" \/ (stage'[r] = "undoing" /\ stage[r] = "undo")
        /\ Restore!HalfGone(target[r]) /\ target[r] \in Restore!Paths
    BY <1>6 DEF Restore!RemoveBegins, Restore!UndoBegins, Restore!Goto
  <2> QED
    BY <2>1, HalfGoneTypes
<1>4. CASE \/ Restore!RemoveEnds(r) \/ Restore!RemoveFails(r) \/ Restore!Rename(r)
           \/ Restore!RenameFails(r) \/ Restore!Chown(r) \/ Restore!ChownFails(r)
           \/ Restore!UndoEnds(r) \/ Restore!UndoFails(r) \/ Restore!Cleanup(r) \/ Restore!CleanupFails(r)
  BY <1>1, <1>4 DEF Restore!RemoveEnds, Restore!RemoveFails, Restore!Rename, Restore!RenameFails, Restore!GoneWith,
                    Restore!Chown, Restore!ChownFails,
                Restore!UndoEnds, Restore!UndoFails, Restore!Cleanup, Restore!CleanupFails, Restore!Goto
<1>5. CASE /\ stage'[r] = stage[r] /\ got'[r] = got[r]
           /\ tmp'[r] = tmp[r] \/ (tmp'[r] = Restore!NoDir /\ Restore!Enclosed(r)')
  BY <1>1, <1>5
<1> QED
  BY <1>2, <1>3, <1>4, <1>5, <1>6, OthersTemp DEF Restore!RestoreStep

\* What a step may do to the tree at a path.
TreeChange(p) ==
  \/ tree'[p] = tree[p]
  \/ tree'[p].kind = "stray" /\ tree[p].kind \in {"absent", "foreign"}
  \/ \E r \in Restores : /\ stage[r] \in {"remove", "undo"} /\ stage'[r] \in {"removing", "undoing"}
                         /\ p = target[r] \/ target[r] = "outer"
                         /\ tree'[p].kind \in {"half", "absent"}
  \/ \E r \in Restores : /\ stage[r] \in {"removing", "undoing"}
                         /\ p = target[r] \/ target[r] = "outer"
                         /\ tree'[p].kind = "absent"
  \/ \E r \in Restores : /\ stage[r] = "rename" /\ tree[p].kind = "absent"
                         /\ tree'[p] = [kind |-> "restored", by |-> r, files |-> tmp[r], owned |-> FALSE]
  \/ tree[p].kind \in {"half", "stray", "restored"} /\ tree'[p] = [tree[p] EXCEPT !.owned = TRUE]

LEMMA TreeStep ==
  ASSUME Restore!TypeOK, [Restore!Next]_restoreState, NEW p \in Restore!Paths
  PROVE  TreeChange(p)
<1> USE DEF Restore!TypeOK
<1>1. CASE Restore!AgentStops \/ UNCHANGED restoreState
  BY <1>1 DEF Restore!AgentStops, restoreState, TreeChange
<1>2. ASSUME NEW r \in Restores,
             \/ Restore!Ask(r) \/ Restore!NoStream(r) \/ Restore!MakeTemp(r) \/ Restore!ReceiveFinalChunk(r)
             \/ Restore!StreamFails(r) \/ Restore!LastBatch(r) \/ Restore!Inspect(r) \/ Restore!RemoveFails(r)
             \/ Restore!RenameFails(r) \/ Restore!UndoFails(r) \/ Restore!Cleanup(r) \/ Restore!CleanupFails(r)
      PROVE  TreeChange(p)
  BY <1>2 DEF Restore!Ask, Restore!NoStream, Restore!MakeTemp, Restore!ReceiveFinalChunk,
              Restore!StreamFails, Restore!LastBatch, Restore!Inspect, Restore!RemoveFails,
              Restore!RenameFails, Restore!UndoFails, Restore!Cleanup, Restore!CleanupFails, TreeChange
<1>3. ASSUME NEW r \in Restores, Restore!ReceiveFile(r) \/ Restore!ReceiveFirstChunk(r) PROVE TreeChange(p)
  <2>1. tree' = IF Restore!ParentThere(target[r]) THEN tree
                ELSE [tree EXCEPT !["outer"] = [kind |-> "stray", owned |-> FALSE]]
    BY <1>3 DEF Restore!ReceiveFile, Restore!ReceiveFirstChunk, Restore!PutFile
  <2>2. ~Restore!ParentThere(target[r]) => tree["outer"].kind \in {"absent", "foreign"}
    BY DEF Restore!ParentThere
  <2> QED
    BY <2>1, <2>2 DEF TreeChange
<1>4. ASSUME NEW r \in Restores, Restore!RemoveBegins(r) \/ Restore!UndoBegins(r) PROVE TreeChange(p)
  <2>1. /\ stage[r] \in {"remove", "undo"} /\ stage'[r] \in {"removing", "undoing"}
        /\ Restore!HalfGone(target[r]) /\ target[r] \in Restore!Paths
    BY <1>4 DEF Restore!RemoveBegins, Restore!UndoBegins, Restore!Goto
  <2>2. \/ tree'[p] = tree[p]
        \/ (p = target[r] \/ target[r] = "outer") /\ tree'[p].kind \in {"half", "absent"}
    BY <2>1, HalfGoneTypes
  <2> QED
    BY <2>1, <2>2 DEF TreeChange
<1>5. ASSUME NEW r \in Restores, Restore!RemoveEnds(r) \/ Restore!UndoEnds(r) PROVE TreeChange(p)
  <2>1. /\ tree'[p] = IF p = target[r] \/ target[r] = "outer" THEN Restore!Absent ELSE tree[p]
        /\ stage[r] \in {"removing", "undoing"}
    BY <1>5 DEF Restore!RemoveEnds, Restore!UndoEnds, Restore!GoneWith
  <2> QED
    BY <1>5, <2>1 DEF Restore!Absent, TreeChange
<1>6. ASSUME NEW r \in Restores, Restore!Rename(r) PROVE TreeChange(p)
  <2>1. /\ stage[r] = "rename" /\ tree[target[r]].kind = "absent"
        /\ tree' = [tree EXCEPT ![target[r]] =
                      [kind |-> "restored", by |-> r, files |-> tmp[r], owned |-> FALSE]]
    BY <1>6 DEF Restore!Rename, Restore!Absent
  <2>2. tree'[p] = IF p = target[r]
                   THEN [kind |-> "restored", by |-> r, files |-> tmp[r], owned |-> FALSE] ELSE tree[p]
    BY <2>1
  <2> QED
    BY <2>1, <2>2 DEF TreeChange
<1>7. ASSUME NEW r \in Restores, Restore!Chown(r) \/ Restore!ChownFails(r) PROVE TreeChange(p)
  <2>1. tree'[p] = tree[p] \/ tree'[p] = Restore!Given(tree[p])
    BY <1>7 DEF Restore!Chown, Restore!ChownFails
  <2> QED
    BY <2>1 DEF Restore!Given, TreeChange
<1> QED
  BY <1>1, <1>2, <1>3, <1>4, <1>5, <1>6, <1>7 DEF Restore!Next, Restore!RestoreStep

LEMMA GivenKeeps ==
  ASSUME Restore!TypeOK, NEW p \in Restore!Paths, tree[p].kind \in {"half", "stray", "restored"}
  PROVE  LET t == [tree[p] EXCEPT !.owned = TRUE] IN
         /\ t.kind = tree[p].kind
         /\ t.kind = "restored" => t.by = tree[p].by /\ t.files = tree[p].files
BY DEF Restore!TypeOK, Restore!Plain, Restore!Partial, Restore!Restored

\* A change by cases: only a rename puts a tree where none was restored, only a removal that
\* has begun leaves a part.
LEMMA TreeKinds ==
  ASSUME Restore!TypeOK, [Restore!Next]_restoreState, NEW p \in Restore!Paths
  PROVE  /\ tree'[p].kind = "old" => tree[p].kind = "old"
         /\ tree'[p].kind = "restored" =>
              \/ /\ tree[p].kind = "restored"
                 /\ tree'[p].by = tree[p].by /\ tree'[p].files = tree[p].files
              \/ /\ tree'[p].by \in Restores /\ stage[tree'[p].by] = "rename"
                 /\ tree'[p].files = tmp[tree'[p].by]
         /\ tree'[p].kind = "half" =>
              \/ /\ tree[p].kind = "half"
                 /\ \A r \in Restores : p = target[r] \/ target[r] = "outer" =>
                      ~Restore!RemoveEnds(r) /\ ~Restore!UndoEnds(r)
              \/ \E r \in Restores : /\ stage'[r] \in {"removing", "undoing"}
                                     /\ p = target[r] \/ target[r] = "outer"
<1>1. TreeChange(p)
  BY TreeStep
<1>5. \A r \in Restores :
        (Restore!RemoveEnds(r) \/ Restore!UndoEnds(r)) /\ (p = target[r] \/ target[r] = "outer") =>
          tree'[p].kind = "absent"
  BY DEF Restore!RemoveEnds, Restore!UndoEnds, Restore!GoneWith, Restore!Absent
<1>2. CASE tree[p].kind \in {"half", "stray", "restored"} /\ tree'[p] = [tree[p] EXCEPT !.owned = TRUE]
  BY <1>2, <1>5, GivenKeeps
<1>3. ASSUME NEW r \in Restores, stage[r] = "rename",
             tree'[p] = [kind |-> "restored", by |-> r, files |-> tmp[r], owned |-> FALSE]
      PROVE  tree'[p].kind = "restored" /\ tree'[p].by = r /\ tree'[p].files = tmp[r]
  BY <1>3
<1>4. CASE ~(tree[p].kind \in {"half", "stray", "restored"} /\ tree'[p] = [tree[p] EXCEPT !.owned = TRUE])
  BY <1>1, <1>3, <1>4, <1>5 DEF TreeChange
<1> QED
  BY <1>2, <1>4

LEMMA WholeStep ==
  ASSUME Restore!TypeOK, Received, Restore!RestoredIsWhole, [Restore!Next]_restoreState
  PROVE  Restore!RestoredIsWhole'
<1> SUFFICES ASSUME NEW p \in Restore!Paths, NEW b, b = tree'[p].by,
                    tree'[p].kind = "restored", ~Restore!Enclosed(b)'
             PROVE  tree'[p].files = Restore!Files
  BY DEF Restore!RestoredIsWhole, Restore!Enclosed
<1>1. b \in Restores => ~Restore!Enclosed(b)
  BY RestoreHistory
<1>2. CASE tree[p].kind = "restored" /\ b = tree[p].by /\ tree'[p].files = tree[p].files
  <2>1. b \in Restores
    BY <1>2 DEF Restore!TypeOK, Restore!Plain, Restore!Partial, Restore!Restored
  <2> QED
    BY <1>1, <1>2, <2>1 DEF Restore!RestoredIsWhole
<1>3. CASE b \in Restores /\ stage[b] = "rename" /\ tree'[p].files = tmp[b]
  BY <1>1, <1>3 DEF Received
<1> QED
  BY <1>2, <1>3, TreeKinds

LEMMA OldIsGoneStep ==
  ASSUME Restore!TypeOK, OldIsGone, [Restore!Next]_restoreState
  PROVE  OldIsGone'
<1> SUFFICES ASSUME NEW r \in Restores, stage'[r] \in {"rename", "chown", "undo", "undoing"}
             PROVE  tree'[target[r]].kind # "old" /\ (target[r] = "outer" => tree'["inner"].kind # "old")
  BY RestoreHistory DEF OldIsGone
<1>1. target[r] \in Restore!Paths /\ "inner" \in Restore!Paths
  BY DEF Restore!TypeOK, Restore!Paths
<1>2. CASE stage[r] \in {"rename", "chown", "undo", "undoing"}
  BY <1>1, <1>2, TreeKinds DEF OldIsGone
<1>3. CASE Restore!RemoveEnds(r)
  BY <1>1, <1>3 DEF Restore!RemoveEnds, Restore!GoneWith, Restore!Absent
<1>4. CASE ~Restore!RemoveEnds(r) /\ Restore!RestoreStep(r)
  BY <1>2, <1>4
  DEF Restore!RestoreStep, Restore!Ask, Restore!NoStream, Restore!MakeTemp, Restore!ReceiveFile,
      Restore!ReceiveFirstChunk, Restore!ReceiveFinalChunk, Restore!StreamFails, Restore!LastBatch,
      Restore!Inspect, Restore!RemoveBegins, Restore!RemoveFails, Restore!Rename,
      Restore!RenameFails, Restore!Chown, Restore!ChownFails, Restore!UndoBegins,
                Restore!UndoEnds, Restore!UndoFails, Restore!Cleanup, Restore!CleanupFails,
      Restore!Goto, Restore!TypeOK
<1>5. CASE Restore!AgentStops
  BY <1>2, <1>5 DEF Restore!AgentStops, Restore!TypeOK
<1> QED
  BY <1>2, <1>3, <1>4, <1>5, OthersTemp

\* A removal that has begun ends with nothing left, or is on record as cut.
LEMMA RemovalStep ==
  ASSUME Restore!TypeOK, [Restore!Next]_restoreState, NEW r \in Restores,
         stage[r] \in {"removing", "undoing"}
  PROVE  \/ stage'[r] \in {"removing", "undoing"} \/ <<r, "target">> \in cut'
         \/ Restore!RemoveEnds(r) \/ Restore!UndoEnds(r)
<1>1. CASE Restore!RestoreStep(r)
  BY <1>1
  DEF Restore!RestoreStep, Restore!Ask, Restore!NoStream, Restore!MakeTemp, Restore!ReceiveFile,
      Restore!ReceiveFirstChunk, Restore!ReceiveFinalChunk, Restore!StreamFails, Restore!LastBatch,
      Restore!Inspect, Restore!RemoveBegins, Restore!RemoveFails, Restore!Rename, Restore!RenameFails,
      Restore!Chown, Restore!ChownFails, Restore!UndoBegins, Restore!UndoFails, Restore!Cleanup,
      Restore!CleanupFails
<1>2. CASE Restore!AgentStops
  BY <1>2 DEF Restore!AgentStops
<1> QED
  BY <1>1, <1>2, OthersTemp

LEMMA PartStep ==
  ASSUME Restore!TypeOK, Restore!PartHasCause, [Restore!Next]_restoreState
  PROVE  Restore!PartHasCause'
<1> DEFINE Cause(r, p) == /\ p = target[r] \/ target[r] = "outer"
                          /\ stage[r] \in {"removing", "undoing"} \/ <<r, "target">> \in cut
<1> SUFFICES ASSUME NEW p \in Restore!Paths, tree'[p].kind = "half"
             PROVE  \E r \in Restores : Cause(r, p)'
  BY DEF Restore!PartHasCause
<1>1. target' = target /\ cut \subseteq cut'
  BY RestoreHistory
<1>2. CASE tree[p].kind = "half" /\ \A r \in Restores : p = target[r] \/ target[r] = "outer" =>
                                      ~Restore!RemoveEnds(r) /\ ~Restore!UndoEnds(r)
  <2>1. PICK r \in Restores : Cause(r, p)
    BY <1>2 DEF Restore!PartHasCause
  <2> QED
    BY <1>1, <1>2, <2>1, RemovalStep
<1>3. CASE \E r \in Restores : stage'[r] \in {"removing", "undoing"} /\ (p = target[r] \/ target[r] = "outer")
  BY <1>1, <1>3
<1> QED
  BY <1>2, <1>3, TreeKinds

LEMMA LoneStep ==
  ASSUME Restore!TypeOK, Received, LoneResult, [Restore!Next]_restoreState
  PROVE  LoneResult'
<1> SUFFICES ASSUME NEW r \in Restores, Restore!Alone(r)'
             PROVE  /\ stage'[r] = "chown" => tree'[target[r]] = TreeOf(r, FALSE)
                    /\ stage'[r] = "completed" => tree'[target[r]] = TreeOf(r, TRUE)
  BY RestoreHistory DEF LoneResult, TreeOf
<1>1. Restore!Alone(r) /\ target[r] \in Restore!Paths
  BY RestoreHistory DEF Restore!TypeOK
<1>2. ASSUME NEW q \in Restores, Restore!RestoreStep(q) PROVE q = r
  <2>1. stage'[q] # "idle"
    BY <1>2
    DEF Restore!RestoreStep, Restore!Ask, Restore!NoStream, Restore!MakeTemp, Restore!ReceiveFile,
        Restore!ReceiveFirstChunk, Restore!ReceiveFinalChunk, Restore!StreamFails, Restore!LastBatch,
        Restore!Inspect, Restore!RemoveBegins, Restore!RemoveEnds, Restore!RemoveFails, Restore!Rename,
        Restore!RenameFails, Restore!Chown, Restore!ChownFails, Restore!UndoBegins,
                Restore!UndoEnds, Restore!UndoFails, Restore!Cleanup, Restore!CleanupFails,
        Restore!Goto, Restore!TypeOK
  <2> QED
    BY <2>1 DEF Restore!Alone
<1>3. CASE Restore!Rename(r)
  <2>1. stage[r] = "rename" /\ stage'[r] = "chown"
        /\ tree'[target[r]] = [kind |-> "restored", by |-> r, files |-> tmp[r], owned |-> FALSE]
    BY <1>1, <1>3 DEF Restore!Rename, Restore!Goto, Restore!TypeOK
  <2>2. ~Restore!Enclosed(r)
    BY <1>1, <2>1 DEF Restore!Enclosed, Restore!Alone
  <2>3. tmp[r] = Restore!Files
    BY <2>1, <2>2 DEF Received
  <2> QED
    BY <2>1, <2>3 DEF TreeOf
<1>4. CASE Restore!Chown(r)
  <2>1. stage'[r] = "completed" /\ tree[target[r]] = TreeOf(r, FALSE)
    BY <1>1, <1>4 DEF Restore!Chown, Restore!Goto, Restore!TypeOK, LoneResult
  <2>2. tree[target[r]].kind = "restored"
    BY <2>1 DEF TreeOf
  <2>3. tree'[target[r]] = [tree[target[r]] EXCEPT !.owned = TRUE]
    BY <1>1, <1>4, <2>2 DEF Restore!Chown, Restore!Given
  <2>4. \A x, y : [TreeOf(r, x) EXCEPT !.owned = y] = TreeOf(r, y)
    BY DEF TreeOf
  <2> QED
    BY <2>1, <2>3, <2>4
<1>5. CASE Restore!AgentStops
  <2>1. tree' = tree /\ stage'[r] # "chown" /\ (stage'[r] = "completed" => stage[r] = "completed")
    BY <1>5 DEF Restore!AgentStops, Restore!Running, Restore!TypeOK
  <2> QED
    BY <1>1, <2>1 DEF LoneResult
<1>6. CASE Restore!RestoreStep(r) /\ ~Restore!Rename(r) /\ ~Restore!Chown(r)
  BY <1>6
  DEF Restore!RestoreStep, Restore!Ask, Restore!NoStream, Restore!MakeTemp, Restore!ReceiveFile,
      Restore!ReceiveFirstChunk, Restore!ReceiveFinalChunk, Restore!StreamFails, Restore!LastBatch,
      Restore!Inspect, Restore!RemoveBegins, Restore!RemoveEnds, Restore!RemoveFails,
      Restore!RenameFails, Restore!ChownFails, Restore!UndoBegins,
                Restore!UndoEnds, Restore!UndoFails, Restore!Cleanup, Restore!CleanupFails,
      Restore!Goto, Restore!TypeOK
<1>7. CASE UNCHANGED restoreState
  BY <1>1, <1>7 DEF restoreState, LoneResult
<1> QED
  BY <1>2, <1>3, <1>4, <1>5, <1>6, <1>7 DEF Restore!Next

LEMMA RestoreStepKeeps == RestoreInv /\ [Restore!Next]_restoreState => RestoreInv'
BY RestoreTypeStep, ReceivedStep, TempStep, OldIsGoneStep, LoneStep, WholeStep,
   PartStep DEF RestoreInv

LEMMA RestoreAlways == Restore!Spec => []RestoreInv
BY RestoreInit, RestoreStepKeeps, PTL DEF Restore!Spec, Restore!restoreVars, restoreState

\* RunRestore: for any number of restores, of one target or of one inside another's, a
\* restored tree is whole at its target, a lone restore that completed left it there as the
\* user's, and no temporary directory outlives its restore.
THEOREM RestoresAreWhole == Restore!Spec => []RestoresEndWhole
<1>1. RestoreInv => RestoresEndWhole
  <2> SUFFICES ASSUME RestoreInv PROVE RestoresEndWhole
    OBVIOUS
  <2>1. Restore!CompletedIsOwned
    BY DEF RestoreInv, LoneResult, TreeOf, Restore!CompletedIsOwned
  <2>2. \A r \in Restores : stage[r] \in Restore!Stages
    BY DEF RestoreInv, Restore!TypeOK
  <2>3. Restore!NoTempLeft
    BY <2>2 DEF RestoreInv, TempWhileNeeded, Restore!NoTempLeft, Restore!Running
  <2> QED
    BY <2>1, <2>3 DEF RestoresEndWhole, RestoreInv
<1> QED
  BY RestoreAlways, <1>1, PTL

\* restoreFromStream: whoever restores what beside it, a directory of the user goes only
\* for a tree that is whole by then.
THEOREM OldGoesOnlyForWhole == Restore!Spec => OldGoesForWhole
<1> DEFINE Kept(p) ==
      tree[p].kind = "old" /\ tree'[p].kind # "old" =>
        \E r \in Restores : /\ stage[r] \in {"remove", "removing"}
                            /\ p = target[r] \/ target[r] = "outer"
                            /\ tmp[r] = Restore!Files \/ Restore!Enclosed(r)
<1>1. RestoreInv /\ [Restore!Next]_restoreState => \A p \in Restore!Paths : Kept(p)
  <2> SUFFICES ASSUME RestoreInv, [Restore!Next]_restoreState, NEW p \in Restore!Paths,
                      tree[p].kind = "old", tree'[p].kind # "old"
               PROVE  \E r \in Restores : /\ stage[r] \in {"remove", "removing"}
                                          /\ p = target[r] \/ target[r] = "outer"
                                          /\ tmp[r] = Restore!Files \/ Restore!Enclosed(r)
    OBVIOUS
  <2>1. TreeChange(p)
    BY TreeStep DEF RestoreInv
  <2>2. PICK r \in Restores : /\ stage[r] \in {"remove", "removing", "undo", "undoing"}
                              /\ p = target[r] \/ target[r] = "outer"
    BY <2>1 DEF TreeChange
  <2>3. stage[r] \in {"remove", "removing"}
    BY <2>2 DEF RestoreInv, OldIsGone, Restore!Paths
  <2> QED
    BY <2>2, <2>3 DEF RestoreInv, Received
<1>2. [Restore!Next]_restoreState /\ RestoreInv => [\A p \in Restore!Paths : Kept(p)]_restoreState
  BY <1>1
<1> QED
  BY RestoreAlways, <1>2, PTL DEF Restore!Spec, OldGoesForWhole, Restore!OldGoesForWhole,
                                  Restore!restoreVars, restoreState

=============================================================================
