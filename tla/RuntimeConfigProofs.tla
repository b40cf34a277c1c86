------------------------- MODULE RuntimeConfigProofs -------------------------
(***************************************************************************)
(* Proofs about RuntimeConfig, for any machine, any environment and any    *)
(* command line: the server starts with what was asked for, and with the   *)
(* nearest root.                                                           *)
(*                                                                         *)
(* The loop of load_cli_overrides is related to the command line as a      *)
(* whole by what the arguments below index give: its position is always a  *)
(* head, each setting has the last text given so far, and the flags of     *)
(* ServerRuntimeOverrideState say who was given anything.  The search for  *)
(* the root keeps every root above its start above the place it looks at.  *)
(***************************************************************************)
EXTENDS RuntimeConfig, TLAPS

Count == Len(input.args)

\* The places below index that give a setting, and whether anybody gave it.
Below(s) == {i \in GivenAt(s) : i < index}
Given(s) == Below(s) # {} \/ input.env[s] # ""

\* A setting has the text that counts so far.
LastTaken(s) ==
  IF Below(s) # {}
  THEN \E m \in Below(s) : /\ \A i \in Below(s) : i <= m
                           /\ input.args[m] # "" /\ config[s] = Text(input.args[m])
  ELSE config[s] = Text(input.env[s])

Default(s) ==
  CASE s = "port" -> Text("8080") [] s = "worker_count" -> Text("4") [] OTHER -> Unset

Searching == phase \in {"search", "search_program"}
Read      == Searching \/ phase \in {"arguments", "root", "paths", "validate", "loaded"}

\* Where the loop of load_cli_overrides stands.
AtHead ==
  /\ index <= Count => index \in Heads
  /\ phase # "arguments" => index = Count + 1
  /\ positional_count = 0 <=> \A j \in Positionals : j >= index

GivenTaken ==
  /\ overridden = {s \in Settings : Given(s)}
  /\ \A s \in Settings : Given(s) => LastTaken(s)

OthersDefault ==
  /\ \A s \in Numeric : ~Given(s) => config[s] = Default(s)
  /\ phase \in {"arguments", "root"} \/ Searching =>
       \A s \in Settings \ Numeric : ~Given(s) => config[s] = Unset
  /\ Searching => ~Given("repo_root")
  /\ phase \in {"validate", "loaded"} =>
       \A s \in {"schema_dir", "data_dir"} : ~Given(s) => config[s] = <<config["repo_root"][1], s>>

\* Before the environment is read nothing is set.
Fresh ==
  phase \in {"start", "environment"} =>
    /\ overridden = {} /\ index = 1 /\ positional_count = 0
    /\ \A s \in Settings : config[s] = Default(s)

ReadInv == TypeOK /\ Fresh /\ (Read => AtHead /\ GivenTaken /\ OthersDefault)
-----------------------------------------------------------------------------
(* Heads, and what is given where.                                         *)

\* What the machine hands to main.
LEMMA InputTyped ==
  ASSUME TypeOK
  PROVE  /\ input.args \in Seq(STRING) /\ Count \in Nat /\ index \in 1 .. Count + 1
         /\ \A i \in 1 .. Count : input.args[i] \in STRING
         /\ Heads \subseteq 1 .. Count /\ Positionals \subseteq Heads
         /\ \A s \in Settings : GivenAt(s) \subseteq 1 .. Count
<1>1. input.args \in Seq(STRING)
  BY RuntimeConfigAssumption DEF TypeOK
<1>2. Count \in Nat
  BY <1>1 DEF Count
<1>5. \A i \in 1 .. Count : input.args[i] \in STRING
  BY <1>1 DEF Count
<1>3. Heads \subseteq 1 .. Count /\ Positionals \subseteq Heads
  BY DEF Count, Heads, Positionals
<1>4. ASSUME NEW s \in Settings, NEW i \in GivenAt(s) PROVE i \in 1 .. Count
  <2>1. i \in 2 .. Count \/ i \in Positionals
    BY Zenon DEF GivenAt, Count
  <2>2. i \in 2 .. Count => i \in 1 .. Count
    BY <1>2
  <2>. QED
    BY <2>1, <2>2, <1>3
<1>6. index \in 1 .. Count + 1
  BY DEF TypeOK, Count
<1>. QED
  BY <1>1, <1>2, <1>3, <1>4, <1>5, <1>6

\* What a head is, for a place written in any way.
LEMMA HeadIs == \A i : i \in Heads <=> i \in 1 .. Count /\ \E k \in 0 .. i - 1 : PairsOff(k, i)
BY DEF Heads, Count

\* The loop begins at a head.
LEMMA FirstIsHead == ASSUME TypeOK, 1 <= Count PROVE 1 \in Heads
<1>1. 1 \in 1 .. Count /\ 0 \in 0 .. 1 - 1
  BY InputTyped
<1>2. PairsOff(0, 1)
  BY DEF PairsOff
<1>. QED
  BY <1>1, <1>2, HeadIs

\* After a text that is no option comes a head.
LEMMA AfterPlain ==
  ASSUME TypeOK, NEW i \in 1 .. Count, input.args[i] \notin DOMAIN Options, i + 1 <= Count
  PROVE  i + 1 \in Heads
<1>1. Count \in Nat /\ i + 1 \in 1 .. Count /\ i \in 0 .. i + 1 - 1
  BY InputTyped
<1>2. PairsOff(i, i + 1)
  BY <1>1 DEF PairsOff
<1>. QED
  BY <1>1, <1>2, HeadIs

\* After an option comes its value, whatever it looks like.
LEMMA AfterOption ==
  ASSUME TypeOK, NEW i \in Heads, input.args[i] \in DOMAIN Options, i + 1 <= Count
  PROVE  i + 1 \notin Heads
<1>. SUFFICES ASSUME i + 1 \in Heads PROVE FALSE
  OBVIOUS
<1>1. Count \in Nat /\ i \in 1 .. Count
  BY InputTyped
<1>2. PICK k \in 0 .. i - 1 : PairsOff(k, i)
  BY HeadIs
<1>3. PICK l \in 0 .. i + 1 - 1 : PairsOff(l, i + 1)
  BY HeadIs
<1>4. l # i
  BY <1>1, <1>3 DEF PairsOff
<1>5. l <= k
  BY <1>1, <1>2, <1>3, <1>4 DEF PairsOff
<1>6. k <= l
  BY <1>1, <1>2, <1>3, <1>4 DEF PairsOff
<1>7. k = l
  BY <1>1, <1>2, <1>3, <1>5, <1>6
<1>. QED
  BY <1>1, <1>2, <1>3, <1>7 DEF PairsOff

\* After an option and its value comes a head.
LEMMA AfterValue ==
  ASSUME TypeOK, NEW i \in Heads, input.args[i] \in DOMAIN Options, i + 2 <= Count
  PROVE  i + 2 \in Heads
<1>1. Count \in Nat /\ i \in 1 .. Count
  BY InputTyped
<1>2. PICK k \in 0 .. i - 1 : PairsOff(k, i)
  BY HeadIs
<1>3. CASE input.args[i + 1] \notin DOMAIN Options
  <2>1. i + 1 \in 1 .. Count /\ i + 1 + 1 <= Count /\ i + 1 + 1 = i + 2
    BY <1>1
  <2>2. i + 1 + 1 \in Heads
    BY <2>1, <1>3, AfterPlain
  <2>. QED
    BY <2>1, <2>2
<1>4. CASE input.args[i + 1] \in DOMAIN Options
  <2>1. PairsOff(k, i + 2)
    BY <1>1, <1>2, <1>4 DEF PairsOff
  <2>2. k \in 0 .. i + 2 - 1 /\ i + 2 \in 1 .. Count
    BY <1>1, <1>2
  <2>. QED
    BY <2>1, <2>2, HeadIs
<1>. QED
  BY <1>3, <1>4

\* A head with an option or a dash gives nothing itself.
LEMMA OptionGivesNothing ==
  ASSUME TypeOK, NEW i \in Heads, input.args[i] \in DOMAIN Options \cup Dashed, NEW s \in Settings
  PROVE  i \notin GivenAt(s) /\ i \notin Positionals
BY DEF GivenAt, Positionals

\* The value of an option gives that option's setting.
LEMMA ValueGives ==
  ASSUME TypeOK, NEW i \in Heads, input.args[i] \in DOMAIN Options, i + 1 <= Count, NEW s \in Settings
  PROVE  i + 1 \notin Positionals /\ (i + 1 \in GivenAt(s) <=> s = Options[input.args[i]])
<1>1. i + 1 \notin Heads /\ i \in 1 .. Count /\ Count \in Nat
  BY AfterOption, InputTyped
<1>2. i + 1 \in 2 .. Len(input.args) /\ i + 1 - 1 = i
  BY <1>1 DEF Count
<1>. QED
  BY <1>1, <1>2 DEF GivenAt, Positionals

\* The first positional argument gives the port, the others the workers.
LEMMA PositionalGives ==
  ASSUME TypeOK, NEW i \in Positionals, NEW s \in Settings
  PROVE  i \in GivenAt(s) <=>
           s = IF \E j \in Positionals : j < i THEN "worker_count" ELSE "port"
BY DEF GivenAt, Positionals

\* The greatest of a set of places.
LEMMA MaxIs ==
  ASSUME NEW S \in SUBSET Int, NEW m \in S, \A i \in S : i <= m
  PROVE  Max(S) = m
<1>1. Max(S) \in S /\ \A y \in S : Max(S) >= y
  BY DEF Max
<1>2. Max(S) \in Int /\ m \in Int /\ Max(S) <= m /\ Max(S) >= m
  BY <1>1
<1>. QED
  BY <1>2
-----------------------------------------------------------------------------
(* Reading.                                                                *)

\* Before anything is read.
LEMMA InitInv == Init => ReadInv
<1>. SUFFICES ASSUME Init PROVE ReadInv
  OBVIOUS
<1>1. input \in Inputs /\ input.args \in Seq(STRING)
  BY RuntimeConfigAssumption DEF Init
<1>2. TypeOK
  <2>1. Len(input.args) \in Nat
    BY <1>1
  <2>2. 1 \in 1 .. Len(input.args) + 1
    BY <2>1
  <2>3. DOMAIN config = Settings
    BY DEF Init
  <2>4. index = 1 /\ positional_count = 0 /\ phase = "start" /\ overridden \subseteq Settings
    BY DEF Init
  <2>5. positional_count \in 0 .. 2
    BY <2>4
  <2>. QED
    BY <1>1, <2>2, <2>3, <2>4, <2>5 DEF TypeOK
<1>3. Fresh
  BY DEF Init, Fresh, Default, Settings
<1>. QED
  BY <1>2, <1>3 DEF Init, ReadInv, Read, Searching

\* What the command line gives is settled when main is called.
LEMMA SameInput ==
  ASSUME UNCHANGED input
  PROVE  /\ Count' = Count /\ Heads' = Heads /\ Positionals' = Positionals
         /\ \A s : GivenAt(s)' = GivenAt(s)
BY DEF Count, Heads, Positionals, GivenAt, PairsOff

\* Nothing changes but the phase, which becomes a phase before or after reading.
LEMMA FailKeeps ==
  ASSUME ReadInv, Fail
  PROVE  ReadInv'
BY DEF ReadInv, Fail, TypeOK, Fresh, Read, Searching

\* main gets its working directory.
LEMMA StartKeeps ==
  ASSUME ReadInv, GetWorkingDirectory
  PROVE  ReadInv'
BY DEF ReadInv, GetWorkingDirectory, TypeOK, Fresh, Read, Searching

\* The environment is read as a whole, before any argument.
LEMMA EnvironmentKeeps ==
  ASSUME ReadInv, load_env_overrides
  PROVE  ReadInv'
<1>1. CASE ~GoodEnvironment
  BY <1>1, FailKeeps DEF load_env_overrides
<1>2. CASE GoodEnvironment
  <2>1. /\ phase = "environment" /\ phase' = "arguments"
        /\ overridden' = {s \in Settings : input.env[s] # ""}
        /\ config' = [s \in Settings |-> IF s \in overridden' THEN Text(input.env[s]) ELSE config[s]]
        /\ UNCHANGED <<input, show_help, index, positional_count, current>>
    BY <1>2 DEF load_env_overrides
  <2>2. TypeOK /\ index = 1 /\ positional_count = 0 /\ \A s \in Settings : config[s] = Default(s)
    BY <2>1 DEF ReadInv, Fresh
  <2>3. TypeOK'
    BY <2>1, <2>2 DEF TypeOK
  <2>4. /\ Count \in Nat /\ Positionals \subseteq 1 .. Count
        /\ \A s \in Settings : GivenAt(s) \subseteq 1 .. Count
    BY <2>2, InputTyped
  <2>5. ASSUME NEW s \in Settings PROVE Below(s)' = {} /\ (Given(s)' <=> input.env[s] # "")
    <3>0. GivenAt(s)' = GivenAt(s)
      BY <2>1, SameInput
    <3>1. Below(s)' = {i \in GivenAt(s) : i < 1}
      BY <2>1, <2>2, <3>0 DEF Below
    <3>2. Below(s)' = {}
      BY <3>1, <2>4
    <3>. QED
      BY <2>1, <3>2 DEF Given
  <2>6. AtHead'
    <3>1. 1 <= Count => 1 \in Heads
      BY <2>2, FirstIsHead
    <3>2. \A j \in Positionals : j >= 1
      BY <2>4
    <3>. QED
      BY <2>1, <2>2, <3>1, <3>2, SameInput DEF AtHead
  <2>7. GivenTaken'
    BY <2>1, <2>5 DEF GivenTaken, LastTaken
  <2>8. OthersDefault'
    BY <2>1, <2>2, <2>5 DEF OthersDefault, Default, Settings, Numeric, Searching
  <2>. QED
    BY <2>1, <2>3, <2>6, <2>7, <2>8 DEF ReadInv, Fresh
<1>. QED
  BY <1>1, <1>2

\* A round of load_cli_overrides that passes places where nothing is given.
LEMMA PassingReads ==
  ASSUME ReadInv, phase = "arguments", UNCHANGED <<input, phase, config, overridden>>,
         index' = index + 1, \A s \in Settings : index \notin GivenAt(s)
  PROVE  GivenTaken' /\ OthersDefault'
<1>1. TypeOK /\ GivenTaken /\ OthersDefault /\ index \in Int
  BY DEF ReadInv, Read, TypeOK
<1>2. ASSUME NEW s \in Settings
      PROVE  Below(s)' = Below(s) /\ (Given(s)' <=> Given(s)) /\ (LastTaken(s)' <=> LastTaken(s))
  <2>1. GivenAt(s)' = GivenAt(s) /\ GivenAt(s) \subseteq Int
    BY <1>1, SameInput, InputTyped
  <2>2. Below(s)' = Below(s)
    BY <1>1, <2>1 DEF Below
  <2>. QED
    BY <2>2 DEF Given, LastTaken
<1>. QED
  BY <1>1, <1>2 DEF GivenTaken, OthersDefault, Searching, Numeric, Settings

\* From index up to m there is one text to take, the one at m for the setting t.
OnlyAt(m, t) == \A s \in Settings : \A i \in GivenAt(s) : index <= i /\ i <= m => i = m /\ s = t
Takes(m, t)  == input.args[m] # "" /\ Override(t, input.args[m])

\* A round of load_cli_overrides that takes the text at m for the setting t.
LEMMA OverrideReads ==
  ASSUME ReadInv, phase = "arguments", UNCHANGED <<input, phase>>,
         NEW t \in Settings, NEW m \in GivenAt(t), Takes(m, t), OnlyAt(m, t),
         index <= m, index' = m + 1
  PROVE  GivenTaken' /\ OthersDefault'
<1>1. TypeOK /\ GivenTaken /\ OthersDefault /\ DOMAIN config = Settings
  BY DEF ReadInv, Read, TypeOK
<1>0. Count \in Nat /\ index \in 1 .. Count + 1
  BY <1>1, InputTyped
<1>2. /\ config'[t] = Text(input.args[m]) /\ overridden' = overridden \cup {t}
      /\ \A s \in Settings \ {t} : config'[s] = config[s]
  BY <1>1 DEF Takes, Override
<1>3. ASSUME NEW s \in Settings PROVE GivenAt(s)' = GivenAt(s) /\ GivenAt(s) \subseteq Int
  <2>1. GivenAt(s) \subseteq 1 .. Count
    BY <1>1, InputTyped
  <2>2. GivenAt(s)' = GivenAt(s)
    BY SameInput
  <2>. QED
    BY <2>1, <2>2, <1>0
<1>4. m \in Int
  BY <1>3
<1>5. Below(t)' = Below(t) \cup {m} /\ \A i \in Below(t)' : i <= m
  <2>1. Below(t)' = {i \in GivenAt(t) : i < m + 1}
    BY <1>3 DEF Below
  <2>2. \A i \in GivenAt(t) : i < m + 1 <=> i < index \/ i = m
    BY <1>0, <1>3, <1>4 DEF OnlyAt
  <2>3. \A i \in Below(t)' : i <= m
    BY <1>3, <1>4, <2>1
  <2>. QED
    BY <2>1, <2>2, <2>3 DEF Below
<1>6. ASSUME NEW s \in Settings \ {t} PROVE Below(s)' = Below(s)
  <2>1. Below(s)' = {i \in GivenAt(s) : i < m + 1}
    BY <1>3 DEF Below
  <2>2. \A i \in GivenAt(s) : i < m + 1 <=> i < index
    BY <1>0, <1>3, <1>4 DEF OnlyAt
  <2>. QED
    BY <2>1, <2>2 DEF Below
<1>7. Given(t)' /\ LastTaken(t)'
  BY <1>2, <1>5 DEF Given, LastTaken, Takes
<1>8. ASSUME NEW s \in Settings \ {t}
      PROVE  (Given(s)' <=> Given(s)) /\ (LastTaken(s)' <=> LastTaken(s))
  BY <1>2, <1>6 DEF Given, LastTaken
<1>9. GivenTaken'
  BY <1>1, <1>2, <1>7, <1>8 DEF GivenTaken
<1>10. OthersDefault'
  BY <1>1, <1>2, <1>7, <1>8 DEF OthersDefault, Searching, Numeric, Settings
<1>. QED
  BY <1>9, <1>10

\* The loop is at a head while arguments are left.
LEMMA LoopAtHead ==
  ASSUME ReadInv, phase = "arguments", index <= Len(input.args)
  PROVE  /\ TypeOK /\ AtHead /\ index \in Heads /\ Count \in Nat /\ index \in 1 .. Count
         /\ input.args[index] \in STRING
<1>1. TypeOK /\ AtHead
  BY DEF ReadInv, Read
<1>2. index \in Heads
  BY <1>1 DEF AtHead, Count
<1>. QED
  BY <1>1, <1>2, InputTyped

\* -h and --help.
LEMMA HelpKeeps ==
  ASSUME ReadInv, HelpArgument
  PROVE  ReadInv'
<1>1. /\ phase = "arguments" /\ index <= Len(input.args) /\ Argument \in {"-h", "--help"}
      /\ index' = index + 1 /\ UNCHANGED <<input, phase, config, overridden, positional_count>>
  BY DEF HelpArgument, Is
<1>2. /\ TypeOK /\ AtHead /\ index \in Heads /\ Count \in Nat /\ index \in 1 .. Count
  BY <1>1, LoopAtHead
<1>3. input.args[index] \in Dashed /\ input.args[index] \notin DOMAIN Options
  BY <1>1, RuntimeConfigAssumption DEF Argument, Options
<1>4. index \notin Positionals /\ \A s \in Settings : index \notin GivenAt(s)
  BY <1>2, <1>3, OptionGivesNothing DEF Positionals
<1>5. TypeOK'
  <2>1. index' \in 1 .. Len(input.args) + 1
    BY <1>1, <1>2 DEF Count
  <2>. QED
    BY <1>1, <1>2, <2>1 DEF TypeOK
<1>6. AtHead'
  <2>1. index + 1 <= Count => index + 1 \in Heads
    BY <1>2, <1>3, AfterPlain
  <2>2. Positionals \subseteq 1 .. Count
    BY <1>2, InputTyped
  <2>3. (\A j \in Positionals : j >= index + 1) <=> (\A j \in Positionals : j >= index)
    BY <1>2, <1>4, <2>2
  <2>. QED
    BY <1>1, <1>2, <2>1, <2>3, SameInput DEF AtHead
<1>7. GivenTaken' /\ OthersDefault'
  BY <1>1, <1>4, PassingReads
<1>. QED
  BY <1>1, <1>5, <1>6, <1>7 DEF ReadInv, Fresh

\* An option and its value.
LEMMA OptionKeeps ==
  ASSUME ReadInv, OptionArgument
  PROVE  ReadInv'
<1>. DEFINE t == Options[input.args[index]]
<1>1. /\ phase = "arguments" /\ index <= Len(input.args) /\ index < Len(input.args)
      /\ input.args[index] \in DOMAIN Options
      /\ Accepts(t, input.args[index + 1]) /\ Override(t, input.args[index + 1])
      /\ index' = index + 2 /\ UNCHANGED <<input, phase, positional_count>>
  BY DEF OptionArgument, Is, Argument
<1>2. /\ TypeOK /\ AtHead /\ index \in Heads /\ Count \in Nat /\ index \in 1 .. Count
  BY <1>1, LoopAtHead
<1>3. t \in Settings
  BY <1>1 DEF Options, Settings
<1>4. index + 1 <= Count /\ index + 2 <= Count + 1
  BY <1>1, <1>2 DEF Count
<1>5. TypeOK'
  <2>1. index' \in 1 .. Len(input.args) + 1
    BY <1>1, <1>2, <1>4 DEF Count
  <2>. QED
    BY <1>1, <1>2, <1>3, <2>1 DEF TypeOK, Override
<1>6. AtHead'
  <2>1. index + 2 <= Count => index + 2 \in Heads
    BY <1>1, <1>2, AfterValue
  <2>2. Positionals \subseteq 1 .. Count /\ index \notin Positionals /\ index + 1 \notin Positionals
    BY <1>1, <1>2, <1>3, <1>4, InputTyped, OptionGivesNothing, ValueGives
  <2>3. (\A j \in Positionals : j >= index + 2) <=> (\A j \in Positionals : j >= index)
    BY <1>2, <2>2
  <2>. QED
    BY <1>1, <1>2, <2>1, <2>3, SameInput DEF AtHead
<1>7. GivenTaken' /\ OthersDefault'
  <2>1. \A s \in Settings : index \notin GivenAt(s) /\ (index + 1 \in GivenAt(s) <=> s = t)
    BY <1>1, <1>2, <1>4, OptionGivesNothing, ValueGives
  <2>2. index + 1 \in GivenAt(t)
    BY <1>3, <2>1
  <2>3. Takes(index + 1, t)
    BY <1>1, <1>3, RuntimeConfigAssumption DEF Takes, Accepts
  <2>4. OnlyAt(index + 1, t)
    <3>1. \A s \in Settings : GivenAt(s) \subseteq 1 .. Count
      BY <1>2, InputTyped
    <3>2. \A i \in 1 .. Count : index <= i /\ i <= index + 1 => i = index \/ i = index + 1
      BY <1>2
    <3>. QED
      BY <2>1, <3>1, <3>2 DEF OnlyAt
  <2>5. index <= index + 1 /\ index' = (index + 1) + 1
    BY <1>1, <1>2
  <2>. QED
    BY <1>1, <1>3, <2>2, <2>3, <2>4, <2>5, OverrideReads
<1>. QED
  BY <1>1, <1>5, <1>6, <1>7 DEF ReadInv, Fresh

\* A port or a number of workers by its position.
LEMMA PositionalKeeps ==
  ASSUME ReadInv, PositionalArgument
  PROVE  ReadInv'
<1>1. /\ phase = "arguments" /\ index <= Len(input.args)
      /\ input.args[index] \notin DOMAIN Options \cup Dashed
      /\ positional_count < 2 /\ positional_count' = positional_count + 1
      /\ Accepts(Positional, input.args[index]) /\ Override(Positional, input.args[index])
      /\ index' = index + 1 /\ UNCHANGED <<input, phase>>
  BY DEF PositionalArgument, Is, Argument
<1>2. /\ TypeOK /\ AtHead /\ index \in Heads /\ Count \in Nat /\ index \in 1 .. Count
  BY <1>1, LoopAtHead
<1>3. index \in Positionals /\ Positionals \subseteq 1 .. Count
  BY <1>1, <1>2, InputTyped DEF Positionals
<1>4. Positional \in Settings /\ Positional \in Numeric
  BY DEF Positional, Settings, Numeric
<1>5. TypeOK'
  <2>1. index' \in 1 .. Len(input.args) + 1
    BY <1>1, <1>2 DEF Count
  <2>2. positional_count' \in 0 .. 2
    BY <1>1, <1>2 DEF TypeOK
  <2>. QED
    BY <1>1, <1>2, <1>4, <2>1, <2>2 DEF TypeOK, Override
<1>6. AtHead'
  <2>1. index + 1 <= Count => index + 1 \in Heads
    BY <1>1, <1>2, AfterPlain
  <2>2. ~ \A j \in Positionals : j >= index + 1
    BY <1>2, <1>3
  <2>3. positional_count' # 0
    BY <1>1, <1>2 DEF TypeOK
  <2>. QED
    BY <1>1, <1>2, <2>1, <2>2, <2>3, SameInput DEF AtHead
<1>7. GivenTaken' /\ OthersDefault'
  <2>1. Positional = IF \E j \in Positionals : j < index THEN "worker_count" ELSE "port"
    <3>1. (\E j \in Positionals : j < index) <=> ~ \A j \in Positionals : j >= index
      BY <1>2, <1>3
    <3>. QED
      BY <1>2, <3>1 DEF Positional, AtHead
  <2>2. \A s \in Settings : index \in GivenAt(s) <=> s = Positional
    BY <1>2, <1>3, <2>1, PositionalGives
  <2>3. index \in GivenAt(Positional)
    BY <1>4, <2>2
  <2>4. Takes(index, Positional)
    BY <1>1, <1>4, RuntimeConfigAssumption DEF Takes, Accepts
  <2>5. OnlyAt(index, Positional)
    <3>1. \A s \in Settings : GivenAt(s) \subseteq 1 .. Count
      BY <1>2, InputTyped
    <3>2. \A i \in 1 .. Count : index <= i /\ i <= index => i = index
      BY <1>2
    <3>. QED
      BY <2>2, <3>1, <3>2 DEF OnlyAt
  <2>6. index <= index
    BY <1>2
  <2>. QED
    BY <1>1, <1>4, <2>3, <2>4, <2>5, <2>6, OverrideReads
<1>. QED
  BY <1>1, <1>5, <1>6, <1>7 DEF ReadInv, Fresh

\* After the arguments nobody gives anything any more.
LEMMA SameGiven ==
  ASSUME UNCHANGED <<input, index>>, NEW s
  PROVE  (Given(s)' <=> Given(s)) /\ (config'[s] = config[s] => (LastTaken(s)' <=> LastTaken(s)))
<1>1. Below(s)' = Below(s)
  BY SameInput DEF Below
<1>. QED
  BY <1>1 DEF Given, LastTaken

\* A step after the arguments that keeps what was given, the port and the
\* number of workers.
LEMMA GivenStays ==
  ASSUME ReadInv, Read, UNCHANGED <<input, index, overridden>>,
         \A s \in Settings : Given(s) \/ s \in Numeric => config'[s] = config[s]
  PROVE  GivenTaken' /\ \A s \in Numeric : ~Given(s)' => config'[s] = Default(s)
<1>1. GivenTaken /\ OthersDefault
  BY DEF ReadInv
<1>2. Numeric \subseteq Settings
  BY DEF Numeric, Settings
<1>3. \A s \in Settings : (Given(s)' <=> Given(s)) /\ (Given(s) => (LastTaken(s)' <=> LastTaken(s)))
  BY SameGiven
<1>4. GivenTaken'
  BY <1>1, <1>3 DEF GivenTaken
<1>. QED
  BY <1>1, <1>2, <1>3, <1>4 DEF OthersDefault

\* All arguments are read.
LEMMA ArgumentsDoneKeeps ==
  ASSUME ReadInv, ArgumentsDone
  PROVE  ReadInv'
<1>1. /\ phase = "arguments" /\ index > Len(input.args) /\ phase' \in {"help", "root"}
      /\ UNCHANGED <<input, config, overridden, show_help, index, positional_count, current>>
  BY DEF ArgumentsDone
<1>2. TypeOK /\ AtHead /\ GivenTaken /\ OthersDefault /\ Read
  BY <1>1 DEF ReadInv, Read
<1>3. TypeOK'
  BY <1>1, <1>2 DEF TypeOK
<1>4. AtHead'
  <2>1. index = Count + 1
    BY <1>1, <1>2, InputTyped DEF Count
  <2>. QED
    BY <1>1, <1>2, <2>1, SameInput DEF AtHead
<1>5. GivenTaken' /\ \A s \in Settings : Given(s)' <=> Given(s)
  BY <1>1, <1>2, GivenStays, SameGiven
<1>6. OthersDefault'
  BY <1>1, <1>2, <1>5 DEF OthersDefault, Numeric, Settings, Searching
<1>. QED
  BY <1>1, <1>3, <1>4, <1>5, <1>6 DEF ReadInv, Fresh

\* What the steps after the arguments have in common.
LEMMA LaterKeeps ==
  ASSUME ReadInv, Read, phase # "arguments", phase' # "arguments",
         UNCHANGED <<input, index, overridden, positional_count>>,
         TypeOK', OthersDefault',
         phase' \notin {"start", "environment"},
         \A s \in Settings : Given(s) \/ s \in Numeric => config'[s] = config[s]
  PROVE  ReadInv'
<1>1. AtHead'
  BY SameInput DEF ReadInv, AtHead
<1>2. GivenTaken'
  BY GivenStays
<1>. QED
  BY <1>1, <1>2 DEF ReadInv, Fresh

\* A directory that was given is not the empty one.
LEMMA GivenIsSet ==
  ASSUME ReadInv, Read, Given("repo_root")
  PROVE  config["repo_root"] # Unset
<1>1. LastTaken("repo_root")
  BY DEF ReadInv, GivenTaken, Settings
<1>2. PICK text : text # "" /\ config["repo_root"] = Text(text)
  BY <1>1 DEF LastTaken, Given
<1>3. Text(text)[1] = text /\ Unset[1] = ""
  BY DEF Text, Unset
<1>. QED
  BY <1>2, <1>3

\* resolve_repo_root begins, and its search goes up or ends.
LEMMA SearchKeeps ==
  ASSUME ReadInv, resolve_repo_root \/ SearchAbove \/ SearchFailed
  PROVE  ReadInv'
<1>1. /\ Searching \/ phase = "root"
      /\ phase' \in {"paths", "search", "search_program"}
      /\ UNCHANGED <<input, config, overridden, index, positional_count>>
  BY DEF resolve_repo_root, SearchAbove, SearchFailed, Searching
<1>2. Read /\ TypeOK /\ OthersDefault /\ phase # "arguments"
  BY <1>1 DEF ReadInv, Read, Searching
<1>3. TypeOK'
  BY <1>1, <1>2 DEF TypeOK
<1>4. \A s \in Settings : Given(s)' <=> Given(s)
  BY <1>1, SameGiven
<1>5. Searching' => ~Given("repo_root")
  <2>1. CASE resolve_repo_root
    BY <1>2, <2>1, GivenIsSet DEF resolve_repo_root, Searching
  <2>2. CASE SearchAbove \/ SearchFailed
    BY <1>2, <2>2 DEF OthersDefault, SearchAbove, SearchFailed, Searching
  <2>. QED
    BY <2>1, <2>2
<1>6. OthersDefault'
  BY <1>1, <1>2, <1>4, <1>5 DEF OthersDefault, Numeric, Settings, Searching
<1>. QED
  BY <1>1, <1>2, <1>3, <1>6, LaterKeeps

\* The search finds a root, which nobody has given.
LEMMA FoundKeeps ==
  ASSUME ReadInv, SearchHere
  PROVE  ReadInv'
<1>1. /\ Searching /\ phase' = "paths"
      /\ config' = [config EXCEPT !["repo_root"] = Text(current)]
      /\ UNCHANGED <<input, overridden, index, positional_count>>
  BY DEF SearchHere, Searching
<1>2. Read /\ TypeOK /\ OthersDefault /\ phase # "arguments"
  BY <1>1 DEF ReadInv, Read, Searching
<1>3. TypeOK'
  BY <1>1, <1>2 DEF TypeOK
<1>4. /\ \A s \in Settings : Given(s)' <=> Given(s)
      /\ \A s \in Settings \ {"repo_root"} : config'[s] = config[s]
      /\ ~Given("repo_root")
  BY <1>1, <1>2, SameGiven DEF TypeOK, OthersDefault
<1>5. OthersDefault'
  BY <1>1, <1>2, <1>4 DEF OthersDefault, Numeric, Settings, Searching
<1>6. \A s \in Settings : Given(s) \/ s \in Numeric => config'[s] = config[s]
  BY <1>4 DEF Numeric
<1>. QED
  BY <1>1, <1>2, <1>3, <1>5, <1>6, LaterKeeps

\* The directories below the root, for those nobody has given.
LEMMA PathsKeep ==
  ASSUME ReadInv, derive_default_paths
  PROVE  ReadInv'
<1>1. /\ phase = "paths" /\ phase' \in {"validate", "failed"}
      /\ UNCHANGED <<input, overridden, index, positional_count>>
  BY DEF derive_default_paths
<1>2. Read /\ TypeOK /\ OthersDefault /\ GivenTaken /\ phase # "arguments"
  BY <1>1 DEF ReadInv, Read
<1>3. TypeOK'
  BY <1>1, <1>2 DEF TypeOK, derive_default_paths
<1>4. \A s \in Settings : (Given(s)' <=> Given(s)) /\ (Given(s) <=> s \in overridden)
  BY <1>1, <1>2, SameGiven DEF GivenTaken
<1>5. \A s \in Settings : s \notin {"schema_dir", "data_dir"} \ overridden => config'[s] = config[s]
  BY <1>2 DEF derive_default_paths, TypeOK
<1>6. OthersDefault'
  <2>1. \A s \in Numeric : ~Given(s)' => config'[s] = Default(s)
    BY <1>2, <1>4, <1>5 DEF OthersDefault, Numeric, Settings
  <2>2. ASSUME phase' = "validate", NEW s \in {"schema_dir", "data_dir"}, s \notin overridden
        PROVE  config'[s] = <<config'["repo_root"][1], s>>
    <3>1. config["repo_root"] # Unset
      BY <2>2 DEF derive_default_paths
    <3>2. config' = [z \in Settings |->
               IF z \in {"schema_dir", "data_dir"} \ overridden THEN <<config["repo_root"][1], z>>
               ELSE config[z]]
      BY <3>1 DEF derive_default_paths
    <3>. QED
      BY <2>2, <3>2 DEF Settings
  <2>. QED
    BY <1>1, <1>4, <2>1, <2>2 DEF OthersDefault, Searching, Settings
<1>7. \A s \in Settings : Given(s) \/ s \in Numeric => config'[s] = config[s]
  BY <1>4, <1>5 DEF Numeric
<1>. QED
  BY <1>1, <1>2, <1>3, <1>6, <1>7, LaterKeeps

\* The checks change nothing.
LEMMA ValidateKeeps ==
  ASSUME ReadInv, validate_config
  PROVE  ReadInv'
<1>1. /\ phase = "validate" /\ phase' \in {"loaded", "failed"}
      /\ UNCHANGED <<input, config, overridden, index, positional_count>>
  BY DEF validate_config
<1>2. Read /\ TypeOK /\ OthersDefault /\ phase # "arguments"
  BY <1>1 DEF ReadInv, Read
<1>3. TypeOK'
  BY <1>1, <1>2 DEF TypeOK
<1>4. \A s \in Settings : Given(s)' <=> Given(s)
  BY <1>1, SameGiven
<1>5. OthersDefault'
  BY <1>1, <1>2, <1>4 DEF OthersDefault, Numeric, Settings, Searching
<1>. QED
  BY <1>1, <1>2, <1>3, <1>5, LaterKeeps

\* Every step of loading keeps the invariant.
LEMMA NextKeepsRead == ReadInv /\ [Next]_vars => ReadInv'
<1>. SUFFICES ASSUME ReadInv, [Next]_vars PROVE ReadInv'
  OBVIOUS
<1>1. CASE Fail
  BY <1>1, FailKeeps
<1>2. CASE UNCHANGED vars
  <2>1. \A s \in Settings : (Given(s)' <=> Given(s)) /\ (LastTaken(s)' <=> LastTaken(s))
    BY <1>2, SameGiven DEF vars
  <2>2. AtHead => AtHead'
    BY <1>2, SameInput DEF vars, AtHead
  <2>3. GivenTaken => GivenTaken'
    BY <1>2, <2>1 DEF vars, GivenTaken
  <2>4. OthersDefault => OthersDefault'
    BY <1>2, <2>1 DEF vars, OthersDefault, Numeric, Settings, Searching
  <2>. QED
    BY <1>2, <2>2, <2>3, <2>4 DEF vars, ReadInv, TypeOK, Fresh, Read, Searching
<1>3. CASE Load
  BY <1>1, <1>3, StartKeeps, EnvironmentKeeps, HelpKeeps, OptionKeeps, PositionalKeeps,
     ArgumentsDoneKeeps, SearchKeeps, FoundKeeps, PathsKeep, ValidateKeeps
     DEF Load, OptionFails, UnknownOption, PositionalFails
<1>. QED
  BY <1>1, <1>2, <1>3 DEF Next, NoWorkingDirectory, ServerMain

\* The inductive invariant of reading: for every command line, environment and
\* machine, the loop of load_cli_overrides stands at a head, and the settings
\* are those given so far.
THEOREM ReadInvariance == Spec => []ReadInv
BY InitInv, NextKeepsRead, PTL DEF Spec

\* What was given when everything is read is what was asked for.
LEMMA AskedIsGiven ==
  ASSUME ReadInv, Read, phase # "arguments", NEW s \in Settings
  PROVE  /\ Given(s) => Asked(s) # "" /\ config[s] = Text(Asked(s))
         /\ ~Given(s) => Asked(s) = ""
<1>1. TypeOK /\ index = Count + 1 /\ (Given(s) => LastTaken(s))
  BY DEF ReadInv, AtHead, GivenTaken
<1>2. Count \in Nat /\ GivenAt(s) \subseteq 1 .. Count
  BY <1>1, InputTyped
<1>3. Below(s) = GivenAt(s)
  BY <1>1, <1>2 DEF Below
<1>4. CASE GivenAt(s) = {}
  BY <1>1, <1>3, <1>4 DEF Asked, Given, LastTaken
<1>5. CASE GivenAt(s) # {}
  <2>1. Given(s)
    BY <1>3, <1>5 DEF Given
  <2>2. PICK m \in GivenAt(s) : /\ \A i \in GivenAt(s) : i <= m
                               /\ input.args[m] # "" /\ config[s] = Text(input.args[m])
    BY <1>1, <1>3, <1>5, <2>1 DEF LastTaken
  <2>3. GivenAt(s) \subseteq Int
    BY <1>2
  <2>4. Max(GivenAt(s)) = m
    BY <2>2, <2>3, MaxIs
  <2>. QED
    BY <1>5, <2>1, <2>2, <2>4 DEF Asked
<1>. QED
  BY <1>4, <1>5

\* The server starts with what was asked for, whatever the command line and the
\* environment hold: server_runtime_config_load.
THEOREM StartsAsAsked == Spec => []SettingsAsAsked
<1>1. ASSUME ReadInv PROVE SettingsAsAsked
  <2>. SUFFICES ASSUME phase = "loaded" PROVE SettingsAsAsked
    BY DEF SettingsAsAsked
  <2>1. Read /\ phase # "arguments" /\ OthersDefault
    BY <1>1 DEF Read, ReadInv
  <2>2. \A s \in Settings : /\ Given(s) => Asked(s) # "" /\ config[s] = Text(Asked(s))
                            /\ ~Given(s) => Asked(s) = ""
    BY <1>1, <2>1, AskedIsGiven
  <2>. QED
    BY <2>1, <2>2 DEF SettingsAsAsked, OthersDefault, Default, Numeric, Settings
<1>. QED
  BY <1>1, ReadInvariance, PTL
-----------------------------------------------------------------------------
(* The search for the root.                                                *)

Paths == DOMAIN Above
RootsAbove(path) == Ancestors(path) \cap input.roots
Innermost(root, roots) == root \in roots /\ roots \subseteq Ancestors(root)
Nearest(root) ==
  \/ Innermost(root, RootsAbove(input.cwd))
  \/ RootsAbove(input.cwd) \subseteq Drives /\ Innermost(root, RootsAbove(input.program))

\* The search from a directory has passed no root of those above it.
Passed(start) ==
  current # "" => current \in Ancestors(start) /\ RootsAbove(start) \subseteq Ancestors(current)

\* Above the working directory there is no root, or only the drive.
NoneHere == RootsAbove(input.cwd) \subseteq Drives

SearchInv ==
  /\ current \in Paths \cup {""}
  /\ phase = "search" => Passed(input.cwd) /\ (current = "" => NoneHere)
  /\ phase = "search_program" => NoneHere /\ Passed(input.program)
  /\ phase \in {"paths", "validate", "loaded"} /\ ~Given("repo_root") /\ config["repo_root"] # Unset =>
       Nearest(config["repo_root"][1])

\* Ancestors is the least set that has the path and the parents of all in it.
LEMMA AncestorsLeast ==
  ASSUME NEW p \in Paths
  PROVE  /\ Ancestors(p) \subseteq Paths /\ p \in Ancestors(p)
         /\ \A d \in Ancestors(p) : Above[d] \in Ancestors(p)
         /\ \A S \in SUBSET Paths : p \in S /\ (\A x \in S : Above[x] \in S) => Ancestors(p) \subseteq S
<1>1. \A d \in Paths : Above[d] \in Paths
  BY RuntimeConfigAssumption DEF Paths
<1>2. {p} \cap Paths = {p}
  OBVIOUS
<1>3. Ancestors(p) = {d \in Paths : \A S \in SUBSET Paths :
                        {p} \subseteq S /\ (\A x \in S : Above[x] \in S) => d \in S}
  BY <1>2 DEF Ancestors, Paths
<1>. QED
  BY <1>1, <1>3

\* What lies above a directory above p lies above p.
LEMMA AncestorsTransitive ==
  ASSUME NEW p \in Paths, NEW d \in Ancestors(p)
  PROVE  Ancestors(d) \subseteq Ancestors(p)
<1>1. /\ d \in Paths /\ Ancestors(p) \in SUBSET Paths
      /\ \A x \in Ancestors(p) : Above[x] \in Ancestors(p)
  BY AncestorsLeast
<1>. QED
  BY <1>1, AncestorsLeast

\* What lies above a directory is it or lies above its parent.
LEMMA AncestorsStep ==
  ASSUME NEW p \in Paths
  PROVE  Ancestors(p) \subseteq {p} \cup Ancestors(Above[p])
<1>. DEFINE S == {p} \cup Ancestors(Above[p])
<1>1. Above[p] \in Paths
  BY RuntimeConfigAssumption DEF Paths
<1>2. S \in SUBSET Paths /\ p \in S /\ \A x \in S : Above[x] \in S
  BY <1>1, AncestorsLeast
<1>. QED
  BY <1>2, AncestorsLeast

\* Above a drive there is nothing else.
LEMMA AncestorsOfDrive ==
  ASSUME NEW p \in Paths, p \in Drives
  PROVE  Ancestors(p) \subseteq Drives
<1>1. {p} \in SUBSET Paths /\ p \in {p} /\ \A x \in {p} : Above[x] \in {p}
  BY RuntimeConfigAssumption DEF Paths
<1>2. Ancestors(p) \subseteq {p}
  BY <1>1, AncestorsLeast
<1>. QED
  BY <1>2

\* Where main is called.
LEMMA Places ==
  ASSUME TypeOK
  PROVE  input.cwd \in Paths /\ input.program \in Paths \cup {""} /\ "" \notin Paths
BY RuntimeConfigAssumption DEF TypeOK, Paths

\* A search begins with every root above the start above it.
LEMMA SearchBegins ==
  ASSUME NEW p \in Paths
  PROVE  p \in Ancestors(p) /\ RootsAbove(p) \subseteq Ancestors(p)
BY AncestorsLeast DEF RootsAbove

\* One step up passes no root.
LEMMA SearchGoesOn ==
  ASSUME NEW p \in Paths, current \in Paths, current \in Ancestors(p),
         RootsAbove(p) \subseteq Ancestors(current), current \notin input.roots
  PROVE  /\ Above[current] \in Ancestors(p) /\ RootsAbove(p) \subseteq Ancestors(Above[current])
         /\ Above[current] \in Drives => RootsAbove(p) \subseteq Drives
<1>1. Above[current] \in Ancestors(p) /\ Above[current] \in Paths
  BY AncestorsLeast
<1>2. RootsAbove(p) \subseteq Ancestors(Above[current])
  BY AncestorsStep DEF RootsAbove
<1>. QED
  BY <1>1, <1>2, AncestorsOfDrive

\* Ancestors and roots are settled when main is called.
LEMMA SamePlaces ==
  ASSUME UNCHANGED input
  PROVE  /\ \A p : RootsAbove(p)' = RootsAbove(p) /\ (Nearest(p)' <=> Nearest(p))
         /\ NoneHere' <=> NoneHere
BY DEF RootsAbove, Nearest, NoneHere, Innermost, Ancestors

\* The search starts at the working directory, if nobody has given a root.
LEMMA ResolveKeepsSearch ==
  ASSUME ReadInv, SearchInv, resolve_repo_root
  PROVE  SearchInv'
<1>1. TypeOK /\ OthersDefault /\ phase = "root" /\ UNCHANGED <<input, config, index>>
  BY DEF ReadInv, Read, resolve_repo_root
<1>2. Given("repo_root")' <=> Given("repo_root")
  BY <1>1, SameGiven
<1>3. ~Given("repo_root") => config["repo_root"] = Unset
  BY <1>1 DEF OthersDefault, Settings, Numeric
<1>4. CASE config["repo_root"] # Unset
  BY <1>1, <1>2, <1>3, <1>4 DEF resolve_repo_root, SearchInv
<1>5. CASE config["repo_root"] = Unset
  <2>1. phase' = "search" /\ current' = input.cwd /\ input.cwd \in Paths /\ input.cwd # ""
    BY <1>1, <1>5, Places DEF resolve_repo_root
  <2>2. Passed(input.cwd)'
    BY <1>1, <2>1, SearchBegins, SamePlaces DEF Passed
  <2>. QED
    BY <1>1, <2>1, <2>2 DEF SearchInv
<1>. QED
  BY <1>4, <1>5

\* The search goes one directory up.
LEMMA AboveKeepsSearch ==
  ASSUME ReadInv, SearchInv, SearchAbove
  PROVE  SearchInv'
<1>1. /\ TypeOK /\ Searching /\ current # "" /\ current \notin input.roots
      /\ current' = IF Above[current] \in Drives THEN "" ELSE Above[current]
      /\ UNCHANGED <<input, phase>>
  BY DEF ReadInv, SearchAbove, Searching, is_repo_root, parent_directory
<1>2. current \in Paths /\ Above[current] \in Paths /\ "" \notin Paths
  BY <1>1, Places, RuntimeConfigAssumption DEF SearchInv, Paths
<1>3. ASSUME NEW p \in Paths, Passed(p)
      PROVE  Passed(p)' /\ (current' = "" => RootsAbove(p) \subseteq Drives)
  <2>1. /\ Above[current] \in Ancestors(p) /\ RootsAbove(p) \subseteq Ancestors(Above[current])
        /\ Above[current] \in Drives => RootsAbove(p) \subseteq Drives
    BY <1>1, <1>2, <1>3, SearchGoesOn DEF Passed
  <2>. QED
    BY <1>1, <1>2, <2>1, SamePlaces DEF Passed
<1>4. CASE phase = "search"
  <2>1. Passed(input.cwd)' /\ (current' = "" => NoneHere)
    BY <1>1, <1>3, <1>4, Places DEF SearchInv, NoneHere
  <2>. QED
    BY <1>1, <1>2, <1>4, <2>1, SamePlaces DEF SearchInv
<1>5. CASE phase = "search_program"
  <2>1. Passed(input.program) /\ NoneHere
    BY <1>5 DEF SearchInv
  <2>2. current \in Ancestors(input.program)
    BY <1>1, <2>1 DEF Passed
  <2>3. input.program \in Paths
    <3>1. ASSUME input.program = "" PROVE FALSE
      <4>0. /\ {} \in SUBSET DOMAIN Above /\ {""} \cap DOMAIN Above \subseteq {}
            /\ \A x \in {} : Above[x] \in {}
        BY <1>2 DEF Paths
      <4>1. Ancestors("") = {}
        BY <4>0, Zenon DEF Ancestors
      <4>. QED
        BY <2>2, <3>1, <4>1
    <3>. QED
      BY <1>1, <3>1, Places
  <2>4. Passed(input.program)'
    BY <1>1, <1>3, <2>1, <2>3
  <2>. QED
    BY <1>1, <1>2, <1>5, <2>1, <2>4, SamePlaces DEF SearchInv
<1>. QED
  BY <1>1, <1>4, <1>5 DEF Searching

\* The search finds the innermost root.
LEMMA HereKeepsSearch ==
  ASSUME ReadInv, SearchInv, SearchHere
  PROVE  SearchInv'
<1>1. /\ TypeOK /\ Searching /\ current # "" /\ current \in input.roots
      /\ config' = [config EXCEPT !["repo_root"] = Text(current)]
      /\ phase' = "paths" /\ UNCHANGED <<input, current>>
  BY DEF ReadInv, SearchHere, Searching, is_repo_root
<1>2. config'["repo_root"][1] = current
  BY <1>1 DEF TypeOK, Settings, Text
<1>3. Nearest(current)
  <2>1. CASE phase = "search"
    BY <1>1, <2>1 DEF SearchInv, Passed, Nearest, Innermost, RootsAbove
  <2>2. CASE phase = "search_program"
    BY <1>1, <2>2 DEF SearchInv, Passed, Nearest, Innermost, RootsAbove, NoneHere
  <2>. QED
    BY <1>1, <2>1, <2>2 DEF Searching
<1>4. Nearest(config["repo_root"][1])'
  BY <1>1, <1>2, <1>3, SamePlaces
<1>. QED
  BY <1>1, <1>4 DEF SearchInv

\* The search ends, or starts again at the program.
LEMMA FailedKeepsSearch ==
  ASSUME ReadInv, SearchInv, SearchFailed
  PROVE  SearchInv'
<1>1. /\ TypeOK /\ Searching /\ current = "" /\ UNCHANGED <<input, config, index>>
  BY DEF ReadInv, SearchFailed, Searching
<1>2. config["repo_root"] = Unset
  BY <1>1 DEF ReadInv, Read, OthersDefault, Settings, Numeric
<1>3. CASE phase' = "paths" /\ UNCHANGED current
  BY <1>1, <1>2, <1>3 DEF SearchInv
<1>4. CASE ~(phase' = "paths" /\ UNCHANGED current)
  <2>1. /\ phase = "search" /\ phase' = "search_program" /\ current' = input.program
        /\ input.program # "" /\ NoneHere
    BY <1>1, <1>4 DEF SearchFailed, resolve_program_directory, SearchInv
  <2>2. input.program \in Paths
    BY <1>1, <2>1, Places
  <2>3. Passed(input.program)'
    BY <1>1, <2>1, <2>2, SearchBegins, SamePlaces DEF Passed
  <2>. QED
    BY <1>1, <2>1, <2>2, <2>3, SamePlaces DEF SearchInv
<1>. QED
  BY <1>3, <1>4

\* The other steps neither search nor change the root.
LEMMA OthersKeepSearch ==
  ASSUME ReadInv, SearchInv, [Next]_vars,
         ~resolve_repo_root, ~SearchAbove, ~SearchHere, ~SearchFailed
  PROVE  SearchInv'
<1>1. CASE UNCHANGED vars
  BY <1>1, SameGiven, SamePlaces DEF vars, SearchInv, Passed
<1>2. CASE UNCHANGED <<input, current>> /\
           phase' \in {"environment", "arguments", "root", "help", "failed"}
  BY <1>2 DEF SearchInv
<1>3. CASE derive_default_paths \/ validate_config
  <2>1. /\ TypeOK /\ phase \in {"paths", "validate"} /\ phase' \in {"validate", "loaded", "failed"}
        /\ UNCHANGED <<input, index, current>> /\ config'["repo_root"] = config["repo_root"]
    BY <1>3 DEF ReadInv, derive_default_paths, validate_config, Settings
  <2>2. Given("repo_root")' <=> Given("repo_root")
    BY <2>1, SameGiven
  <2>3. \A p : Nearest(p)' <=> Nearest(p)
    BY <2>1, SamePlaces
  <2>. QED
    BY <2>1, <2>2, <2>3 DEF SearchInv
<1>. QED
  BY <1>1, <1>2, <1>3
     DEF Next, Load, GetWorkingDirectory, load_env_overrides, HelpArgument, OptionArgument,
         OptionFails, UnknownOption, PositionalArgument, PositionalFails, ArgumentsDone,
         NoWorkingDirectory, Fail, ServerMain, Is

\* The root the server infers is the innermost one above the working directory,
\* or, when there is none, above the program, for every tree of directories:
\* find_repo_root_from_start.
THEOREM NearestRootFound == Spec => []RootIsNearest
<1>1. Init => SearchInv
  BY DEF Init, SearchInv
<1>2. ReadInv /\ SearchInv /\ [Next]_vars => SearchInv'
  BY ResolveKeepsSearch, AboveKeepsSearch, HereKeepsSearch, FailedKeepsSearch, OthersKeepSearch
<1>3. ASSUME ReadInv, SearchInv PROVE RootIsNearest
  <2>. SUFFICES ASSUME phase = "loaded", Asked("repo_root") = "", config["repo_root"] # Unset
                PROVE  Nearest(config["repo_root"][1])
    BY DEF RootIsNearest, Nearest, Innermost, RootsAbove
  <2>1. ~Given("repo_root")
    BY <1>3, AskedIsGiven DEF Read, Settings
  <2>. QED
    BY <1>3, <2>1 DEF SearchInv
<1>. QED
  BY <1>1, <1>2, <1>3, ReadInvariance, PTL DEF Spec
=============================================================================
