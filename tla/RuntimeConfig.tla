---------------------------- MODULE RuntimeConfig ----------------------------
(***************************************************************************)
(* server_runtime_config_load (SERVER-RUNTIME/src/runtime_config.c), the   *)
(* first thing server_main does: defaults, then the environment, then the  *)
(* command line argument by argument, then the search for the repository   *)
(* root upwards from the working directory, then the default directories   *)
(* below it, then the checks.                                              *)
(*                                                                         *)
(* Texts are compared as the code compares them: is it an option, does it  *)
(* read as an int, is it a directory.  A setting is a pair of a text and   *)
(* what the code joined to it.                                             *)
(***************************************************************************)
EXTENDS Integers, Sequences, FiniteSetsExt

CONSTANTS
  Number,        \* texts that strtol reads whole and that fit an int, as ints
  Dashed,        \* texts of two characters and more that begin with '-'
  Directories,   \* texts that name an existing directory
  Above,         \* Above[d]: the path d without its last component
  Drives,        \* roots of the form "C:/"
  Inputs         \* the machine and the call, see Init

\* parse_int_value refuses the empty text; help is asked for with a dash; paths
\* have their parents above them, and a drive nothing but itself.
ASSUME RuntimeConfigAssumption ==
  /\ "" \notin DOMAIN Number
  /\ {"-h", "--help"} \subseteq Dashed
  /\ Above \in [DOMAIN Above -> DOMAIN Above] /\ "" \notin DOMAIN Above
  /\ \A d \in Drives \cap DOMAIN Above : Above[d] = d
  /\ \A i \in Inputs : /\ i.args \in Seq(STRING)
                       /\ i.cwd \in DOMAIN Above /\ i.program \in DOMAIN Above \cup {""}

Settings == {"port", "worker_count", "repo_root", "schema_dir", "data_dir"}
Numeric  == {"port", "worker_count"}

Options ==
  [ o \in {"--port", "--workers", "--worker-count", "--repo-root", "--schema-dir", "--data-dir"} |->
      CASE o = "--port"       -> "port"
        [] o = "--repo-root"  -> "repo_root"
        [] o = "--schema-dir" -> "schema_dir"
        [] o = "--data-dir"   -> "data_dir"
        [] OTHER              -> "worker_count" ]

VARIABLES
  input,              \* environment, arguments, places and directories
  phase,              \* what server_runtime_config_load is doing
  config,             \* ServerRuntimeConfig, its five settings
  overridden,         \* ServerRuntimeOverrideState: the flags that are set
  show_help,
  index,              \* of the argument that comes next
  positional_count,
  current             \* find_repo_root_from_start: the directory looked at

vars == <<input, phase, config, overridden, show_help, index, positional_count, current>>

Unset   == <<"", "">>
Text(t) == <<t, "">>

TypeOK ==
  /\ input \in Inputs
  /\ phase \in {"start", "environment", "arguments", "root", "search", "search_program", "paths",
                "validate", "loaded", "help", "failed"}
  /\ DOMAIN config = Settings
  /\ overridden \subseteq Settings
  /\ index \in 1 .. Len(input.args) + 1
  /\ positional_count \in 0 .. 2

\* input.env: what getenv returns, "" for nothing; input.args: argv from 1 on;
\* input.cwd; input.program: the directory of argv[0], "" when it names none;
\* input.roots: directories with PLAN.md and the two subdirectories that
\* is_repo_root asks for; input.furnished: those with schema and data below.
Init ==
  /\ input \in Inputs
  /\ phase = "start"
  /\ config = [s \in Settings |->
                 CASE s = "port" -> Text("8080") [] s = "worker_count" -> Text("4") [] OTHER -> Unset]
  /\ overridden = {}
  /\ show_help = FALSE
  /\ index = 1
  /\ positional_count = 0
  /\ current = ""
-----------------------------------------------------------------------------
\* parse_int_value and apply_directory_override.
Accepts(setting, text) ==
  IF setting \in Numeric THEN text \in DOMAIN Number ELSE text \notin {"", "long"}

Fail == phase' = "failed" /\ UNCHANGED <<input, config, overridden, show_help, index, positional_count, current>>

GetWorkingDirectory ==
  /\ phase = "start"
  /\ phase' = "environment"
  /\ UNCHANGED <<input, config, overridden, show_help, index, positional_count, current>>

\* argv[0] is too long, or getcwd fails.
NoWorkingDirectory == phase = "start" /\ Fail

GoodEnvironment == \A s \in Settings : input.env[s] # "" => Accepts(s, input.env[s])

load_env_overrides ==
  /\ phase = "environment"
  /\ IF ~GoodEnvironment THEN Fail
     ELSE /\ overridden' = {s \in Settings : input.env[s] # ""}
          /\ config' = [s \in Settings |-> IF s \in overridden' THEN Text(input.env[s]) ELSE config[s]]
          /\ phase' = "arguments"
          /\ UNCHANGED <<input, show_help, index, positional_count, current>>
-----------------------------------------------------------------------------
(* load_cli_overrides: one round of its loop.                              *)

Argument == input.args[index]
Is(kind) ==
  /\ phase = "arguments" /\ index <= Len(input.args)
  /\ kind = IF Argument \in {"-h", "--help"} THEN "help"
            ELSE IF Argument \in DOMAIN Options THEN "option"
            ELSE IF Argument \in Dashed THEN "unknown"
            ELSE "positional"

\* What was set before stays set; a mutant's body.
Override_Once(setting, text) ==
  /\ config' = [config EXCEPT ![setting] = IF setting \in overridden THEN @ ELSE Text(text)]
  /\ overridden' = overridden \cup {setting}

Override(setting, text) ==
  /\ config' = [config EXCEPT ![setting] = Text(text)]
  /\ overridden' = overridden \cup {setting}

\* A loop that stays at the argument it continues from; a mutant's body.
HelpArgument_Stays ==
  /\ Is("help")
  /\ show_help' = TRUE
  /\ UNCHANGED <<input, phase, config, overridden, index, positional_count, current>>

HelpArgument ==
  /\ Is("help")
  /\ show_help' = TRUE
  /\ index' = index + 1
  /\ UNCHANGED <<input, phase, config, overridden, positional_count, current>>

OptionArgument ==
  /\ Is("option")
  /\ index < Len(input.args) /\ Accepts(Options[Argument], input.args[index + 1])
  /\ Override(Options[Argument], input.args[index + 1])
  /\ index' = index + 2
  /\ UNCHANGED <<input, phase, show_help, positional_count, current>>

\* require_argument finds none, or its value is refused.
OptionFails ==
  /\ Is("option")
  /\ index < Len(input.args) => ~Accepts(Options[Argument], input.args[index + 1])
  /\ Fail

UnknownOption == Is("unknown") /\ Fail

Positional == IF positional_count = 0 THEN "port" ELSE "worker_count"

PositionalArgument ==
  /\ Is("positional")
  /\ positional_count < 2 /\ Accepts(Positional, Argument)
  /\ Override(Positional, Argument)
  /\ positional_count' = positional_count + 1
  /\ index' = index + 1
  /\ UNCHANGED <<input, phase, show_help, current>>

PositionalFails ==
  /\ Is("positional")
  /\ positional_count < 2 => ~Accepts(Positional, Argument)
  /\ Fail

\* Help is given after all the arguments were read, and before anything else.
ArgumentsDone ==
  /\ phase = "arguments" /\ index > Len(input.args)
  /\ phase' = IF show_help THEN "help" ELSE "root"
  /\ UNCHANGED <<input, config, overridden, show_help, index, positional_count, current>>
-----------------------------------------------------------------------------
(* The repository root.                                                    *)

\* The path after parent_directory, or "" where that returns 0: just below a
\* drive.  The parent of "/" is "/".
parent_directory(path) == IF Above[path] \in Drives THEN "" ELSE Above[path]

\* The program's directory, or "" for a program that was found in the PATH.
resolve_program_directory == IF input.program \in Drives THEN "" ELSE input.program

resolve_repo_root ==
  /\ phase = "root"
  /\ IF config["repo_root"] # Unset
     THEN phase' = "paths" /\ UNCHANGED current
     ELSE phase' = "search" /\ current' = input.cwd
  /\ UNCHANGED <<input, config, overridden, show_help, index, positional_count>>

\* A test for the subdirectory alone; a mutant's body.
is_repo_root_Furnished(path) == path \in input.furnished

is_repo_root(path) == path \in input.roots

\* find_repo_root_from_start: the directory, or its parent next.  At "/" the
\* loop goes round without a change.
SearchHere ==
  /\ phase \in {"search", "search_program"}
  /\ current # "" /\ is_repo_root(current)
  /\ config' = [config EXCEPT !["repo_root"] = Text(current)]
  /\ phase' = "paths"
  /\ UNCHANGED <<input, overridden, show_help, index, positional_count, current>>

SearchAbove ==
  /\ phase \in {"search", "search_program"}
  /\ current # "" /\ ~is_repo_root(current)
  /\ current' = parent_directory(current)
  /\ UNCHANGED <<input, phase, config, overridden, show_help, index, positional_count>>

\* The search from the working directory has ended without a root; it goes on
\* from the program's directory, and after that without a root.
SearchFailed ==
  /\ phase \in {"search", "search_program"} /\ current = ""
  /\ IF phase = "search" /\ resolve_program_directory # ""
     THEN phase' = "search_program" /\ current' = resolve_program_directory
     ELSE phase' = "paths" /\ UNCHANGED current
  /\ UNCHANGED <<input, config, overridden, show_help, index, positional_count>>

\* Defaults for the directories that nobody has set.
derive_default_paths ==
  /\ phase = "paths"
  /\ IF config["repo_root"] = Unset
     THEN /\ phase' = IF {"schema_dir", "data_dir"} \subseteq overridden THEN "validate" ELSE "failed"
          /\ UNCHANGED config
     ELSE /\ phase' = "validate"
          /\ config' = [s \in Settings |->
               IF s \in {"schema_dir", "data_dir"} \ overridden THEN <<config["repo_root"][1], s>>
               ELSE config[s]]
  /\ UNCHANGED <<input, overridden, show_help, index, positional_count, current>>

\* A default directory exists where the root was furnished with it.
directory_exists(path) ==
  IF path[2] = "" THEN path[1] \in Directories ELSE path[1] \in input.furnished

ValidConfig ==
  /\ Number[config["port"][1]] \in 1 .. 65535
  /\ Number[config["worker_count"][1]] >= 1
  /\ directory_exists(config["schema_dir"]) /\ directory_exists(config["data_dir"])
  /\ config["repo_root"] # Unset => directory_exists(config["repo_root"])

validate_config ==
  /\ phase = "validate"
  /\ phase' = IF ValidConfig THEN "loaded" ELSE "failed"
  /\ UNCHANGED <<input, config, overridden, show_help, index, positional_count, current>>

\* server_main goes on: it starts the server, prints the usage or exits with 1.
Ended == phase \in {"loaded", "help", "failed"}
ServerMain == Ended /\ UNCHANGED vars

Load ==
  \/ GetWorkingDirectory \/ load_env_overrides
  \/ HelpArgument \/ OptionArgument \/ OptionFails \/ UnknownOption
  \/ PositionalArgument \/ PositionalFails \/ ArgumentsDone
  \/ resolve_repo_root \/ SearchHere \/ SearchAbove \/ SearchFailed
  \/ derive_default_paths \/ validate_config

Next == Load \/ NoWorkingDirectory \/ ServerMain

\* The thread of main runs.
Spec == Init /\ [][Next]_vars /\ WF_vars(Load)
-----------------------------------------------------------------------------
(* What was asked for, read off the command line as a whole.               *)

\* The texts between places k and i are options, and pair off as option and value.
PairsOff(k, i) ==
  /\ k = 0 \/ input.args[k] \notin DOMAIN Options
  /\ \A j \in k + 1 .. i - 1 : input.args[j] \in DOMAIN Options
  /\ (i - 1 - k) % 2 = 0

\* Places in argv that are not the value of the option before them.
Heads == {i \in 1 .. Len(input.args) : \E k \in 0 .. i - 1 : PairsOff(k, i)}

Positionals == {i \in Heads : input.args[i] \notin DOMAIN Options \cup Dashed}

GivenAt(setting) ==
  {i \in 2 .. Len(input.args) : i \notin Heads /\ Options[input.args[i - 1]] = setting}
  \cup {i \in Positionals :
          setting = IF \E j \in Positionals : j < i THEN "worker_count" ELSE "port"}

\* The last argument counts, then the environment; "" where nobody asks.
Asked(setting) ==
  IF GivenAt(setting) # {} THEN input.args[Max(GivenAt(setting))] ELSE input.env[setting]

(***************************************************************************)
(* What server_main starts the server with is what was asked for: for each *)
(* setting the last argument that gives it, as option or by position,      *)
(* before the environment, before the default; a directory nobody asked    *)
(* for is the one below the root in use.  In particular a value that looks *)
(* like an option is taken for neither.                                    *)
(***************************************************************************)
SettingsAsAsked ==
  phase = "loaded" =>
    /\ \A s \in Settings : Asked(s) # "" => config[s] = Text(Asked(s))
    /\ Asked("port") = "" => config["port"] = Text("8080")
    /\ Asked("worker_count") = "" => config["worker_count"] = Text("4")
    /\ \A s \in {"schema_dir", "data_dir"} : Asked(s) = "" => config[s] = <<config["repo_root"][1], s>>

\* The path and what lies above it: the least set with path and the parents of
\* all in it.
Ancestors(path) ==
  {d \in DOMAIN Above : \A S \in SUBSET DOMAIN Above :
     {path} \cap DOMAIN Above \subseteq S /\ (\A x \in S : Above[x] \in S) => d \in S}

(***************************************************************************)
(* A root that find_repo_root_from_start inferred lies above the working   *)
(* directory, or, only when no root but a drive's does, above the program, *)
(* and is the innermost of the roots there: a copy of the repository       *)
(* inside another one serves its own data.                                 *)
(***************************************************************************)
RootIsNearest ==
  phase = "loaded" /\ Asked("repo_root") = "" /\ config["repo_root"] # Unset =>
    LET root   == config["repo_root"][1]
        byCwd  == Ancestors(input.cwd) \cap input.roots
        byProg == Ancestors(input.program) \cap input.roots
        Innermost(roots) == root \in roots /\ roots \subseteq Ancestors(root)
    IN Innermost(byCwd) \/ (byCwd \subseteq Drives /\ Innermost(byProg))

\* The climb from path meets a root or the top of a drive, which has no parent.
SearchEnds(path) == Ancestors(path) \cap (input.roots \cup Drives) # {}

WayOut ==
  \/ Asked("repo_root") # ""
  \/ Ancestors(input.cwd) \cap (input.roots \ Drives) # {}
  \/ SearchEnds(input.cwd)
     /\ (resolve_program_directory # "" => SearchEnds(resolve_program_directory))

(***************************************************************************)
(* Loading comes to an end, with a configuration, a usage text or an       *)
(* error, whatever the arguments and the environment hold, provided a root *)
(* is given or lies above the working directory, or the search ends at a   *)
(* drive there and the one from the program's directory ends as well.      *)
(***************************************************************************)
LoadReturns == (phase = "start" /\ WayOut) ~> Ended

(***************************************************************************)
(* Loading comes to an end in every case: without any root it reports that *)
(* none could be inferred, or goes on without one when both directories    *)
(* were given.                                                             *)
(***************************************************************************)
LoadAlwaysReturns == <>Ended
=============================================================================
