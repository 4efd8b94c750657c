-------------------------------- MODULE ConfigLoad --------------------------------
(*******************************************************************************)
(* How a C++ program comes to its settings: it reads a JSON file into a record *)
(* that nothing has initialised, member by member, and a member that is not    *)
(* there or has another type throws.  LoadWsConfig, LoadThreadTransConfig and  *)
(* load_benchmark_config differ in their members only.                         *)
(*                                                                             *)
(* Of the file the loader can tell apart whether it is there, comes in full,   *)
(* is JSON, is an object, and which members are good.  A member of a JSON      *)
(* document that is no object is an assertion of the library.                  *)
(*******************************************************************************)
EXTENDS Integers, Sequences, Functions

CONSTANT
  Programs    \* the programs that are started

ASSUME ProgramsAssumption ==
  Programs \subseteq {"c_malloc_free", "time", "ws_trans_server", "ws_trans_client",
                     "thread_trans"}

VARIABLES
  program,    \* the program
  file,       \* its configuration file
  process,    \* what has become of the process
  at,         \* the part of the loader that comes next
  key,        \* the next member
  config,     \* the settings that were assigned
  ret,        \* ret of the loader and of main
  held        \* of fp and buf, what the loader has to release

configVars == <<program, file, process, at, key, config, ret, held>>

BenchmarkKeys == <<"loop", "cnt_per_loop", "loop_interval_ms", "report_step">>

Keys ==
  CASE program \in {"c_malloc_free", "time"} -> BenchmarkKeys
    [] program \in {"ws_trans_server", "ws_trans_client"} ->
         <<"host", "port", "url">> \o BenchmarkKeys \o <<"dir">>
    \* Nothing calls LoadThreadTransConfig any more.
    [] program = "thread_trans" -> BenchmarkKeys \o <<"single_thread_write", "spin_read">>

Files ==
  [there : BOOLEAN, whole : BOOLEAN, root : {"object", "other", "broken"},
   good : SUBSET Range(Keys)]

ConfigType ==
  /\ program \in Programs
  /\ file \in Files
  /\ process \in {"loading", "loaded", "started", "exited", "aborted", "failed"}
  /\ at \in {"open", "read", "parse", "member", "cleanUp", "returned"}
  /\ key \in 1 .. Len(Keys) + 1
  /\ config \subseteq Range(Keys)
  /\ ret \in BOOLEAN
  /\ held \subseteq {"fp", "buf"}

ConfigInit ==
  /\ program \in Programs
  /\ file \in Files
  /\ process = "loading"
  /\ at = "open"
  /\ key = 1
  /\ config = {}
  /\ ret = TRUE
  /\ held = {}

--------------------------------------------------------------------------------

Open ==
  /\ at = "open"
  /\ IF file.there
     THEN at' = "read" /\ held' = {"fp"} /\ UNCHANGED ret
     ELSE at' = "returned" /\ ret' = FALSE /\ UNCHANGED held
  /\ UNCHANGED <<program, file, process, key, config>>

\* Fault: the exception is caught and the loader goes on.
ThrowUnseen == at' = "cleanUp" /\ UNCHANGED ret

\* An exception and its handler.
Throw == at' = "cleanUp" /\ ret' = FALSE

ReadFile ==
  /\ at = "read"
  /\ held' = held \cup {"buf"}
  /\ IF file.whole THEN at' = "parse" /\ UNCHANGED ret ELSE Throw
  /\ UNCHANGED <<program, file, process, key, config>>

Parse ==
  /\ at = "parse"
  /\ IF file.root = "broken" THEN Throw ELSE at' = "member" /\ UNCHANGED ret
  /\ UNCHANGED <<program, file, process, key, config, held>>

AssertObject ==
  /\ at = "member"
  /\ file.root = "other"
  /\ process = "loading"
  /\ process' = "aborted"
  /\ UNCHANGED <<program, file, at, key, config, ret, held>>

Member ==
  /\ at = "member"
  /\ file.root = "object"
  /\ IF Keys[key] \in file.good
     THEN /\ config' = config \cup {Keys[key]}
          /\ key' = key + 1
          /\ at' = IF key = Len(Keys) THEN "cleanUp" ELSE "member"
          /\ UNCHANGED ret
     ELSE Throw /\ UNCHANGED <<key, config>>
  /\ UNCHANGED <<program, file, process, held>>

CleanUp ==
  /\ at = "cleanUp"
  /\ held' = {}
  /\ at' = "returned"
  /\ UNCHANGED <<program, file, process, key, config, ret>>

\* if (!ret) return 1;
CheckRet ==
  /\ at = "returned"
  /\ process = "loading"
  /\ process' = IF ret THEN "loaded" ELSE "exited"
  /\ UNCHANGED <<program, file, at, key, config, ret, held>>

Load == Open \/ ReadFile \/ Parse \/ AssertObject \/ Member \/ CleanUp \/ CheckRet

--------------------------------------------------------------------------------
(* Properties.                                                                 *)

GoodFile ==
  file.there /\ file.whole /\ file.root = "object" /\ file.good = Range(Keys)

\* However many members were assigned before one threw, a program goes on only
\* with all of its settings, and it does go on with a good file.
SettingsComplete ==
  /\ process \in {"loaded", "started"} => config = Range(Keys) /\ GoodFile
  /\ process = "exited" => ~GoodFile

\* The settings are assigned in their order, from the file.
SettingsInOrder == config = {Keys[i] : i \in 1 .. key - 1} /\ config \subseteq file.good

\* Every way out of the loader releases what it holds.
NothingLeaked == at = "returned" => held = {}

\* The file, the record and what the loader holds.
ConfigInv == ConfigType /\ SettingsComplete /\ SettingsInOrder /\ NothingLeaked

================================================================================
