----------------------------- MODULE Mutations -----------------------------
(***************************************************************************)
(* What one change of an action does to the thing it changes: how the      *)
(* executor (src/services/os-service/src/executor.rs) reads the value      *)
(* before the change, how it applies the change, and how rollback.rs puts  *)
(* back what it had read.  Each of the eight kinds of change goes through  *)
(* a PowerShell script of its own; its effect is modelled on the few       *)
(* values that the scripts tell apart.                                     *)
(***************************************************************************)

\* The values a target can have.  "dword0" and "dword1" are registry numbers,
\* "text1" is the registry string "1".  A file rename is one target, whose
\* value says which of its two files exist: the source only ("original"), the
\* target only ("renamed"), "both" or "neither".  What a PowerShell command
\* does is "on" once it has run.
ValuesOf ==
  [registry    |-> {"missing", "dword0", "dword1", "text1"},
   service     |-> {"missing", "Automatic", "Manual", "Disabled"},
   task        |-> {"missing", "Ready", "Disabled"},
   appx        |-> {"missing", "installed"},
   bcd         |-> {"missing", "off", "on"},
   power       |-> {"off", "on"},
   file_rename |-> {"original", "renamed", "both", "neither"},
   powershell  |-> {"off", "on"}]

Kinds == DOMAIN ValuesOf
Values == UNION {ValuesOf[kind] : kind \in Kinds}

\* The values an action of a playbook can ask for.
GoalsOf ==
  [registry    |-> {"dword0", "dword1", "text1"},
   service     |-> {"Automatic", "Manual", "Disabled"},
   task        |-> {"Disabled"},
   appx        |-> {"missing"},
   bcd         |-> {"off", "on"},
   power       |-> {"off", "on"},
   file_rename |-> {"renamed"},
   powershell  |-> {"on"}]

None == "none"                      \* previous_value: None

\* Phase 1.  A probe that fails and a value that is not there both read as
\* None; a registry string of digits reads as a number; a task and a package
\* are not read at all.  Nothing is captured for a PowerShell command.
Probed == {"registry", "service", "bcd", "power"}
Captured(kind, v, read) ==
  CASE kind = "task"        -> "Ready"
    [] kind = "appx"        -> "installed"
    [] kind = "file_rename" -> v
    [] kind \in Probed      ->
         IF ~read \/ v = "missing" THEN None ELSE IF v = "text1" THEN "dword1" ELSE v

\* Phase 3.  The guards is_shell_coupled_package, is_protected_registry_target
\* and is_protected_service exist for these three kinds.
Guarded == {"appx", "registry", "service"}

\* Mutant: is_protected_registry_target is not asked.
SkipsUnguarded(kind, v, goal, protected) ==
  \/ protected /\ kind \in Guarded \ {"registry"}
  \/ kind \in {"appx", "service"} /\ v = "missing"
  \/ kind = "service" /\ v = goal /\ goal # "Automatic"

\* The change is counted as skipped.  (Windows reports an automatic service
\* as "Auto", so that one never counts as already configured.)
Skips(kind, v, goal, protected) ==
  \/ protected /\ kind \in Guarded
  \/ kind \in {"appx", "service"} /\ v = "missing"
  \/ kind = "service" /\ v = goal /\ goal # "Automatic"

\* The value after the change was reported as done.
Applied(kind, v, goal) ==
  IF \/ kind = "task" /\ v = "missing"
     \/ kind = "file_rename" /\ v # "original"
  THEN v ELSE goal

\* Restoring what was captured, c, over the present value v: Windows refuses,
\* or the code itself does.
RestoreRefused(kind, c, v) ==
  \/ kind \in {"service", "task"} /\ v = "missing"
  \/ kind = "bcd" /\ c = None /\ v = "missing"
  \/ kind = "file_rename" /\ c = "both"

\* Mutant: an absent previous value is written back like any other.
RestoredVerbatim(kind, c, v) == IF kind \in {"appx", "power", "file_rename"} THEN v ELSE c

\* The value after a restore that was reported as done: a package is only
\* noted, and a power value was captured as a number where restore_power
\* expects a string, so that it does nothing.
Restored(kind, c, v) ==
  CASE kind \in {"registry", "bcd"} -> IF c = None THEN "missing" ELSE c
    [] kind = "service"             -> IF c = None THEN "Manual" ELSE c
    [] kind = "task"                -> "Ready"
    [] kind \in {"appx", "power"}   -> v
    [] kind = "file_rename"         ->
         IF c = "original" /\ v = "renamed" THEN "original" ELSE v

AfterRestore(kind, c, v) == IF RestoreRefused(kind, c, v) THEN v ELSE Restored(kind, c, v)

\* A previous value that a snapshot can bring back.
Faithful(kind, v) ==
  /\ kind # "power" /\ kind # "powershell"
  /\ kind = "registry" => v # "text1"
  /\ kind = "task" => v # "Disabled"
  /\ kind = "appx" => v = "missing"

\* The values a target can come to have, through the executor, that had the
\* value o: no script creates a service, a task or a package, and a rename
\* changes only a source without a target.
Reachable(kind, o) ==
  IF \/ kind \in {"service", "task", "appx"} /\ o = "missing"
     \/ kind = "file_rename" /\ o # "original"
  THEN {o}
  ELSE IF kind \in {"service", "task"} THEN ValuesOf[kind] \ {"missing"}
  ELSE IF kind = "file_rename" THEN {"original", "renamed"}
  ELSE ValuesOf[kind]

=============================================================================
