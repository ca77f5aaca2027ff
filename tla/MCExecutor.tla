----------------------------- MODULE MCExecutor -----------------------------
(* Instances of Executor for TLC.                                          *)
EXTENDS Executor, TLC, FiniteSetsExt

CONSTANTS r1, r2, r3, s1, s2, k1, x1, b1, w1, c1, f1

MCKind ==
  [t \in Targets |-> CASE t \in {r1, r2, r3} -> "registry"
                       [] t \in {s1, s2} -> "service"
                       [] t = k1 -> "task"
                       [] t = x1 -> "appx"
                       [] t = b1 -> "bcd"
                       [] t = w1 -> "power"
                       [] t = c1 -> "powershell"
                       [] t = f1 -> "file_rename"]

\* Two values of one key, and one in a key below it.
MCKey == [t \in {u \in Targets : MCKind[u] = "registry"} |-> IF t = r2 THEN "sub" ELSE "key"]
MCInside == [key |-> {"sub"}, sub |-> {}]

\* All values in one key.
MCOneKey == [t \in {u \in Targets : MCKind[u] = "registry"} |-> "key"]
MCFlat == [key |-> {}]

\* Four machines, which together have each value of each target.
MCValue ==
  (r1 :> <<"dword0",    "missing",  "text1",     "dword1">> @@
   r2 :> <<"dword0",    "text1",    "missing",   "dword1">> @@
   r3 :> <<"dword1",    "dword1",   "missing",   "dword0">> @@
   s2 :> <<"Manual",    "Disabled", "Disabled",  "Automatic">> @@
   b1 :> <<"off",       "missing",  "on",        "off">> @@
   w1 :> <<"off",       "on",       "off",       "on">> @@
   c1 :> <<"off",       "off",      "on",        "off">> @@
   x1 :> <<"installed", "missing",  "installed", "installed">> @@
   k1 :> <<"Ready",     "Disabled", "missing",   "Ready">> @@
   f1 :> <<"original",  "both",     "neither",   "renamed">>)
MCOrigins == {[t \in Targets |-> MCValue[t][i]] : i \in 1 .. 4}

\* Two values of one key, of which writing one erases the other; a value that is
\* guarded among changes that are not; kinds without a guard; a core service; a
\* value that another action changes too; and a manual action.
MCGoals ==
  [on    |-> (r1 :> "dword1" @@ r3 :> "dword0"),
   boot  |-> (r2 :> "dword1" @@ b1 :> "on" @@ c1 :> "on"),
   strip |-> (x1 :> "missing" @@ k1 :> "Disabled" @@ f1 :> "renamed"),
   tune  |-> (s2 :> "Automatic" @@ w1 :> "on"),
   off   |-> (r1 :> "dword0"),
   note  |-> (r1 :> "text1")]
MCActionIds == DOMAIN MCGoals

\* An action that writes one value, of a key that has another.
MCOneValueGoals == [on |-> (r1 :> "dword1")]

\* Actions on values that a snapshot can bring back, sharing each target.
MCFaithfulGoals ==
  [on  |-> (r1 :> "dword1" @@ s1 :> "Disabled" @@ b1 :> "on"),
   off |-> (r1 :> "dword0" @@ s1 :> "Manual" @@ f1 :> "renamed"),
   end |-> (b1 :> "off" @@ r2 :> "dword0" @@ r1 :> "dword1" @@ r3 :> "dword0")]

\* Every combination of values that a snapshot can bring back, but s1's
\* "Automatic", which is treated as "Manual" is, and one value of r3.
MCFaithfulOrigins ==
  LET values(t) == CASE t = r2 -> {"missing", "dword0"}
                     [] t = r3 -> {"dword1"}
                     [] t = s1 -> {"missing", "Manual", "Disabled"}
                     [] OTHER  -> {v \in ValuesOf[MCKind[t]] : Faithful(MCKind[t], v)}
      extend(t, ms) == {m @@ (t :> v) : m \in ms, v \in values(t)}
  IN FoldSet(extend, {<<>>}, Targets)
=============================================================================
