-------------------------- MODULE ReversibleActions --------------------------
(***************************************************************************)
(* What the executor and rollback.rs promise together: an action changes   *)
(* the machine as a whole or not at all, and undoing it puts back the      *)
(* values its targets had just before it.  Writing one target may erase    *)
(* others, of the same action or of none.                                  *)
(***************************************************************************)
EXTENDS Integers, Sequences

CONSTANTS Targets, Origins, ActionIds,
          Effect,     \* per action, for each of its targets: new value by old value
          Erases,     \* per action, for each of its targets: what writing it erases
          Record,     \* per action, for each target that it records: what undoing it
                      \* puts back by old value, or Unlisted
          Unlisted

VARIABLES
  state,   \* the machine, between requests
  saved    \* per action taken so far: what undoing it puts back

vars == <<state, saved>>

Init == state \in Origins /\ saved = <<>>

Save(a) ==
  saved' = Append(saved, [t \in Targets |-> IF t \in DOMAIN Record[a] THEN Record[a][t][state[t]]
                                            ELSE Unlisted])

Erased(a, written) == UNION {Erases[a][t] : t \in written}

\* The action was applied to every target it has; of those that erase each
\* other, some are left.
Commit(a) ==
  /\ Save(a)
  /\ \E kept \in SUBSET DOMAIN Effect[a] :
       /\ DOMAIN Effect[a] \subseteq kept \cup Erased(a, kept)
       /\ state' = [t \in Targets |-> IF t \in kept THEN Effect[a][t][state[t]]
                                      ELSE IF t \in Erased(a, kept) THEN "missing" ELSE state[t]]

\* The action failed and left nothing behind but its undo record and what it
\* may have erased without recording it.
Abort(a) ==
  /\ Save(a)
  /\ \E gone \in SUBSET (Erased(a, DOMAIN Effect[a]) \ DOMAIN Record[a]) :
       state' = [t \in Targets |-> IF t \in gone THEN "missing" ELSE state[t]]

Undo(i) ==
  /\ state' = [t \in Targets |-> IF saved[i][t] = Unlisted THEN state[t] ELSE saved[i][t]]
  /\ UNCHANGED saved

Next ==
  \/ \E a \in ActionIds : Commit(a) \/ Abort(a)
  \/ \E i \in DOMAIN saved : Undo(i)

Spec == Init /\ [][Next]_vars
=============================================================================
