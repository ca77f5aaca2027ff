----------------------------- MODULE RemoteCalls -----------------------------
(***************************************************************************)
(* What the desktop's service bridge promises the user interface: a call   *)
(* gets one answer; a result is the result of this very call; the service  *)
(* executes a call at most once, and the calls it executes in the order in *)
(* which the bridge took them.  An error says nothing: the call may have   *)
(* been executed, may still be, or never will be.                          *)
(***************************************************************************)
EXTENDS Integers, Sequences

CONSTANT Calls

VARIABLES
  taken,    \* the calls in the order in which the bridge took them
  ran,      \* how many of the taken calls the service has looked at, executing it or not
  effects,  \* the calls that were executed
  outcome   \* per call: "open", "result" or "error"

vars == <<taken, ran, effects, outcome>>

Init == taken = <<>> /\ ran = 0 /\ effects = {} /\ outcome = [c \in Calls |-> "open"]

Take(c) ==
  /\ outcome[c] = "open"
  /\ \A i \in DOMAIN taken : taken[i] # c
  /\ taken' = Append(taken, c)
  /\ UNCHANGED <<ran, effects, outcome>>

\* The next one to be executed; those before it never will be.
Execute(i) ==
  /\ i \in DOMAIN taken /\ i > ran
  /\ ran' = i /\ effects' = effects \cup {taken[i]}
  /\ UNCHANGED <<taken, outcome>>

Answer(c) ==
  /\ outcome[c] = "open"
  /\ \/ c \in effects /\ outcome' = [outcome EXCEPT ![c] = "result"]
     \/ outcome' = [outcome EXCEPT ![c] = "error"]
  /\ UNCHANGED <<taken, ran, effects>>

Next ==
  \/ \E c \in Calls : Take(c) \/ Answer(c)
  \/ \E i \in DOMAIN taken : Execute(i)

Spec == Init /\ [][Next]_vars
=============================================================================
