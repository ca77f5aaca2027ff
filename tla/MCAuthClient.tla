---------------------------- MODULE MCAuthClient ----------------------------
(* Instances of AuthClient for TLC: two calls at a time; one call at a time *)
(* with lost messages, the application being closed twice; and both again   *)
(* with fewer pairs of tokens and sign-ins that are ended from elsewhere.   *)
EXTENDS AuthClient

MCSettings ==
  { [together |-> 2, faults |-> FALSE, elsewhere |-> FALSE, launches |-> 0, spare |-> 0],
    [together |-> 1, faults |-> TRUE, elsewhere |-> FALSE, launches |-> 2, spare |-> 0],
    [together |-> 2, faults |-> FALSE, elsewhere |-> TRUE, launches |-> 0, spare |-> 1],
    [together |-> 1, faults |-> TRUE, elsewhere |-> TRUE, launches |-> 2, spare |-> 1] }
=============================================================================
