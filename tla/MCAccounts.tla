------------------------------ MODULE MCAccounts ------------------------------
(* Instances of Accounts for TLC.                                          *)
EXTENDS Accounts, TLC

CONSTANTS u1, u2, u3, e1, e2, g, h, a

\* Two identities of Google with their addresses, and one of Apple without.
MCProvider == (g :> "google") @@ (h :> "google") @@ (a :> "apple")
MCMail == (g :> e1) @@ (h :> e2) @@ (a :> None)

Once(kinds) == [k \in kinds |-> 1]

\* In turn: everything an account can do to its ways to sign in, one request
\* after the other; two requests with refresh tokens; two requests that sign in
\* and delete, with a restart; a registration of a device beside anything else.
MCSettings ==
  {[allow |-> Once({"register", "login", "oauth", "link", "unlink", "email", "password", "delete"}),
    accounts |-> 3, together |-> 1, tokens |-> {}, restart |-> FALSE],
   [allow |-> [refresh |-> 2, register |-> 1, login |-> 1, logout |-> 1, password |-> 1, delete |-> 1],
    accounts |-> 2, together |-> 2, tokens |-> 1 .. 3, restart |-> FALSE],
   [allow |-> [oauth |-> 2, register |-> 2, email |-> 1, delete |-> 1, adminDelete |-> 1],
    accounts |-> 2, together |-> 2, tokens |-> {}, restart |-> TRUE],
   [allow |-> Once({"register", "device", "revoke", "delete"}),
    accounts |-> 1, together |-> 2, tokens |-> {}, restart |-> FALSE],
   [allow |-> Once({"register", "validate", "revoke", "delete"}),
    accounts |-> 1, together |-> 2, tokens |-> {}, restart |-> FALSE]}

Symmetry == Permutations(Users) \cup Permutations(Devices) \cup Permutations(Requests)
=============================================================================
