------------------------------ MODULE MCLedger ------------------------------
(* Instances of Ledger for TLC.                                            *)
EXTENDS Ledger, TLC

\* Every list of one or two actions, the list that names one twice included.
MCBatches == {<<a>> : a \in Actions} \cup {<<a, b>> : a, b \in Actions}

\* A result that is a completion and one that is not (and that the row keeps).
MCResults == {"success", "skipped"}

Symmetry == Permutations(Plans) \cup Permutations(Actions)
=============================================================================
