--------------------------- MODULE MCAccountControl ---------------------------
(* Small instances of AccountControl.                                         *)
EXTENDS AccountControl, TLC

CONSTANTS a1, a2, t1, t2

\* Every operation but the deletion of an account.
AllButDelete == Op \ {"delete"}

Tasks == Permutations({t1, t2})
=============================================================================
