----------------------------- MODULE MCOperator -----------------------------
(* Symmetry for checking Operator. *)
EXTENDS Operator, TLC

Symmetry ==
  Permutations(Commands) \union Permutations(Apps) \union Permutations(Identities)
    \union Permutations(Keys) \union Permutations(Items)
=============================================================================
