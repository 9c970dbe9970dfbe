-------------------------- MODULE MCReleaseControl --------------------------
(* Model values and symmetry for checking ReleaseControl with TLC. *)
EXTENDS ReleaseControl, TLC

Symmetry == Permutations(Releases) \union Permutations(Environments)
            \union Permutations(Operations) \union Permutations(Workers)
=============================================================================
