----------------------------- MODULE MCTenancy -----------------------------
(* Tickets of two environments and symmetry for checking Tenancy with TLC. *)
EXTENDS Tenancy, TLC

CONSTANTS t1, t2, t3, e1, e2

\* One ticket is for another environment than the rest.
MCTicketFor(t) == IF t = t3 THEN e2 ELSE e1

\* Users and tickets would be symmetric too, but the fewer permutations cost less.
Symmetry == Permutations(Changes) \union Permutations(Requests) \union Permutations(Installations)
=============================================================================
