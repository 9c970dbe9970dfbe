------------------------------ MODULE Tenancy ------------------------------
(***************************************************************************)
(* One organization's members and installations together.  Changes of      *)
(* members and enrollments are transactions on the same database: both     *)
(* lock the organization's row, and what they insert refers to it, so each *)
(* waits for what the other holds of it.                                   *)
(***************************************************************************)
EXTENDS Membership, Enrollment

CONSTANT MaxMixed  \* bound: changes, tickets and enrollments, where there are changes and others

ASSUME TenancyAssumption == MaxMixed \in Nat

tenancyVars == <<memberVars, vars>>

TenancyInit == MemberInit /\ Init

-----------------------------------------------------------------------------
(* The organization's row *)

ChangesBegun == {c \in Changes : change[c].pc # "new"}

TicketsIssued == {t \in Tickets : ticket[t] # "none"}

\* There may be one more change, ticket or enrollment.
MayMix ==
  Cardinality(ChangesBegun) + Cardinality(TicketsIssued)
    + Cardinality({r \in Requests : tx[r].pc # "new"}) < MaxMixed

\* Enrollments that hold the row FOR UPDATE, for the quota they are counted against.
Counting == {r \in Requests : Organization \in tx[r].locks}

\* Enrollments that have inserted a credential, which refers to the row.
Minted == {r \in Requests : tx[r].pc = "minted"}

\* No transaction holds the row FOR UPDATE: what refers to it can be inserted.
Referable == locked = NoChange /\ Counting = {}

-----------------------------------------------------------------------------
(* Steps that wait for the row, and the others *)

\* A change of members, as the enrollments let it proceed.
ChangeStep(c) ==
  \/ /\ TicketsIssued = {} \/ MayMix
     /\ \E kind \in Kinds, u \in Users, role \in Roles \union {NoRole} : AuthorizeChange(c, kind, u, role)
  \/ Referable /\ Add(c)
  \/ Counting = {} /\ Minted = {} /\ Lock(c)
  \/ Decide(c) \/ Write(c) \/ Record(c) \/ CommitChange(c) \/ BreakChange(c)

\* An enrollment, as the changes of members let it proceed: the quota's lock waits for
\* whoever holds the row, the new credential for whoever holds it FOR UPDATE.
EnrollStep(r) ==
  \/ /\ ChangesBegun = {} \/ MayMix
     /\ \E t \in Tickets, i \in Installations : Authorize(r, t, i)
  \/ (hosted => locked = NoChange /\ Adding = {}) /\ Admit(r)
  \/ locked = NoChange /\ Mint(r)
  \/ CheckInstallation(r) \/ Consume(r) \/ Register(r) \/ Supersede(r) \/ Commit(r)
  \/ Break(r) \/ DetectDeadlock(r)

\* A new ticket refers to the organization; every revocation is audited, which does too.
TicketStep ==
  /\ Referable
  /\ \/ (ChangesBegun = {} \/ MayMix) /\ \E t \in Tickets : Issue(t)
     \/ \E t \in Tickets : WithdrawTicket(t)
     \/ \E c \in Requests : RevokeCredential(c)

TenancyNext ==
  \/ (\E c \in Changes : ChangeStep(c)) /\ UNCHANGED vars
  \/ ((\E r \in Requests : EnrollStep(r)) \/ TicketStep) /\ UNCHANGED memberVars

TenancySpec == TenancyInit /\ [][TenancyNext]_tenancyVars
=============================================================================
