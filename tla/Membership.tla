----------------------------- MODULE Membership -----------------------------
(***************************************************************************)
(* The members of one organization: owners add, change and remove them     *)
(* (/v1/members in cloud/server.mjs), and the audit log records it.        *)
(*                                                                         *)
(* A request is a READ COMMITTED transaction, taken statement by           *)
(* statement.  Changes and removals lock the organization's row; an        *)
(* addition holds it against them through its foreign key.  Numbers of     *)
(* audit entries come from a sequence, which is no part of a transaction.  *)
(***************************************************************************)
EXTENDS Naturals, FiniteSets

CONSTANTS
  Users,
  Creator,   \* the user who created the organization
  Roles,     \* the roles of members explored: "Owner" and others
  Changes,  \* requests of owners, each a transaction
  NoChange

NoRole == "removed"

ASSUME MembershipAssumption ==
  /\ Creator \in Users /\ NoChange \notin Users \union Changes
  /\ "Owner" \in Roles /\ NoRole \notin Roles

Kinds == {"add", "change", "remove"}

VARIABLES
  member,   \* the role of each user, NoRole without one
  change,       \* the place of each request and what it is to do
  entry,    \* the number of the audit entry each request has inserted
  locked,   \* the request that holds the organization FOR UPDATE
  audit,    \* the entries of the audit log: number, user and role
  sequence  \* the numbers given to entries so far

memberVars == <<member, change, entry, locked, audit, sequence>>

Stages == {"new", "authorized", "locked", "decided", "written", "recorded", "ended"}

MemberInit ==
  /\ member = [u \in Users |-> IF u = Creator THEN "Owner" ELSE NoRole]
  /\ change = [r \in Changes |-> [pc |-> "new", kind |-> "add", user |-> Creator, role |-> "Owner"]]
  /\ entry = [r \in Changes |-> 0]
  /\ locked = NoChange
  /\ audit = {} /\ sequence = 0

-----------------------------------------------------------------------------
Owners == {u \in Users : member[u] = "Owner"}

\* Additions that are not committed: they share the organization's row.
Adding == {r \in Changes : change[r].kind = "add" /\ change[r].pc \in {"written", "recorded"}}

Proceed(r, pc) == change' = [change EXCEPT ![r].pc = pc]

\* A request ends, by its commit or by being rolled back.
End(r) ==
  /\ Proceed(r, "ended")
  /\ locked' = IF locked = r THEN NoChange ELSE locked

\* A refused or broken request leaves nothing.
GiveUp(r) == End(r) /\ UNCHANGED <<member, entry, audit, sequence>>

\* An owner's request is authorized by the role the owner has now; to remove a user
\* leaves NoRole.
AuthorizeChange(r, kind, u, role) ==
  /\ change[r].pc = "new"
  /\ kind = "remove" <=> role = NoRole
  /\ Owners # {}
  /\ change' = [change EXCEPT ![r] = [pc |-> "authorized", kind |-> kind, user |-> u, role |-> role]]
  /\ UNCHANGED <<member, entry, locked, audit, sequence>>

\* INSERT: waits for another addition of the user and for whoever has locked the
\* organization; a user who is a member by then cannot be added.
Add(r) ==
  /\ change[r].pc = "authorized" /\ change[r].kind = "add"
  /\ locked = NoChange
  /\ \A q \in Adding : change[q].user # change[r].user
  /\ IF member[change[r].user] = NoRole
     THEN Proceed(r, "written") /\ UNCHANGED <<member, entry, locked, audit, sequence>>
     ELSE GiveUp(r)

\* Faulty variant: the organization is not locked.
LockNothing(r) == Proceed(r, "locked") /\ UNCHANGED locked

\* SELECT ... FOR UPDATE
LockOrganization(r) ==
  /\ locked = NoChange /\ Adding = {}
  /\ Proceed(r, "locked")
  /\ locked' = r

Lock(r) ==
  /\ change[r].pc = "authorized" /\ change[r].kind # "add"
  /\ LockOrganization(r)
  /\ UNCHANGED <<member, entry, audit, sequence>>

\* The request takes a user's ownership.
LosesOwner(r) == member[change[r].user] = "Owner" /\ change[r].role # "Owner"

\* The user must be a member, and not the last owner to lose that role.
Decide(r) ==
  /\ change[r].pc = "locked"
  /\ IF member[change[r].user] # NoRole /\ (LosesOwner(r) => \E u \in Owners : u # change[r].user)
     THEN Proceed(r, "decided") /\ UNCHANGED <<member, entry, locked, audit, sequence>>
     ELSE GiveUp(r)

Write(r) ==
  /\ change[r].pc = "decided"
  /\ Proceed(r, "written")
  /\ UNCHANGED <<member, entry, locked, audit, sequence>>

\* The audit entry takes its number when it is inserted.
Record(r) ==
  /\ change[r].pc = "written"
  /\ Proceed(r, "recorded")
  /\ entry' = [entry EXCEPT ![r] = sequence + 1]
  /\ sequence' = sequence + 1
  /\ UNCHANGED <<member, locked, audit>>

\* Faulty variant: the entry names the role the user had.
EntryOfFormer(r) == [number |-> entry[r], user |-> change[r].user, role |-> member[change[r].user]]

Entry(r) == [number |-> entry[r], user |-> change[r].user, role |-> change[r].role]

CommitChange(r) ==
  /\ change[r].pc = "recorded"
  /\ member' = [member EXCEPT ![change[r].user] = change[r].role]
  /\ audit' = audit \union {Entry(r)}
  /\ End(r)
  /\ UNCHANGED <<entry, sequence>>

\* The connection or the process is lost before the commit.
BreakChange(r) == change[r].pc \notin {"new", "ended"} /\ GiveUp(r)

-----------------------------------------------------------------------------
MemberNext ==
  \E r \in Changes :
    \/ \E kind \in Kinds, u \in Users, role \in Roles \union {NoRole} : AuthorizeChange(r, kind, u, role)
    \/ Add(r) \/ Lock(r) \/ Decide(r) \/ Write(r) \/ Record(r) \/ CommitChange(r)
    \/ BreakChange(r)

MemberSpec == MemberInit /\ [][MemberNext]_memberVars

-----------------------------------------------------------------------------
(* Properties *)

\* Roles, requests, entries and the lock keep their types; a request holds the
\* organization exactly between its lock and its end.
MemberTypeOK ==
  /\ member \in [Users -> Roles \union {NoRole}]
  /\ change \in [Changes -> [pc: Stages, kind: Kinds, user: Users, role: Roles \union {NoRole}]]
  /\ entry \in [Changes -> Nat]
  /\ locked \in Changes \union {NoChange}
  /\ audit \subseteq [number: Nat, user: Users, role: Roles \union {NoRole}]
  /\ sequence \in Nat
  /\ \A r \in Changes :
       change[r].pc = "locked" \/ change[r].pc = "decided"
         \/ (change[r].kind # "add" /\ change[r].pc \in {"written", "recorded"})
       <=> locked = r

\* An organization keeps an owner, whoever removes or demotes whom at the same time.
KeepsOwner == Owners # {}

\* The audit log tells the members: for whoever was added, changed or removed, the entry
\* with the highest number names the present role, although numbers are given before
\* transactions commit and some never do.
AuditTells ==
  \A u \in Users :
    LET entries == {e \in audit : e.user = u} IN
    \/ entries = {} /\ member[u] = IF u = Creator THEN "Owner" ELSE NoRole
    \/ \E e \in entries : e.role = member[u] /\ \A d \in entries : d.number <= e.number
=============================================================================
