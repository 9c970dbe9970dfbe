-------------------------- MODULE MembershipProofs --------------------------
(***************************************************************************)
(* For any users and requests: an organization keeps an owner, and the     *)
(* audit log tells its members.                                            *)
(***************************************************************************)
EXTENDS Membership, TLAPS

\* Changes that hold the organization's row against each other.
Holding(r) ==
  \/ change[r].pc \in {"locked", "decided"}
  \/ change[r].kind # "add" /\ change[r].pc \in {"written", "recorded"}

\* Additions share the row, each for a user who is no member yet.
LockInv ==
  /\ \A r \in Changes : change[r].pc \in {"locked", "decided"} => change[r].kind # "add"
  /\ locked # NoChange => Adding = {}
  /\ \A r \in Adding : member[change[r].user] = NoRole
  /\ \A r, q \in Adding : change[r].user = change[q].user => r = q

\* What a request has decided on stays so until it commits.
DecisionInv ==
  \A r \in Changes :
    Holding(r) /\ change[r].pc # "locked" => (LosesOwner(r) => \E u \in Owners : u # change[r].user)

\* A number that has been taken is higher than those of the user's committed entries.
NumberInv ==
  /\ \A e \in audit : e.number <= sequence
  /\ \A r \in Changes : change[r].pc = "recorded" =>
       /\ entry[r] <= sequence
       /\ \A e \in audit : e.user = change[r].user => e.number < entry[r]

MembershipInv == MemberTypeOK /\ LockInv /\ DecisionInv /\ NumberInv /\ KeepsOwner /\ AuditTells

\* Two requests that have written are about different users, or one of them is the other.
LEMMA WritersAreApart ==
  ASSUME MemberTypeOK, LockInv,
         NEW r \in Changes, change[r].pc \in {"written", "recorded"},
         NEW q \in Changes, change[q].pc \in {"written", "recorded"}, q # r
  PROVE  r \in Adding /\ q \in Adding /\ change[q].user # change[r].user
  <1>1. NoChange \notin Changes
    BY MembershipAssumption
  <1>2. CASE change[r].kind = "add" /\ change[q].kind = "add"
    BY <1>2 DEF LockInv, Adding
  <1>3. CASE change[r].kind # "add"
    <2>1. locked = r /\ r # NoChange
      BY <1>1, <1>3 DEF MemberTypeOK
    <2>2. change[q].kind = "add"
      BY <2>1 DEF MemberTypeOK
    <2> QED
      BY <2>1, <2>2 DEF LockInv, Adding
  <1>4. CASE change[q].kind # "add"
    <2>1. locked = q /\ q # NoChange
      BY <1>1, <1>4 DEF MemberTypeOK
    <2>2. change[r].kind = "add"
      BY <2>1 DEF MemberTypeOK
    <2> QED
      BY <2>1, <2>2 DEF LockInv, Adding
  <1> QED
    BY <1>2, <1>3, <1>4

LEMMA InitInv == MemberInit => MembershipInv
  <1> SUFFICES ASSUME MemberInit PROVE MembershipInv
    OBVIOUS
  <1> USE MembershipAssumption
  <1>1. MemberTypeOK
    BY DEF MemberInit, MemberTypeOK, NoRole, Kinds, Stages
  <1>2. LockInv
    BY DEF MemberInit, LockInv, Adding
  <1>3. DecisionInv
    BY DEF MemberInit, DecisionInv, Holding
  <1>4. NumberInv
    BY DEF MemberInit, NumberInv
  <1>5. KeepsOwner
    BY DEF MemberInit, KeepsOwner, Owners
  <1>6. AuditTells
    BY DEF MemberInit, AuditTells
  <1> QED
    BY <1>1, <1>2, <1>3, <1>4, <1>5, <1>6 DEF MembershipInv

\* A request that ends without a commit leaves the tables, and only lets go of its lock.
LEMMA RefuseKeeps ==
  ASSUME MembershipInv, NEW r \in Changes, change[r].pc # "ended", GiveUp(r)
  PROVE  MembershipInv'
  <1> USE DEF GiveUp, End, Proceed
  <1>1. MemberTypeOK'
    BY MembershipAssumption DEF MembershipInv, MemberTypeOK, Stages, Kinds
  <1>2. Adding' \subseteq Adding
    BY DEF MembershipInv, MemberTypeOK, Adding
  <1>3. \A q \in Changes : change'[q].user = change[q].user /\ change'[q].kind = change[q].kind
    BY DEF MembershipInv, MemberTypeOK
  <1>4. LockInv'
    BY <1>2, <1>3 DEF MembershipInv, MemberTypeOK, LockInv
  <1>5. DecisionInv'
    BY DEF MembershipInv, MemberTypeOK, DecisionInv, Holding, LosesOwner, Owners
  <1>6. NumberInv'
    BY DEF MembershipInv, MemberTypeOK, NumberInv
  <1>7. KeepsOwner' /\ AuditTells'
    BY DEF MembershipInv, KeepsOwner, Owners, AuditTells
  <1> QED
    BY <1>1, <1>4, <1>5, <1>6, <1>7 DEF MembershipInv

LEMMA AuthorizeKeeps ==
  ASSUME MembershipInv, NEW r \in Changes,
         NEW kind \in Kinds, NEW u \in Users, NEW role \in Roles \union {NoRole}, AuthorizeChange(r, kind, u, role)
  PROVE  MembershipInv'
  <1> USE DEF AuthorizeChange
  <1>1. MemberTypeOK'
    BY MembershipAssumption DEF MembershipInv, MemberTypeOK, Stages
  <1>2. Adding' = Adding /\ \A q \in Adding : change'[q] = change[q]
    BY DEF MembershipInv, MemberTypeOK, Adding
  <1>3. LockInv'
    BY <1>2 DEF MembershipInv, MemberTypeOK, LockInv
  <1>4. DecisionInv'
    BY DEF MembershipInv, MemberTypeOK, DecisionInv, Holding, LosesOwner, Owners
  <1>5. NumberInv'
    BY DEF MembershipInv, MemberTypeOK, NumberInv
  <1>6. KeepsOwner' /\ AuditTells'
    BY DEF MembershipInv, KeepsOwner, Owners, AuditTells
  <1> QED
    BY <1>1, <1>3, <1>4, <1>5, <1>6 DEF MembershipInv

\* Statements that advance one request and change no committed row.
LEMMA AddKeeps ==
  ASSUME MembershipInv, NEW r \in Changes, Add(r)
  PROVE  MembershipInv'
  <1>1. CASE member[change[r].user] # NoRole
    BY <1>1, RefuseKeeps DEF Add
  <1>2. CASE member[change[r].user] = NoRole
    <2> USE <1>2 DEF Add, Proceed
    <2>1. MemberTypeOK'
      BY MembershipAssumption DEF MembershipInv, MemberTypeOK, Stages, Kinds
    <2>2. Adding' = Adding \union {r} /\ locked' = NoChange
      BY DEF MembershipInv, MemberTypeOK, Adding
    <2>3. \A q \in Changes : change'[q].user = change[q].user /\ change'[q].kind = change[q].kind
      BY DEF MembershipInv, MemberTypeOK
    <2>4. LockInv'
      <3>1. \A q \in Changes : change'[q].pc \in {"locked", "decided"} => change'[q].kind # "add"
        BY DEF MembershipInv, MemberTypeOK, LockInv
      <3>2. \A q \in Adding : q \in Changes /\ change[q].user # change[r].user
        BY DEF Adding
      <3>3. \A q \in Adding' : member'[change'[q].user] = NoRole
        BY <2>2, <2>3, <3>2 DEF MembershipInv, LockInv
      <3>4. \A p, q \in Adding' : change'[p].user = change'[q].user => p = q
        BY <2>2, <2>3, <3>2 DEF MembershipInv, LockInv
      <3> QED
        BY <2>2, <3>1, <3>3, <3>4 DEF LockInv
    <2>5. DecisionInv'
      BY DEF MembershipInv, MemberTypeOK, DecisionInv, Holding, LosesOwner, Owners
    <2>6. NumberInv'
      BY DEF MembershipInv, MemberTypeOK, NumberInv
    <2>7. KeepsOwner' /\ AuditTells'
      BY DEF MembershipInv, KeepsOwner, Owners, AuditTells
    <2> QED
      BY <2>1, <2>4, <2>5, <2>6, <2>7 DEF MembershipInv
  <1> QED
    BY <1>1, <1>2

LEMMA LockKeeps ==
  ASSUME MembershipInv, NEW r \in Changes, Lock(r)
  PROVE  MembershipInv'
  <1> USE DEF Lock, LockOrganization, Proceed
  <1>1. MemberTypeOK'
    BY MembershipAssumption DEF MembershipInv, MemberTypeOK, Stages, Kinds
  <1>2. Adding' = {}
    BY DEF MembershipInv, MemberTypeOK, Adding
  <1>3. LockInv'
    BY <1>2 DEF MembershipInv, MemberTypeOK, LockInv
  <1>4. DecisionInv'
    BY DEF MembershipInv, MemberTypeOK, DecisionInv, Holding, LosesOwner, Owners
  <1>5. NumberInv'
    BY DEF MembershipInv, MemberTypeOK, NumberInv
  <1>6. KeepsOwner' /\ AuditTells'
    BY DEF MembershipInv, KeepsOwner, Owners, AuditTells
  <1> QED
    BY <1>1, <1>3, <1>4, <1>5, <1>6 DEF MembershipInv

LEMMA DecideKeeps ==
  ASSUME MembershipInv, NEW r \in Changes, Decide(r)
  PROVE  MembershipInv'
  <1> DEFINE Ok == member[change[r].user] # NoRole /\ (LosesOwner(r) => \E u \in Owners : u # change[r].user)
  <1>1. CASE ~Ok
    BY <1>1, RefuseKeeps DEF Decide
  <1>2. CASE Ok
    <2> USE <1>2 DEF Decide, Proceed
    <2>1. MemberTypeOK'
      BY MembershipAssumption DEF MembershipInv, MemberTypeOK, Stages, Kinds
    <2>2. Adding' = Adding /\ \A q \in Adding : change'[q] = change[q]
      BY DEF MembershipInv, MemberTypeOK, Adding
    <2>3. LockInv'
      BY <2>2 DEF MembershipInv, MemberTypeOK, LockInv
    <2>4. DecisionInv'
      BY DEF MembershipInv, MemberTypeOK, DecisionInv, Holding, LosesOwner, Owners
    <2>5. NumberInv'
      BY DEF MembershipInv, MemberTypeOK, NumberInv
    <2>6. KeepsOwner' /\ AuditTells'
      BY DEF MembershipInv, KeepsOwner, Owners, AuditTells
    <2> QED
      BY <2>1, <2>3, <2>4, <2>5, <2>6 DEF MembershipInv
  <1> QED
    BY <1>1, <1>2

LEMMA WriteKeeps ==
  ASSUME MembershipInv, NEW r \in Changes, Write(r)
  PROVE  MembershipInv'
  <1> USE DEF Write, Proceed
  <1>1. change[r].kind # "add"
    BY DEF MembershipInv, LockInv
  <1>2. MemberTypeOK'
    BY <1>1, MembershipAssumption DEF MembershipInv, MemberTypeOK, Stages, Kinds
  <1>3. Adding' = Adding /\ \A q \in Adding : change'[q] = change[q]
    BY <1>1 DEF MembershipInv, MemberTypeOK, Adding
  <1>4. LockInv'
    BY <1>3 DEF MembershipInv, MemberTypeOK, LockInv
  <1>5. DecisionInv'
    BY DEF MembershipInv, MemberTypeOK, DecisionInv, Holding, LosesOwner, Owners
  <1>6. NumberInv'
    BY DEF MembershipInv, MemberTypeOK, NumberInv
  <1>7. KeepsOwner' /\ AuditTells'
    BY DEF MembershipInv, KeepsOwner, Owners, AuditTells
  <1> QED
    BY <1>2, <1>4, <1>5, <1>6, <1>7 DEF MembershipInv

\* A new number is higher than all before.
LEMMA RecordKeeps ==
  ASSUME MembershipInv, NEW r \in Changes, Record(r)
  PROVE  MembershipInv'
  <1> USE DEF Record, Proceed
  <1>1. MemberTypeOK'
    BY MembershipAssumption DEF MembershipInv, MemberTypeOK, Stages, Kinds
  <1>2. \A q \in Changes : change'[q].user = change[q].user /\ change'[q].kind = change[q].kind
    BY DEF MembershipInv, MemberTypeOK
  <1>3. Adding' = Adding
    BY DEF MembershipInv, MemberTypeOK, Adding
  <1>4. Adding \subseteq Changes
    BY DEF Adding
  <1>5. LockInv'
    BY <1>2, <1>3, <1>4 DEF MembershipInv, MemberTypeOK, LockInv
  <1>6. DecisionInv'
    BY DEF MembershipInv, MemberTypeOK, DecisionInv, Holding, LosesOwner, Owners
  <1>7. NumberInv'
    <2>1. \A e \in audit : e.number \in Nat /\ e.number <= sequence /\ sequence \in Nat
      BY DEF MembershipInv, MemberTypeOK, NumberInv
    <2>2. \A e \in audit' : e.number <= sequence'
      BY <2>1
    <2>3. entry'[r] = sequence + 1 /\ sequence' = sequence + 1 /\ audit' = audit
      BY DEF MembershipInv, MemberTypeOK
    <2>4. \A q \in Changes : q # r => change'[q] = change[q] /\ entry'[q] = entry[q] /\ entry[q] \in Nat
      BY DEF MembershipInv, MemberTypeOK
    <2>5. ASSUME NEW q \in Changes, change'[q].pc = "recorded"
          PROVE  /\ entry'[q] <= sequence'
                 /\ \A e \in audit' : e.user = change'[q].user => e.number < entry'[q]
      <3>1. CASE q = r
        BY <2>1, <2>3, <3>1 DEF MembershipInv, MemberTypeOK
      <3>2. CASE q # r
        BY <2>1, <2>3, <2>4, <2>5, <3>2 DEF MembershipInv, MemberTypeOK, NumberInv
      <3> QED
        BY <3>1, <3>2
    <2> QED
      BY <2>2, <2>5 DEF NumberInv
  <1>8. KeepsOwner' /\ AuditTells'
    BY DEF MembershipInv, KeepsOwner, Owners, AuditTells
  <1> QED
    BY <1>1, <1>5, <1>6, <1>7, <1>8 DEF MembershipInv

\* A commit changes one user, whom no other request has written.
LEMMA CommitKeeps ==
  ASSUME MembershipInv, NEW r \in Changes, CommitChange(r)
  PROVE  MembershipInv'
  <1> USE DEF CommitChange, End, Proceed
  <1> DEFINE u == change[r].user
             e == Entry(r)
  <1>1. /\ change[r].pc = "recorded" /\ u \in Users /\ change[r].role \in Roles \union {NoRole}
        /\ e \in [number: Nat, user: Users, role: Roles \union {NoRole}]
        /\ e.number = entry[r] /\ e.user = u /\ e.role = change[r].role
    BY DEF MembershipInv, MemberTypeOK, Entry
  <1>2. MemberTypeOK'
    BY <1>1, MembershipAssumption DEF MembershipInv, MemberTypeOK, Stages, Kinds
  <1>3. \A q \in Changes : change'[q].user = change[q].user /\ change'[q].kind = change[q].kind /\ change'[q].role = change[q].role
    BY DEF MembershipInv, MemberTypeOK
  <1>4. \A q \in Changes : q # r => change'[q].pc = change[q].pc
    BY DEF MembershipInv, MemberTypeOK
  <1>5. change'[r].pc = "ended"
    BY DEF MembershipInv, MemberTypeOK
  <1>6. member'[u] = change[r].role /\ \A v \in Users : v # u => member'[v] = member[v]
    BY <1>1 DEF MembershipInv, MemberTypeOK
  <1>7. \A q \in Changes :
          q # r /\ change[q].pc \in {"written", "recorded"} => q \in Adding /\ r \in Adding /\ change[q].user # u
    BY <1>1, WritersAreApart DEF MembershipInv
  <1>8. LockInv'
    <2>1. Adding' = Adding \ {r}
      BY <1>3, <1>4, <1>5 DEF Adding
    <2>2. \A q \in Adding' : member'[change'[q].user] = NoRole
      BY <1>2, <1>3, <1>6, <1>7, <2>1 DEF MembershipInv, LockInv, Adding, MemberTypeOK
    <2>3. locked' # NoChange => Adding' = {}
      BY <2>1 DEF MembershipInv, LockInv
    <2>4. \A q \in Changes : change'[q].pc \in {"locked", "decided"} => change'[q].kind # "add"
      BY <1>3, <1>4, <1>5 DEF MembershipInv, LockInv
    <2>5. \A p, q \in Adding' : change'[p].user = change'[q].user => p = q
      BY <1>3, <2>1 DEF MembershipInv, LockInv, Adding
    <2> QED
      BY <2>2, <2>3, <2>4, <2>5 DEF LockInv
  <1>9. DecisionInv'
    <2>1. ASSUME NEW q \in Changes, Holding(q)', change'[q].pc # "locked" PROVE FALSE
      <3>1. q # r
        BY <1>5, <2>1 DEF Holding
      <3>2. Holding(q)
        BY <1>3, <1>4, <2>1, <3>1 DEF Holding
      <3>3. locked = q
        BY <3>2 DEF MembershipInv, MemberTypeOK, Holding
      <3>4. q # NoChange
        BY MembershipAssumption
      <3>5. change[r].kind # "add"
        BY <1>1, <3>3, <3>4 DEF MembershipInv, LockInv, Adding
      <3>6. locked = r
        BY <1>1, <3>5 DEF MembershipInv, MemberTypeOK
      <3> QED
        BY <3>1, <3>3, <3>6
    <2> QED
      BY <2>1 DEF DecisionInv
  <1>10. NumberInv'
    <2>1. entry' = entry /\ sequence' = sequence /\ audit' = audit \union {e}
      OBVIOUS
    <2>2. \A d \in audit' : d.number <= sequence'
      BY <1>1, <2>1 DEF MembershipInv, NumberInv
    <2>3. ASSUME NEW q \in Changes, change'[q].pc = "recorded"
          PROVE  /\ entry'[q] <= sequence'
                 /\ \A d \in audit' : d.user = change'[q].user => d.number < entry'[q]
      <3>1. q # r /\ change[q].pc = "recorded"
        BY <1>4, <1>5, <2>3
      <3>2. change'[q].user = change[q].user /\ change[q].user # e.user
        BY <1>1, <1>3, <1>7, <3>1
      <3> QED
        BY <2>1, <3>1, <3>2 DEF MembershipInv, NumberInv
    <2> QED
      BY <2>2, <2>3 DEF NumberInv
  <1>11. KeepsOwner'
    <2>1. CASE change[r].role = "Owner"
      BY <1>1, <1>6, <2>1 DEF KeepsOwner, Owners
    <2>2. CASE change[r].role # "Owner" /\ member[u] = "Owner"
      <3>1. change[r].kind # "add"
        BY <1>1, <2>2 DEF MembershipInv, LockInv, Adding, NoRole
      <3>2. PICK v \in Owners : v # u
        BY <1>1, <2>2, <3>1 DEF MembershipInv, DecisionInv, Holding, LosesOwner
      <3> QED
        BY <1>6, <3>2 DEF KeepsOwner, Owners
    <2>3. CASE change[r].role # "Owner" /\ member[u] # "Owner"
      BY <1>6, <2>3 DEF MembershipInv, KeepsOwner, Owners
    <2> QED
      BY <2>1, <2>2, <2>3
  <1>12. AuditTells'
    <2>1. ASSUME NEW v \in Users
          PROVE  LET entries == {d \in audit' : d.user = v} IN
                 \/ entries = {} /\ member'[v] = IF v = Creator THEN "Owner" ELSE NoRole
                 \/ \E d \in entries : d.role = member'[v] /\ \A c \in entries : c.number <= d.number
      <3>1. CASE v = u
        <4>1. \A d \in audit : d.user = u => d.number \in Nat /\ d.number < e.number
          BY <1>1 DEF MembershipInv, NumberInv, MemberTypeOK
        <4>2. e \in audit' /\ e.role = member'[v] /\ e.user = v /\ e.number \in Nat
          BY <1>1, <1>6, <3>1
        <4>3. \A d \in audit' : d.user = v => d.number <= e.number
          BY <1>1, <3>1, <4>1, <4>2
        <4> QED
          BY <4>2, <4>3
      <3>2. CASE v # u
        <4>1. {d \in audit' : d.user = v} = {d \in audit : d.user = v}
          BY <1>1, <3>2
        <4> QED
          BY <1>6, <3>2, <4>1 DEF MembershipInv, AuditTells
      <3> QED
        BY <3>1, <3>2
    <2> QED
      BY <2>1 DEF AuditTells
  <1> QED
    BY <1>2, <1>8, <1>9, <1>10, <1>11, <1>12 DEF MembershipInv

\* The inductive invariant of Membership: locks, decisions and numbers taken.
THEOREM MembershipInvariance == MemberSpec => []MembershipInv
  <1>1. ASSUME MembershipInv, [MemberNext]_memberVars PROVE MembershipInv'
    <2>1. CASE UNCHANGED memberVars
      BY <1>1, <2>1 DEF memberVars, MembershipInv, MemberTypeOK, LockInv, Adding, DecisionInv, Holding,
        LosesOwner, Owners, NumberInv, KeepsOwner, AuditTells
    <2>2. ASSUME NEW r \in Changes, NEW kind \in Kinds, NEW u \in Users,
                 NEW role \in Roles \union {NoRole}, AuthorizeChange(r, kind, u, role)
          PROVE  MembershipInv'
      BY <1>1, <2>2, AuthorizeKeeps
    <2>3. ASSUME NEW r \in Changes,
                 Add(r) \/ Lock(r) \/ Decide(r) \/ Write(r) \/ Record(r) \/ CommitChange(r)
          PROVE  MembershipInv'
      BY <1>1, <2>3, AddKeeps, LockKeeps, DecideKeeps, WriteKeeps, RecordKeeps, CommitKeeps
    <2>4. ASSUME NEW r \in Changes, BreakChange(r) PROVE MembershipInv'
      BY <1>1, <2>4, RefuseKeeps DEF BreakChange
    <2> QED
      BY <1>1, <2>1, <2>2, <2>3, <2>4 DEF MemberNext
  <1> QED
    BY InitInv, <1>1, PTL DEF MemberSpec

\* Types and exclusive locks, for any users and requests.
THEOREM MembershipTyped == MemberSpec => []MemberTypeOK
  <1>1. MembershipInv => MemberTypeOK
    BY DEF MembershipInv
  <1> QED
    BY MembershipInvariance, <1>1, PTL

\* No overlap of removals, demotions and additions leaves an organization ownerless.
THEOREM OwnerKept == MemberSpec => []KeepsOwner
  <1>1. MembershipInv => KeepsOwner
    BY DEF MembershipInv
  <1> QED
    BY MembershipInvariance, <1>1, PTL

\* The highest entry of the audit log names the present role of everyone it is about.
THEOREM AuditTellsMembers == MemberSpec => []AuditTells
  <1>1. MembershipInv => AuditTells
    BY DEF MembershipInv
  <1> QED
    BY MembershipInvariance, <1>1, PTL
=============================================================================
