----------------------------- MODULE Enrollment -----------------------------
(***************************************************************************)
(* Enrollment of installations in one organization: single-use tickets,    *)
(* the installation's row, and the credential that replaces earlier ones   *)
(* (/v1/enroll, /v1/enrollment-tickets and DELETE /v1/tokens in            *)
(* cloud/server.mjs, the quota in cloud/hosted.mjs).                       *)
(*                                                                         *)
(* A request is one READ COMMITTED transaction, taken statement by         *)
(* statement: each statement sees what is committed when it starts, waits  *)
(* for rows another transaction has written or locked, and then looks      *)
(* again.  What a transaction writes shows when it commits.                *)
(***************************************************************************)
EXTENDS Naturals, FiniteSets

CONSTANTS
  Requests,       \* enrollment requests, each a transaction
  Tickets,        \* enrollment tickets
  Installations,  \* installation identities that devices send
  Environments,
  TicketFor(_),   \* the environment a ticket is issued for
  Hosted,         \* the policies explored: TRUE with quotas, FALSE without
  Quota,          \* installations an organization may have under the policy
  Organization,   \* the organization's row, as a thing to lock
  None

ASSUME EnrollmentAssumption ==
  /\ \A t \in Tickets : TicketFor(t) \in Environments
  /\ Hosted \subseteq BOOLEAN /\ Quota \in Nat
  /\ None \notin Environments \union Tickets \union Installations
  /\ Organization \notin Tickets \union Installations
  /\ Tickets \intersect Installations = {}

VARIABLES
  hosted,        \* the policy in force
  ticket,        \* the state of each ticket
  installation,  \* the environment of each installation's row, None without one
  credential,    \* the state of the credential each request minted
  tx             \* the place of each request in its transaction, and its locks

vars == <<hosted, ticket, installation, credential, tx>>

Locks == {Organization} \union Tickets \union Installations

Places == {"new", "authorized", "admitted", "checked", "consumed", "registered",
           "superseded", "minted", "enrolled", "refused"}

Ended == {"enrolled", "refused"}

NoRequest == [pc |-> "new", ticket |-> None, installation |-> None, locks |-> {}, revokes |-> {}]

Init ==
  /\ hosted \in Hosted
  /\ ticket = [t \in Tickets |-> "none"]
  /\ installation = [i \in Installations |-> None]
  /\ credential = [r \in Requests |-> "none"]
  /\ tx = [r \in Requests |-> NoRequest]

-----------------------------------------------------------------------------
(* Transactions *)

\* No other transaction holds a lock on x.
Free(r, x) == \A q \in Requests \ {r} : x \notin tx[q].locks

Advance(r, pc) == tx' = [tx EXCEPT ![r].pc = pc]

AdvanceLocking(r, pc, x) == tx' = [tx EXCEPT ![r].pc = pc, ![r].locks = @ \union {x}]

\* A request that fails is rolled back: what it wrote is gone and its locks are free.
Refuse(r) == tx' = [tx EXCEPT ![r].pc = "refused", ![r].locks = {}, ![r].revokes = {}]

-----------------------------------------------------------------------------
(* Tickets and tokens *)

\* A developer mints a ticket.
Issue(t) ==
  /\ ticket[t] = "none"
  /\ ticket' = [ticket EXCEPT ![t] = "live"]
  /\ UNCHANGED <<hosted, installation, credential, tx>>

\* An owner revokes a ticket.
WithdrawTicket(t) ==
  /\ ticket[t] = "live"
  /\ \A r \in Requests : t \notin tx[r].locks
  /\ ticket' = [ticket EXCEPT ![t] = "withdrawn"]
  /\ UNCHANGED <<hosted, installation, credential, tx>>

\* An owner revokes an installation's credential.
RevokeCredential(c) ==
  /\ credential[c] = "live"
  /\ \A r \in Requests : c \notin tx[r].revokes
  /\ credential' = [credential EXCEPT ![c] = "revoked"]
  /\ UNCHANGED <<hosted, ticket, installation, tx>>

-----------------------------------------------------------------------------
(* Enrollment *)

\* The bearer of a live ticket asks to enroll an installation.
Authorize(r, t, i) ==
  /\ tx[r].pc = "new"
  /\ ticket[t] = "live"
  /\ tx' = [tx EXCEPT ![r] = [NoRequest EXCEPT !.pc = "authorized", !.ticket = t, !.installation = i]]
  /\ UNCHANGED <<hosted, ticket, installation, credential>>

LiveOf(i) == {c \in Requests : credential[c] = "live" /\ tx[c].installation = i}

Enrolled == {i \in Installations : LiveOf(i) # {}}

\* An installation that has a credential may replace it; another counts.
WithinQuota(i) == i \in Enrolled \/ Cardinality(Enrolled) < Quota

\* Faulty variant: the organization is not locked.
QuotaHeldUnlocked(r) ==
  IF WithinQuota(tx[r].installation) THEN Advance(r, "admitted") ELSE Refuse(r)

\* installationQuota(): counts under a lock on the organization.
QuotaHeld(r) ==
  /\ Free(r, Organization)
  /\ IF WithinQuota(tx[r].installation) THEN AdvanceLocking(r, "admitted", Organization) ELSE Refuse(r)

Admit(r) ==
  /\ tx[r].pc = "authorized"
  /\ IF hosted THEN QuotaHeld(r) ELSE Advance(r, "admitted")
  /\ UNCHANGED <<hosted, ticket, installation, credential>>

\* SELECT ... FOR UPDATE: a row that is not there, or not committed, is not locked.
CheckInstallation(r) ==
  LET i == tx[r].installation IN
  /\ tx[r].pc = "admitted"
  /\ \/ installation[i] = None /\ Advance(r, "checked")
     \/ /\ installation[i] # None /\ Free(r, i)
        /\ IF installation[i] = TicketFor(tx[r].ticket) THEN AdvanceLocking(r, "checked", i) ELSE Refuse(r)
  /\ UNCHANGED <<hosted, ticket, installation, credential>>

\* Faulty variant: the ticket was live when the request was authorized.
ConsumableAgain(t) == TRUE

\* The ticket has not been consumed since.
Consumable(t) == ticket[t] = "live"

\* UPDATE ... WHERE revoked_at IS NULL
Consume(r) ==
  LET t == tx[r].ticket IN
  /\ tx[r].pc = "checked"
  /\ Free(r, t)
  /\ IF Consumable(t) THEN AdvanceLocking(r, "consumed", t) ELSE Refuse(r)
  /\ UNCHANGED <<hosted, ticket, installation, credential>>

\* INSERT ... ON CONFLICT DO UPDATE: waits for whoever inserts or has locked the row.
Register(r) ==
  /\ tx[r].pc = "consumed"
  /\ Free(r, tx[r].installation)
  /\ AdvanceLocking(r, "registered", tx[r].installation)
  /\ UNCHANGED <<hosted, ticket, installation, credential>>

\* Faulty variant: selected by ticket instead of by installation.
EarlierOfTicket(r) == {c \in LiveOf(tx[r].installation) : tx[c].ticket = tx[r].ticket}

\* The credentials the new one replaces.
Earlier(r) == LiveOf(tx[r].installation)

Supersede(r) ==
  /\ tx[r].pc = "registered"
  /\ tx' = [tx EXCEPT ![r].pc = "superseded", ![r].revokes = Earlier(r)]
  /\ UNCHANGED <<hosted, ticket, installation, credential>>

\* credential_tenant_installation: the row, the committed one or the request's own, is
\* in the credential's environment.
References(r) == installation[tx[r].installation] \in {None, TicketFor(tx[r].ticket)}

Mint(r) ==
  /\ tx[r].pc = "superseded"
  /\ IF References(r) THEN Advance(r, "minted") ELSE Refuse(r)
  /\ UNCHANGED <<hosted, ticket, installation, credential>>

\* COMMIT
Commit(r) ==
  LET i == tx[r].installation IN
  /\ tx[r].pc = "minted"
  /\ ticket' = [ticket EXCEPT ![tx[r].ticket] = "used"]
  /\ installation' = [installation EXCEPT ![i] = IF @ = None THEN TicketFor(tx[r].ticket) ELSE @]
  /\ credential' = [c \in Requests |->
       IF c = r THEN "live" ELSE IF c \in tx[r].revokes THEN "revoked" ELSE credential[c]]
  /\ tx' = [tx EXCEPT ![r].pc = "enrolled", ![r].locks = {}, ![r].revokes = {}]
  /\ UNCHANGED hosted

\* The connection or the process is lost before the commit.
Break(r) ==
  /\ tx[r].pc \notin {"new"} \union Ended
  /\ Refuse(r)
  /\ UNCHANGED <<hosted, ticket, installation, credential>>

\* The locks a request needs next.
Needs(r) ==
  CASE tx[r].pc = "authorized" /\ hosted -> {Organization}
    [] tx[r].pc = "admitted" /\ installation[tx[r].installation] # None -> {tx[r].installation}
    [] tx[r].pc = "checked" -> {tx[r].ticket}
    [] tx[r].pc = "consumed" -> {tx[r].installation}
    [] OTHER -> {}

WaitsFor(r) == {q \in Requests \ {r} : Needs(r) \intersect tx[q].locks # {}}

\* PostgreSQL ends one of a circle of transactions that wait for each other.
DetectDeadlock(r) ==
  /\ \E circle \in SUBSET Requests :
       r \in circle /\ \A q \in circle : WaitsFor(q) \intersect circle # {}
  /\ Refuse(r)
  /\ UNCHANGED <<hosted, ticket, installation, credential>>

-----------------------------------------------------------------------------
Statement(r) ==
  \/ Admit(r) \/ CheckInstallation(r) \/ Consume(r) \/ Register(r)
  \/ Supersede(r) \/ Mint(r) \/ Commit(r)

Next ==
  \/ \E t \in Tickets : Issue(t) \/ WithdrawTicket(t)
  \/ \E c \in Requests : RevokeCredential(c)
  \/ \E r \in Requests :
       \/ \E t \in Tickets, i \in Installations : Authorize(r, t, i)
       \/ Statement(r)
       \/ Break(r)
       \/ DetectDeadlock(r)

Spec == Init /\ [][Next]_vars

-----------------------------------------------------------------------------
(* Properties *)

\* Tickets, rows, credentials and requests keep their types; locks are exclusive, and
\* a request that has ended holds none.
TypeOK ==
  /\ hosted \in BOOLEAN
  /\ ticket \in [Tickets -> {"none", "live", "used", "withdrawn"}]
  /\ installation \in [Installations -> Environments \union {None}]
  /\ credential \in [Requests -> {"none", "live", "revoked"}]
  /\ tx \in [Requests -> [pc: Places, ticket: Tickets \union {None},
                          installation: Installations \union {None},
                          locks: SUBSET Locks, revokes: SUBSET Requests]]
  /\ \A r, q \in Requests : r # q => tx[r].locks \intersect tx[q].locks = {}
  /\ \A r \in Requests : tx[r].pc \in Ended => tx[r].locks = {}

\* A ticket mints at most one credential, whoever presents it how often, and is only
\* consumed with it: a request that fails after consuming it leaves it usable.
TicketMintsOnce ==
  \A t \in Tickets :
    Cardinality({c \in Requests : credential[c] # "none" /\ tx[c].ticket = t})
      = IF ticket[t] = "used" THEN 1 ELSE 0

\* An installation has one live credential, also when it is enrolled twice at once
\* before it has a row to lock.
OneLiveCredential == \A i \in Installations : Cardinality(LiveOf(i)) <= 1

\* A credential is for the environment its installation is registered in, although the
\* check of the environment may have found no row.
CredentialOfItsEnvironment ==
  \A c \in Requests : credential[c] = "live" =>
    TicketFor(tx[c].ticket) = installation[tx[c].installation]

\* Overlapping enrollments leave an installation one live credential at most, and of its
\* own environment, whether or not there was a row to lock when they began.
CredentialsAreSound == OneLiveCredential /\ CredentialOfItsEnvironment

\* Enrollments that are counted at the same time do not pass the quota together.
QuotaHolds == hosted => Cardinality(Enrolled) <= Quota
=============================================================================
