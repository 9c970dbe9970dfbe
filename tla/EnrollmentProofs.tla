-------------------------- MODULE EnrollmentProofs --------------------------
(***************************************************************************)
(* What enrollment promises of tickets, credentials and the quota, for any *)
(* requests, tickets and installations and every interleaving of their     *)
(* transactions' statements (Enrollment), also beside changes of members   *)
(* (Tenancy).                                                              *)
(***************************************************************************)
EXTENDS Tenancy, FiniteSetTheorems, TLAPS

-----------------------------------------------------------------------------
(* The invariant *)

\* The places after a statement.
Minting == {"minted"}
Superseding == {"superseded"} \union Minting
Registering == {"registered"} \union Superseding
Consuming == {"consumed"} \union Registering
Admitted == {"admitted", "checked"} \union Consuming

Request == [pc: Places, ticket: Tickets \union {None}, installation: Installations \union {None},
            locks: SUBSET Locks, revokes: SUBSET Requests]

\* What a transaction has established it keeps under its locks: its place within the quota, the
\* ticket it will use up, the installation, and which credentials this one has.
RequestInv(r) ==
  /\ tx[r].pc # "new" => tx[r].ticket \in Tickets /\ tx[r].installation \in Installations
  /\ tx[r].pc \in {"new"} \union Ended => tx[r].locks = {}
  /\ hosted /\ tx[r].pc \in Admitted =>
       Organization \in tx[r].locks /\ WithinQuota(tx[r].installation)
  /\ tx[r].pc \in Consuming => tx[r].ticket \in tx[r].locks /\ ticket[tx[r].ticket] = "live"
  /\ tx[r].pc \in Registering => tx[r].installation \in tx[r].locks
  /\ tx[r].revokes = IF tx[r].pc \in Superseding THEN LiveOf(tx[r].installation) ELSE {}
  /\ tx[r].pc \in Minting => References(r)
  /\ credential[r] # "none" <=> tx[r].pc = "enrolled"

\* A ticket is used up by one enrollment.
TicketsInv ==
  /\ \A c \in Requests : tx[c].pc = "enrolled" => ticket[tx[c].ticket] = "used"
  /\ \A t \in Tickets : ticket[t] = "used" =>
       \E c \in Requests : tx[c].pc = "enrolled" /\ tx[c].ticket = t
  /\ \A c, d \in Requests :
       tx[c].pc = "enrolled" /\ tx[d].pc = "enrolled" /\ tx[c].ticket = tx[d].ticket => c = d

\* An installation has one live credential.
OneLive ==
  \A c, d \in Requests :
    credential[c] = "live" /\ credential[d] = "live" /\ tx[c].installation = tx[d].installation => c = d

EInv ==
  /\ TypeOK
  /\ \A r \in Requests : RequestInv(r)
  /\ TicketsInv
  /\ OneLive
  /\ CredentialOfItsEnvironment
  /\ IsFiniteSet(Enrolled)
  /\ QuotaHolds

LEMMA InitHolds == Init => EInv
<1> SUFFICES ASSUME Init PROVE EInv
  OBVIOUS
<1>1. \A r \in Requests : tx[r] = NoRequest /\ credential[r] = "none"
  BY DEF Init
<1>2. TypeOK
  <2>1. NoRequest \in Request
    BY DEF NoRequest, Request, Places
  <2> QED
    BY <1>1, <2>1, EnrollmentAssumption DEF Init, TypeOK, NoRequest, Request, Ended
<1>3. \A r \in Requests : RequestInv(r)
  BY <1>1 DEF RequestInv, NoRequest, Ended, Admitted, Consuming, Registering, Superseding, Minting
<1>4. TicketsInv /\ OneLive /\ CredentialOfItsEnvironment
  BY <1>1 DEF Init, TicketsInv, OneLive, CredentialOfItsEnvironment, NoRequest
<1>5. Enrolled = {}
  BY <1>1 DEF Enrolled, LiveOf
<1>6. IsFiniteSet(Enrolled) /\ QuotaHolds
  BY <1>5, FS_EmptySet, EnrollmentAssumption DEF QuotaHolds
<1> QED
  BY <1>2, <1>3, <1>4, <1>6 DEF EInv

-----------------------------------------------------------------------------
(* Transactions that do not commit *)

\* A request moves on within its transaction, or its transaction is rolled back.
Moves(r) ==
  /\ UNCHANGED <<hosted, ticket, installation, credential>>
  /\ tx' = [tx EXCEPT ![r] = tx'[r]]
  /\ tx[r].pc \notin Ended /\ tx'[r].pc # "enrolled"

\* Nobody else sees anything of it but its locks.
LEMMA OthersSeeNothing ==
  ASSUME EInv, NEW r \in Requests, Moves(r)
  PROVE  /\ \A i : LiveOf(i)' = LiveOf(i)
         /\ Enrolled' = Enrolled
         /\ \A q \in Requests \ {r} : tx'[q] = tx[q]
         /\ \A q \in Requests : tx'[q].pc = "enrolled" <=> tx[q].pc = "enrolled"
         /\ \A q \in Requests : credential[q] # "none" => q # r /\ tx'[q] = tx[q]
<1>1. \A q \in Requests \ {r} : tx'[q] = tx[q]
  BY DEF Moves, EInv, TypeOK
<1>2. \A q \in Requests : credential[q] # "none" => tx[q].pc = "enrolled"
  BY DEF EInv, RequestInv
<1>3. tx[r].pc # "enrolled"
  BY DEF Moves, Ended
<1>4. \A q \in Requests : credential[q] # "none" => q # r /\ tx'[q] = tx[q]
  BY <1>1, <1>2, <1>3
<1>5. \A i : LiveOf(i)' = LiveOf(i)
  BY <1>4 DEF LiveOf, Moves
<1>6. Enrolled' = Enrolled
  BY <1>5 DEF Enrolled
<1> QED
  BY <1>1, <1>3, <1>4, <1>5, <1>6 DEF Moves

LEMMA MovesHolds ==
  ASSUME EInv, NEW r \in Requests, Moves(r),
         tx'[r] \in Request, RequestInv(r)',
         \A q \in Requests \ {r} : tx'[r].locks \intersect tx[q].locks = {}
  PROVE  EInv'
<1>1. /\ \A i : LiveOf(i)' = LiveOf(i)
      /\ Enrolled' = Enrolled
      /\ \A q \in Requests \ {r} : tx'[q] = tx[q]
      /\ \A q \in Requests : tx'[q].pc = "enrolled" <=> tx[q].pc = "enrolled"
      /\ \A q \in Requests : credential[q] # "none" => q # r /\ tx'[q] = tx[q]
  BY OthersSeeNothing
<1>2. UNCHANGED <<hosted, ticket, installation, credential>>
  BY DEF Moves
<1>3. TypeOK'
  <2>1. tx' \in [Requests -> Request]
    BY DEF Moves, EInv, TypeOK, Request
  <2>2. ASSUME NEW q \in Requests, NEW p \in Requests, q # p
        PROVE  tx'[q].locks \intersect tx'[p].locks = {}
    BY <1>1, <2>2 DEF EInv, TypeOK
  <2>3. \A q \in Requests : tx'[q].pc \in Ended => tx'[q].locks = {}
    BY <1>1 DEF EInv, TypeOK, RequestInv
  <2> QED
    BY <1>2, <2>1, <2>2, <2>3 DEF EInv, TypeOK, Request
<1>4. ASSUME NEW q \in Requests, q # r
      PROVE  RequestInv(q)'
  <2>1. RequestInv(q) /\ tx'[q] = tx[q]
    BY <1>1, <1>4 DEF EInv
  <2> QED
    BY <1>1, <1>2, <2>1 DEF RequestInv, WithinQuota, References
<1>5. TicketsInv'
  <2>1. \A q \in Requests : tx[q].pc = "enrolled" => tx'[q] = tx[q]
    BY <1>1 DEF Moves, Ended
  <2> QED
    BY <1>1, <1>2, <2>1 DEF EInv, TicketsInv
<1>6. OneLive' /\ CredentialOfItsEnvironment'
  BY <1>1, <1>2 DEF EInv, OneLive, CredentialOfItsEnvironment
<1>7. IsFiniteSet(Enrolled)' /\ QuotaHolds'
  BY <1>1, <1>2 DEF EInv, QuotaHolds
<1> QED
  BY <1>3, <1>4, <1>5, <1>6, <1>7 DEF EInv

LEMMA RefuseHolds ==
  ASSUME EInv, NEW r \in Requests, tx[r].pc \notin {"new"} \union Ended, Refuse(r),
         UNCHANGED <<hosted, ticket, installation, credential>>
  PROVE  EInv'
<1>1. /\ tx'[r] = [tx[r] EXCEPT !.pc = "refused", !.locks = {}, !.revokes = {}]
      /\ tx' = [tx EXCEPT ![r] = tx'[r]]
  BY DEF EInv, TypeOK, Refuse
<1>2. /\ tx[r] \in Request /\ RequestInv(r)
  BY DEF EInv, TypeOK, Request
<1>3. /\ tx'[r] \in Request /\ tx'[r].pc = "refused" /\ tx'[r].locks = {} /\ tx'[r].revokes = {}
      /\ tx'[r].ticket = tx[r].ticket /\ tx'[r].installation = tx[r].installation
  BY <1>1, <1>2 DEF Request, Places
<1>4. Moves(r)
  BY <1>1, <1>3 DEF Moves
<1>5. RequestInv(r)'
  BY <1>2, <1>3 DEF RequestInv, Ended, Admitted, Consuming, Registering, Superseding, Minting
<1> QED
  BY <1>3, <1>4, <1>5, MovesHolds

-----------------------------------------------------------------------------
(* Statements *)

\* A statement takes a request on with more locks, which nobody else has.
Takes(r, pc, more) ==
  /\ Moves(r) /\ tx'[r] \in Request
  /\ \A q \in Requests \ {r} : tx'[r].locks \intersect tx[q].locks = {}
  /\ tx'[r].pc = pc /\ tx'[r].locks = tx[r].locks \union more
  /\ tx'[r].ticket = tx[r].ticket /\ tx'[r].installation = tx[r].installation
  /\ tx'[r].revokes = tx[r].revokes
  /\ tx[r].ticket \in Tickets /\ tx[r].installation \in Installations

LEMMA LockingTakes ==
  ASSUME EInv, NEW r \in Requests, tx[r].pc \notin {"new"} \union Ended,
         NEW pc \in Places \ Ended, UNCHANGED <<hosted, ticket, installation, credential>>,
         NEW x \in Locks, Free(r, x), AdvanceLocking(r, pc, x)
  PROVE  Takes(r, pc, {x})
<1>1. /\ tx'[r] = [tx[r] EXCEPT !.pc = pc, !.locks = tx[r].locks \union {x}]
      /\ tx' = [tx EXCEPT ![r] = tx'[r]]
  BY DEF EInv, TypeOK, AdvanceLocking
<1>2. /\ tx[r] \in Request /\ RequestInv(r)
  BY DEF EInv, TypeOK, Request
<1>3. /\ tx'[r] \in Request /\ tx'[r].pc = pc /\ tx'[r].locks = tx[r].locks \union {x}
      /\ tx'[r].ticket = tx[r].ticket /\ tx'[r].installation = tx[r].installation
      /\ tx'[r].revokes = tx[r].revokes
  <2>1. tx[r].locks \union {x} \in SUBSET Locks
    BY <1>2 DEF Request
  <2> QED
    BY <1>1, <1>2, <2>1 DEF Request
<1>4. Moves(r)
  BY <1>1, <1>3 DEF Moves, Ended
<1>5. \A q \in Requests \ {r} : tx'[r].locks \intersect tx[q].locks = {}
  BY <1>3 DEF Free, EInv, TypeOK
<1> QED
  BY <1>2, <1>3, <1>4, <1>5 DEF RequestInv, Takes

LEMMA AdvanceTakes ==
  ASSUME EInv, NEW r \in Requests, tx[r].pc \notin {"new"} \union Ended,
         NEW pc \in Places \ Ended, UNCHANGED <<hosted, ticket, installation, credential>>,
         Advance(r, pc)
  PROVE  Takes(r, pc, {})
<1>1. /\ tx'[r] = [tx[r] EXCEPT !.pc = pc]
      /\ tx' = [tx EXCEPT ![r] = tx'[r]]
  BY DEF EInv, TypeOK, Advance
<1>2. /\ tx[r] \in Request /\ RequestInv(r)
  BY DEF EInv, TypeOK, Request
<1>3. /\ tx'[r] \in Request /\ tx'[r].pc = pc /\ tx'[r].locks = tx[r].locks
      /\ tx'[r].ticket = tx[r].ticket /\ tx'[r].installation = tx[r].installation
      /\ tx'[r].revokes = tx[r].revokes
  BY <1>1, <1>2 DEF Request
<1>4. Moves(r)
  BY <1>1, <1>3 DEF Moves, Ended
<1>5. \A q \in Requests \ {r} : tx'[r].locks \intersect tx[q].locks = {}
  BY <1>3 DEF EInv, TypeOK
<1> QED
  BY <1>2, <1>3, <1>4, <1>5 DEF RequestInv, Takes

\* It is done when it has established what its new place needs.
LEMMA TakesHolds ==
  ASSUME EInv, NEW r \in Requests, NEW pc, NEW more, Takes(r, pc, more), RequestInv(r)'
  PROVE  EInv'
BY MovesHolds DEF Takes

LEMMA TakesSeen ==
  ASSUME EInv, NEW r \in Requests, NEW pc, NEW more, Takes(r, pc, more)
  PROVE  Enrolled' = Enrolled /\ \A i : LiveOf(i)' = LiveOf(i)
BY OthersSeeNothing DEF Takes

LEMMA AuthorizeHolds ==
  ASSUME EInv, NEW r \in Requests, NEW t \in Tickets, NEW i \in Installations, Authorize(r, t, i)
  PROVE  EInv'
<1>1. /\ tx'[r] = [NoRequest EXCEPT !.pc = "authorized", !.ticket = t, !.installation = i]
      /\ tx' = [tx EXCEPT ![r] = tx'[r]] /\ tx[r].pc = "new"
      /\ UNCHANGED <<hosted, ticket, installation, credential>>
  BY DEF EInv, TypeOK, Authorize
<1>2. /\ tx'[r] \in Request /\ tx'[r].pc = "authorized" /\ tx'[r].locks = {} /\ tx'[r].revokes = {}
      /\ tx'[r].ticket = t /\ tx'[r].installation = i
  BY <1>1 DEF Request, Places, NoRequest
<1>3. Moves(r)
  BY <1>1, <1>2 DEF Moves, Ended
<1>4. RequestInv(r)'
  BY <1>1, <1>2 DEF EInv, RequestInv, Ended, Admitted, Consuming, Registering, Superseding, Minting
<1> QED
  BY <1>2, <1>3, <1>4, MovesHolds

LEMMA AdmitHolds ==
  ASSUME EInv, NEW r \in Requests, Admit(r)
  PROVE  EInv'
<1>1. /\ tx[r].pc = "authorized" /\ tx[r].pc \notin {"new"} \union Ended
      /\ "admitted" \in Places \ Ended /\ Organization \in Locks
      /\ UNCHANGED <<hosted, ticket, installation, credential>>
  BY DEF Admit, Places, Ended, Locks
<1>2. CASE hosted /\ WithinQuota(tx[r].installation)
  <2>1. Takes(r, "admitted", {Organization})
    BY <1>1, <1>2, LockingTakes DEF Admit, QuotaHeld
  <2>2. Enrolled' = Enrolled /\ \A j : LiveOf(j)' = LiveOf(j)
    BY <2>1, TakesSeen
  <2>3. RequestInv(r)'
    BY <1>1, <1>2, <2>1, <2>2 DEF EInv, RequestInv, Takes, Moves, WithinQuota, Ended, Admitted, Consuming, Registering,
       Superseding, Minting
  <2> QED
    BY <2>1, <2>3, TakesHolds
<1>3. CASE ~hosted
  <2>1. Takes(r, "admitted", {})
    BY <1>1, <1>3, AdvanceTakes DEF Admit
  <2>2. RequestInv(r)'
    BY <1>1, <1>3, <2>1 DEF EInv, RequestInv, Takes, Moves, WithinQuota, Ended, Admitted, Consuming, Registering,
       Superseding, Minting
  <2> QED
    BY <2>1, <2>2, TakesHolds
<1> QED
  BY <1>1, <1>2, <1>3, RefuseHolds DEF Admit, QuotaHeld

LEMMA CheckInstallationHolds ==
  ASSUME EInv, NEW r \in Requests, CheckInstallation(r)
  PROVE  EInv'
<1>1. /\ tx[r].pc = "admitted" /\ tx[r].pc \notin {"new"} \union Ended
      /\ "checked" \in Places \ Ended
      /\ UNCHANGED <<hosted, ticket, installation, credential>>
  BY DEF CheckInstallation, Places, Ended
<1>2. PICK i \in Installations : i = tx[r].installation
  BY <1>1 DEF EInv, RequestInv
<1>3. i \in Locks
  BY DEF Locks
<1>4. ASSUME NEW more, Takes(r, "checked", more)
      PROVE  EInv'
  <2>1. Enrolled' = Enrolled /\ \A j : LiveOf(j)' = LiveOf(j)
    BY <1>4, TakesSeen
  <2>2. RequestInv(r)'
    BY <1>1, <1>4, <2>1 DEF EInv, RequestInv, Takes, Moves, WithinQuota, Ended, Admitted, Consuming, Registering,
       Superseding, Minting
  <2> QED
    BY <1>4, <2>2, TakesHolds
<1>5. CASE Advance(r, "checked")
  BY <1>1, <1>4, <1>5, AdvanceTakes
<1>6. CASE Free(r, i) /\ AdvanceLocking(r, "checked", i)
  BY <1>1, <1>3, <1>4, <1>6, LockingTakes
<1>7. CASE Refuse(r)
  BY <1>1, <1>7, RefuseHolds
<1> QED
  BY <1>2, <1>5, <1>6, <1>7 DEF CheckInstallation

LEMMA ConsumeHolds ==
  ASSUME EInv, NEW r \in Requests, Consume(r)
  PROVE  EInv'
<1>1. /\ tx[r].pc = "checked" /\ tx[r].pc \notin {"new"} \union Ended
      /\ "consumed" \in Places \ Ended
      /\ UNCHANGED <<hosted, ticket, installation, credential>>
  BY DEF Consume, Places, Ended
<1>2. PICK t \in Tickets : t = tx[r].ticket
  BY <1>1 DEF EInv, RequestInv
<1>3. CASE Free(r, t) /\ Consumable(t) /\ AdvanceLocking(r, "consumed", t)
  <2>1. t \in Locks
    BY DEF Locks
  <2>2. Takes(r, "consumed", {t})
    BY <1>1, <1>3, <2>1, LockingTakes
  <2>3. Enrolled' = Enrolled /\ \A j : LiveOf(j)' = LiveOf(j)
    BY <2>2, TakesSeen
  <2>4. RequestInv(r)'
    BY <1>1, <1>2, <1>3, <2>2, <2>3 DEF EInv, RequestInv, Takes, Moves, WithinQuota, Ended, Admitted, Consuming, Registering,
       Superseding, Minting, Consumable
  <2> QED
    BY <2>2, <2>4, TakesHolds
<1>4. CASE Refuse(r)
  BY <1>1, <1>4, RefuseHolds
<1> QED
  BY <1>2, <1>3, <1>4 DEF Consume

LEMMA RegisterHolds ==
  ASSUME EInv, NEW r \in Requests, Register(r)
  PROVE  EInv'
<1>1. /\ tx[r].pc = "consumed" /\ tx[r].pc \notin {"new"} \union Ended
      /\ "registered" \in Places \ Ended
      /\ UNCHANGED <<hosted, ticket, installation, credential>>
  BY DEF Register, Places, Ended
<1>2. PICK i \in Installations : i = tx[r].installation
  BY <1>1 DEF EInv, RequestInv
<1>3. i \in Locks
  BY DEF Locks
<1>4. Takes(r, "registered", {i})
  BY <1>1, <1>2, <1>3, LockingTakes DEF Register
<1>5. Enrolled' = Enrolled /\ \A j : LiveOf(j)' = LiveOf(j)
  BY <1>4, TakesSeen
<1>6. RequestInv(r)'
  BY <1>1, <1>2, <1>4, <1>5 DEF EInv, RequestInv, Takes, Moves, WithinQuota, Ended, Admitted, Consuming, Registering,
       Superseding, Minting
<1> QED
  BY <1>4, <1>6, TakesHolds

LEMMA SupersedeHolds ==
  ASSUME EInv, NEW r \in Requests, Supersede(r)
  PROVE  EInv'
<1>1. /\ tx'[r] = [tx[r] EXCEPT !.pc = "superseded", !.revokes = Earlier(r)]
      /\ tx' = [tx EXCEPT ![r] = tx'[r]] /\ tx[r].pc = "registered"
      /\ UNCHANGED <<hosted, ticket, installation, credential>>
  BY DEF EInv, TypeOK, Supersede
<1>2. tx[r] \in Request /\ RequestInv(r) /\ Earlier(r) \in SUBSET Requests
  BY DEF EInv, TypeOK, Request, Earlier, LiveOf
<1>3. /\ tx'[r] \in Request /\ tx'[r].pc = "superseded" /\ tx'[r].locks = tx[r].locks
      /\ tx'[r].revokes = LiveOf(tx[r].installation)
      /\ tx'[r].ticket = tx[r].ticket /\ tx'[r].installation = tx[r].installation
  BY <1>1, <1>2 DEF Request, Places, Earlier
<1>4. Moves(r)
  BY <1>1, <1>3 DEF Moves, Ended
<1>5. Enrolled' = Enrolled /\ \A i : LiveOf(i)' = LiveOf(i)
  BY <1>4, OthersSeeNothing
<1>6. RequestInv(r)'
  BY <1>1, <1>2, <1>3, <1>5 DEF RequestInv, WithinQuota, Ended, Admitted, Consuming, Registering,
     Superseding, Minting
<1>7. \A q \in Requests \ {r} : tx'[r].locks \intersect tx[q].locks = {}
  BY <1>3 DEF EInv, TypeOK
<1> QED
  BY <1>3, <1>4, <1>6, <1>7, MovesHolds

LEMMA MintHolds ==
  ASSUME EInv, NEW r \in Requests, Mint(r)
  PROVE  EInv'
<1>1. /\ tx[r].pc = "superseded" /\ tx[r].pc \notin {"new"} \union Ended
      /\ "minted" \in Places \ Ended
      /\ UNCHANGED <<hosted, ticket, installation, credential>>
  BY DEF Mint, Places, Ended
<1>2. CASE References(r) /\ Advance(r, "minted")
  <2>1. Takes(r, "minted", {})
    BY <1>1, <1>2, AdvanceTakes
  <2>2. Enrolled' = Enrolled /\ \A j : LiveOf(j)' = LiveOf(j)
    BY <2>1, TakesSeen
  <2>3. RequestInv(r)'
    BY <1>1, <1>2, <2>1, <2>2 DEF EInv, RequestInv, Takes, Moves, WithinQuota, Ended, Admitted, Consuming, Registering,
       Superseding, Minting, References
  <2> QED
    BY <2>1, <2>3, TakesHolds
<1>3. CASE Refuse(r)
  BY <1>1, <1>3, RefuseHolds
<1> QED
  BY <1>2, <1>3 DEF Mint

-----------------------------------------------------------------------------
(* Commits, tickets and tokens *)

LEMMA PlacesOrder ==
  /\ Minting \subseteq Superseding /\ Superseding \subseteq Registering
  /\ Registering \subseteq Consuming /\ Consuming \subseteq Admitted
  /\ Admitted \subseteq Places \ ({"new", "authorized"} \union Ended)
BY DEF Minting, Superseding, Registering, Consuming, Admitted, Places, Ended

LEMMA CommitHolds ==
  ASSUME EInv, NEW r \in Requests, Commit(r)
  PROVE  EInv'
<1>1. tx[r].ticket \in Tickets /\ tx[r].installation \in Installations
  BY DEF Commit, EInv, RequestInv
<1> PICK t \in Tickets : t = tx[r].ticket
  BY <1>1
<1> PICK i \in Installations : i = tx[r].installation
  BY <1>1
<1> DEFINE env == TicketFor(t)
<1>2. /\ tx[r].pc = "minted" /\ hosted' = hosted
      /\ tx \in [Requests -> Request] /\ RequestInv(r)
      /\ ticket \in [Tickets -> {"none", "live", "used", "withdrawn"}]
      /\ installation \in [Installations -> Environments \union {None}]
      /\ credential \in [Requests -> {"none", "live", "revoked"}]
  BY DEF Commit, EInv, TypeOK, Request
<1>3. /\ t \in Tickets /\ i \in Installations /\ env \in Environments
      /\ ticket[t] = "live" /\ t \in tx[r].locks /\ i \in tx[r].locks
      /\ tx[r].revokes = LiveOf(i)
      /\ installation[i] \in {None, env}
      /\ hosted => Organization \in tx[r].locks /\ WithinQuota(i)
  <2>1. tx[r].pc \in Minting /\ tx[r].pc \in Superseding /\ tx[r].pc \in Registering
        /\ tx[r].pc \in Consuming /\ tx[r].pc \in Admitted /\ tx[r].pc # "new"
    BY <1>2 DEF Minting, Superseding, Registering, Consuming, Admitted
  <2> QED
    BY <1>2, <2>1, EnrollmentAssumption DEF RequestInv, References
<1>4. /\ ticket' = [ticket EXCEPT ![t] = "used"]
      /\ installation' = [installation EXCEPT ![i] = env]
      /\ credential' = [c \in Requests |-> IF c = r THEN "live" ELSE IF c \in LiveOf(i) THEN "revoked" ELSE credential[c]]
      /\ tx' = [tx EXCEPT ![r].pc = "enrolled", ![r].locks = {}, ![r].revokes = {}]
  <2>1. installation' = [installation EXCEPT ![i] = IF @ = None THEN env ELSE @]
    BY DEF Commit
  <2>2. installation' = [installation EXCEPT ![i] = env]
    BY <1>2, <1>3, <2>1
  <2>3. credential' = [c \in Requests |->
          IF c = r THEN "live" ELSE IF c \in tx[r].revokes THEN "revoked" ELSE credential[c]]
    BY DEF Commit
  <2>4. /\ ticket' = [ticket EXCEPT ![t] = "used"]
        /\ tx' = [tx EXCEPT ![r].pc = "enrolled", ![r].locks = {}, ![r].revokes = {}]
    BY DEF Commit
  <2> QED
    BY <1>3, <2>2, <2>3, <2>4
<1>5. /\ tx' \in [Requests -> Request]
      /\ tx'[r].pc = "enrolled" /\ tx'[r].locks = {} /\ tx'[r].revokes = {}
      /\ tx'[r].ticket = t /\ tx'[r].installation = i
      /\ \A q \in Requests \ {r} : tx'[q] = tx[q]
  BY <1>2, <1>4 DEF Request, Places
<1> HIDE DEF env
<1>6. TypeOK'
  <2>1. ticket' \in [Tickets -> {"none", "live", "used", "withdrawn"}]
    BY <1>2, <1>4
  <2>2. installation' \in [Installations -> Environments \union {None}]
    BY <1>2, <1>3, <1>4
  <2>3. credential' \in [Requests -> {"none", "live", "revoked"}]
    BY <1>2, <1>4
  <2>4. \A q, p \in Requests : q # p => tx'[q].locks \intersect tx'[p].locks = {}
    BY <1>5 DEF EInv, TypeOK
  <2>5. \A q \in Requests : tx'[q].pc \in Ended => tx'[q].locks = {}
    BY <1>5 DEF EInv, TypeOK
  <2>6. hosted' \in BOOLEAN
    BY <1>2 DEF EInv, TypeOK
  <2> QED
    BY <1>5, <2>1, <2>2, <2>3, <2>4, <2>5, <2>6 DEF TypeOK, Request
<1>7. /\ credential'[r] = "live"
      /\ \A c \in Requests \ {r} :
           credential'[c] = IF c \in LiveOf(i) THEN "revoked" ELSE credential[c]
  BY <1>4
<1>8. credential[r] = "none"
  BY <1>2 DEF RequestInv, TypeOK, EInv
<1>9. LiveOf(i)' = {r} /\ \A j : j # i => LiveOf(j)' = LiveOf(j)
  <2>1. \A c \in Requests : c \in LiveOf(i)' <=> c = r
    BY <1>5, <1>7 DEF LiveOf
  <2>2. ASSUME NEW j, j # i, NEW c \in Requests
        PROVE  c \in LiveOf(j)' <=> c \in LiveOf(j)
    BY <1>5, <1>7, <1>8, <2>2 DEF LiveOf
  <2>3. \A j : j # i => LiveOf(j)' = LiveOf(j)
    BY <2>2 DEF LiveOf
  <2> QED
    BY <2>1, <2>3 DEF LiveOf
<1>10. Enrolled' = Enrolled \union {i}
  BY <1>3, <1>9 DEF Enrolled
<1>11. \A q \in Requests \ {r} : tx[q].locks \intersect tx[r].locks = {}
  BY DEF EInv, TypeOK
<1>12. ASSUME NEW q \in Requests, q # r
       PROVE  RequestInv(q)'
  <2>1. RequestInv(q) /\ tx'[q] = tx[q] /\ t \notin tx[q].locks /\ i \notin tx[q].locks
    BY <1>3, <1>5, <1>11, <1>12 DEF EInv
  <2>2. hosted /\ tx[q].pc \in Admitted => FALSE
    BY <1>3, <1>11, <1>12, <2>1 DEF RequestInv
  <2>3. tx[q].pc \in Consuming => ticket'[tx[q].ticket] = ticket[tx[q].ticket]
    BY <1>2, <1>4, <2>1 DEF RequestInv
  <2>4. tx[q].pc \in Registering => /\ tx[q].installation # i
                                    /\ installation'[tx[q].installation] = installation[tx[q].installation]
    BY <1>2, <1>4, <2>1 DEF RequestInv
  <2>5. tx[q].pc \in Superseding => LiveOf(tx[q].installation)' = LiveOf(tx[q].installation)
    BY <1>9, <2>1, <2>4, PlacesOrder
  <2>6. credential'[q] # "none" <=> credential[q] # "none"
    BY <1>7, <1>12 DEF LiveOf
  <2> QED
    BY <1>2, <2>1, <2>2, <2>3, <2>4, <2>5, <2>6, PlacesOrder DEF RequestInv, References
<1>13. RequestInv(r)'
  BY <1>3, <1>5, <1>7, PlacesOrder DEF RequestInv, Ended
<1>14. TicketsInv'
  <2>1. \A c \in Requests : tx[c].pc = "enrolled" => c # r /\ tx'[c] = tx[c] /\ tx[c].ticket # t /\ tx[c].ticket \in Tickets
    BY <1>2, <1>3, <1>5 DEF EInv, TicketsInv, RequestInv
  <2>2. \A c \in Requests : tx'[c].pc = "enrolled" => c = r \/ tx[c].pc = "enrolled"
    BY <1>5
  <2>3. \A u \in Tickets : ticket'[u] = IF u = t THEN "used" ELSE ticket[u]
    BY <1>2, <1>4
  <2> QED
    BY <1>3, <1>5, <2>1, <2>2, <2>3 DEF EInv, TicketsInv
<1>15. OneLive'
  <2>1. ASSUME NEW c \in Requests, credential'[c] = "live", tx'[c].installation = i
        PROVE  c = r
    BY <1>5, <1>7, <2>1 DEF LiveOf
  <2>2. ASSUME NEW c \in Requests, NEW d \in Requests, credential'[c] = "live", credential'[d] = "live",
               tx'[c].installation = tx'[d].installation, tx'[c].installation # i
        PROVE  c = d
    <3>1. c # r /\ d # r /\ tx'[c] = tx[c] /\ tx'[d] = tx[d] /\ credential[c] = "live" /\ credential[d] = "live"
      BY <1>5, <1>7, <2>2
    <3> QED
      BY <2>2, <3>1 DEF EInv, OneLive
  <2> QED
    BY <2>1, <2>2 DEF OneLive
<1>16. CredentialOfItsEnvironment'
  <2> SUFFICES ASSUME NEW c \in Requests, credential'[c] = "live"
               PROVE  TicketFor(tx'[c].ticket) = installation'[tx'[c].installation]
    BY DEF CredentialOfItsEnvironment
  <2>1. CASE c = r
    BY <1>2, <1>3, <1>4, <1>5, <2>1 DEF env
  <2>2. CASE c # r
    <3>1. /\ credential[c] = "live" /\ c \notin LiveOf(i) /\ tx'[c] = tx[c]
      BY <1>5, <1>7, <2>2
    <3>2. tx[c].installation # i /\ tx[c].installation \in Installations
      BY <3>1 DEF LiveOf, EInv, RequestInv
    <3> QED
      BY <1>2, <1>4, <3>1, <3>2 DEF EInv, CredentialOfItsEnvironment
  <2> QED
    BY <2>1, <2>2
<1>17. IsFiniteSet(Enrolled)' /\ QuotaHolds'
  <2>1. /\ IsFiniteSet(Enrolled \union {i})
        /\ Cardinality(Enrolled \union {i}) = IF i \in Enrolled THEN Cardinality(Enrolled) ELSE Cardinality(Enrolled) + 1
    BY FS_AddElement DEF EInv
  <2>2. Cardinality(Enrolled) \in Nat
    BY FS_CardinalityType DEF EInv
  <2> QED
    BY <1>2, <1>3, <1>10, <2>1, <2>2, EnrollmentAssumption DEF EInv, QuotaHolds, WithinQuota
<1> QED
  BY <1>6, <1>12, <1>13, <1>14, <1>15, <1>16, <1>17 DEF EInv

LEMMA IssueHolds ==
  ASSUME EInv, NEW t \in Tickets, Issue(t) \/ WithdrawTicket(t)
  PROVE  EInv'
<1>1. /\ ticket[t] \in {"none", "live"} /\ UNCHANGED <<hosted, installation, credential, tx>>
      /\ \E new \in {"live", "withdrawn"} : ticket' = [ticket EXCEPT ![t] = new]
      /\ \A r \in Requests : tx[r].pc \in Consuming => tx[r].ticket # t
  BY DEF Issue, WithdrawTicket, EInv, RequestInv
<1>2. TypeOK'
  BY <1>1 DEF EInv, TypeOK
<1>3. /\ \A u \in Tickets \ {t} : ticket'[u] = ticket[u]
      /\ ticket'[t] # "used" /\ ticket[t] # "used"
  BY <1>1 DEF EInv, TypeOK
<1>4. /\ Enrolled' = Enrolled /\ \A j : LiveOf(j)' = LiveOf(j)
  BY <1>1 DEF Enrolled, LiveOf
<1>5. ASSUME NEW r \in Requests PROVE RequestInv(r)'
  <2>1. tx[r].pc \in Consuming => tx[r].ticket \in Tickets /\ tx[r].ticket # t
    BY <1>1, PlacesOrder DEF EInv, RequestInv
  <2> QED
    BY <1>1, <1>3, <1>4, <2>1 DEF EInv, RequestInv, WithinQuota, References
<1>6. TicketsInv'
  BY <1>1, <1>3 DEF EInv, TicketsInv, RequestInv
<1>7. OneLive' /\ CredentialOfItsEnvironment' /\ IsFiniteSet(Enrolled)' /\ QuotaHolds'
  BY <1>1, <1>4 DEF EInv, OneLive, CredentialOfItsEnvironment, QuotaHolds
<1> QED
  BY <1>2, <1>5, <1>6, <1>7 DEF EInv

LEMMA RevokeCredentialHolds ==
  ASSUME EInv, NEW c \in Requests, RevokeCredential(c)
  PROVE  EInv'
<1> DEFINE i == tx[c].installation
<1>1. /\ credential[c] = "live" /\ credential' = [credential EXCEPT ![c] = "revoked"]
      /\ \A r \in Requests : c \notin tx[r].revokes
      /\ UNCHANGED <<hosted, ticket, installation, tx>>
  BY DEF RevokeCredential
<1>2. TypeOK'
  BY <1>1 DEF EInv, TypeOK
<1>3. /\ credential'[c] = "revoked" /\ \A d \in Requests \ {c} : credential'[d] = credential[d]
  BY <1>1 DEF EInv, TypeOK
<1>4. \A j : LiveOf(j)' = LiveOf(j) \ {c}
  BY <1>1, <1>3 DEF LiveOf
<1>5. LiveOf(i) = {c} /\ i \in Installations
  BY <1>1 DEF LiveOf, EInv, OneLive, RequestInv
<1>6. \A j : j # i => c \notin LiveOf(j)
  BY DEF LiveOf
<1>7. Enrolled' = Enrolled \ {i} /\ i \in Enrolled
  BY <1>4, <1>5, <1>6 DEF Enrolled
<1>8. /\ IsFiniteSet(Enrolled \ {i}) /\ Cardinality(Enrolled \ {i}) = Cardinality(Enrolled) - 1
      /\ Cardinality(Enrolled) \in Nat
  BY <1>7, FS_RemoveElement, FS_CardinalityType DEF EInv
<1>9. ASSUME NEW r \in Requests PROVE RequestInv(r)'
  <2>1. RequestInv(r) /\ tx'[r] = tx[r]
    BY <1>1 DEF EInv
  <2>2. hosted /\ WithinQuota(tx[r].installation) => WithinQuota(tx[r].installation)'
    BY <1>1, <1>7, <1>8, EnrollmentAssumption DEF WithinQuota, EInv, QuotaHolds
  <2>3. tx[r].pc \in Superseding => LiveOf(tx[r].installation)' = LiveOf(tx[r].installation)
    BY <1>1, <1>4, <2>1 DEF RequestInv
  <2>4. credential'[r] # "none" <=> credential[r] # "none"
    BY <1>1, <1>3
  <2> QED
    BY <1>1, <2>1, <2>2, <2>3, <2>4 DEF RequestInv, References
<1>10. TicketsInv' /\ OneLive' /\ CredentialOfItsEnvironment'
  BY <1>1, <1>3 DEF EInv, TicketsInv, OneLive, CredentialOfItsEnvironment
<1>11. IsFiniteSet(Enrolled)' /\ QuotaHolds'
  BY <1>1, <1>7, <1>8, EnrollmentAssumption DEF EInv, QuotaHolds
<1> QED
  BY <1>2, <1>9, <1>10, <1>11 DEF EInv

LEMMA StutterHolds == EInv /\ UNCHANGED vars => EInv'
<1> SUFFICES ASSUME EInv, UNCHANGED vars PROVE EInv'
  OBVIOUS
<1>1. UNCHANGED <<hosted, ticket, installation, credential, tx>>
  BY DEF vars
<1>2. /\ Enrolled' = Enrolled /\ \A j : LiveOf(j)' = LiveOf(j)
  BY <1>1 DEF Enrolled, LiveOf
<1>3. TypeOK' /\ \A r \in Requests : RequestInv(r)'
  BY <1>1, <1>2 DEF EInv, TypeOK, RequestInv, WithinQuota, References
<1>4. TicketsInv' /\ OneLive' /\ CredentialOfItsEnvironment' /\ IsFiniteSet(Enrolled)' /\ QuotaHolds'
  BY <1>1, <1>2 DEF EInv, TicketsInv, OneLive, CredentialOfItsEnvironment, QuotaHolds
<1> QED
  BY <1>3, <1>4 DEF EInv

LEMMA StepHolds == EInv /\ [Next]_vars => EInv'
<1>1. ASSUME EInv, NEW r \in Requests, Break(r) PROVE EInv'
  BY <1>1, RefuseHolds DEF Break
<1>2. ASSUME EInv, NEW r \in Requests, DetectDeadlock(r) PROVE EInv'
  <2>1. WaitsFor(r) # {}
    BY <1>2 DEF DetectDeadlock
  <2>2. tx[r].pc \notin {"new"} \union Ended
    BY <2>1 DEF WaitsFor, Needs, Ended
  <2> QED
    BY <1>2, <2>2, RefuseHolds DEF DetectDeadlock
<1> QED
  BY <1>1, <1>2, IssueHolds, RevokeCredentialHolds, AuthorizeHolds, AdmitHolds, CheckInstallationHolds, ConsumeHolds,
     RegisterHolds, SupersedeHolds, MintHolds, CommitHolds, StutterHolds DEF Next, Statement

-----------------------------------------------------------------------------
(* What is promised *)

\* The inductive invariant, and with it the types, holds throughout.
THEOREM EnrollmentInvariance == Spec => []EInv
BY InitHolds, StepHolds, PTL DEF Spec

\* A set that holds x or nothing.
LEMMA AtMostOne ==
  ASSUME NEW S, \A x, y \in S : x = y
  PROVE  Cardinality(S) = IF S = {} THEN 0 ELSE 1
<1>1. CASE S = {}
  BY <1>1, FS_EmptySet
<1>2. CASE S # {}
  <2>1. PICK x : S = {x}
    BY <1>2
  <2> QED
    BY <1>2, <2>1, FS_Singleton
<1> QED
  BY <1>1, <1>2

\* A ticket mints one credential, and is used up exactly when it has (server.mjs, /v1/enroll).
THEOREM TicketsMintOnce == Spec => []TicketMintsOnce
<1>1. ASSUME EInv PROVE TicketMintsOnce
  <2> SUFFICES ASSUME NEW t \in Tickets
               PROVE  Cardinality({c \in Requests : credential[c] # "none" /\ tx[c].ticket = t})
                        = IF ticket[t] = "used" THEN 1 ELSE 0
    BY DEF TicketMintsOnce
  <2> DEFINE S == {c \in Requests : credential[c] # "none" /\ tx[c].ticket = t}
  <2>1. \A c \in Requests : credential[c] # "none" <=> tx[c].pc = "enrolled"
    BY <1>1 DEF EInv, RequestInv
  <2>2. \A c, d \in S : c = d
    BY <1>1, <2>1 DEF EInv, TicketsInv
  <2>3. S # {} <=> ticket[t] = "used"
    BY <1>1, <2>1 DEF EInv, TicketsInv
  <2> HIDE DEF S
  <2>4. Cardinality(S) = IF S = {} THEN 0 ELSE 1
    BY <2>2, AtMostOne
  <2> QED
    BY <2>3, <2>4 DEF S
<1> QED
  BY <1>1, EnrollmentInvariance, PTL

\* An installation has one live credential at most, of the environment it is registered in
\* (server.mjs, /v1/enroll).
THEOREM CredentialsSound == Spec => []CredentialsAreSound
<1>1. ASSUME EInv PROVE CredentialsAreSound
  <2>1. ASSUME NEW i \in Installations PROVE Cardinality(LiveOf(i)) <= 1
    <3>1. \A c, d \in LiveOf(i) : c = d
      BY <1>1 DEF EInv, OneLive, LiveOf
    <3>2. Cardinality(LiveOf(i)) = IF LiveOf(i) = {} THEN 0 ELSE 1
      BY <3>1, AtMostOne
    <3> QED
      BY <3>2
  <2> QED
    BY <1>1, <2>1 DEF EInv, CredentialsAreSound, OneLiveCredential
<1> QED
  BY <1>1, EnrollmentInvariance, PTL

\* The lock on the organization keeps the installations within the quota (hosted.mjs, installationQuota).
THEOREM QuotaKept == Spec => []QuotaHolds
<1>1. EInv => QuotaHolds
  BY DEF EInv
<1> QED
  BY <1>1, EnrollmentInvariance, PTL

\* What members and enrollments hold of the organization's row only delays the other: each
\* behaves as it may by itself, and keeps what is proved of it.
THEOREM TenancyIsPassive == TenancySpec => MemberSpec /\ Spec
<1>1. [TenancyNext]_tenancyVars => [MemberNext]_memberVars
  BY DEF TenancyNext, tenancyVars, ChangeStep, MemberNext
<1>2. ASSUME [TenancyNext]_tenancyVars PROVE [Next]_vars
  <2>1. ASSUME NEW r \in Requests, EnrollStep(r) PROVE Next
    BY <2>1 DEF EnrollStep, Statement, Next
  <2>2. CASE TicketStep
    BY <2>2 DEF TicketStep, Next
  <2> QED
    BY <1>2, <2>1, <2>2 DEF TenancyNext, tenancyVars
<1> QED
  BY <1>1, <1>2, PTL DEF TenancySpec, TenancyInit, MemberSpec, Spec
=============================================================================
