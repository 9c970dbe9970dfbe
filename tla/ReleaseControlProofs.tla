------------------------ MODULE ReleaseControlProofs ------------------------
(***************************************************************************)
(* Proofs that the properties of ReleaseControl hold for any number of     *)
(* releases, environments, operations, clients, workers and failures: one  *)
(* open operation, no policy without a receipt, no stale decision, no      *)
(* second upload without cause.                                            *)
(***************************************************************************)
EXTENDS ReleaseControl, TLAPS

(***************************************************************************)
(* The inductive invariant.  The safety properties do not survive a step   *)
(* by themselves: a completing worker writes its rows unconditionally, so  *)
(* what protects them is what was true of the operation all along.         *)
(***************************************************************************)

\* A release that exists belongs to an environment.
ReleasesArePlaced ==
  \A r \in Releases :
    release[r].status # "absent" => release[r].environment \in Environments

\* A head is a release of its environment that was published.
HeadsArePublished ==
  \A e \in Environments :
    environment[e].head # None =>
      /\ release[environment[e].head].environment = e
      /\ release[environment[e].head].status \notin {"absent", "draft"}

\* A recorded operation names a kind of work and a release that exists.
OperationsAreOfReleases ==
  \A k \in Operations :
    operation[k].status # "absent" =>
      /\ operation[k].action \in {"publish"} \union Directives
      /\ operation[k].resource \in Releases
      /\ release[operation[k].resource].status # "absent"

\* While a publication is open its release is still a draft.
PublicationsAreOfDrafts ==
  \A k \in Operations :
    Open(k) /\ operation[k].action = "publish" =>
      release[operation[k].resource].status = "draft"

\* While a directive is open its release is still the head and not retired.
DirectivesAreOfHeads ==
  \A k \in Operations :
    Open(k) /\ operation[k].action \in Directives =>
      /\ release[operation[k].resource].status \notin {"absent", "draft"} \union Terminal
      /\ environment[EnvironmentOf(k)].head = operation[k].resource

\* A directive in force has retired its environment's head, and nothing replaced it since.
DirectivesRetireHeads ==
  \A e \in Environments :
    environment[e].directive # None =>
      /\ environment[e].head \in Releases
      /\ release[environment[e].head].status \in Terminal

\* A busy worker holds one running operation, and nobody else holds it.
WorkersHoldOperations ==
  /\ \A w \in Workers :
       \/ worker[w] = Idle
       \/ /\ worker[w].pc # "idle"
          /\ worker[w].op \in Operations
          /\ operation[worker[w].op].status = "running"
  /\ \A v, w \in Workers :
       worker[v].op = worker[w].op /\ worker[v].op # None => v = w

\* A receipt a worker read is on its operation's branch.
ReceiptsAreServed ==
  \A w \in Workers :
    worker[w].pc = "found" =>
      worker[w].receipt \in 1..Len(served[BranchOf(worker[w].op)])

\* What the tables keep between two transactions.
TableInv ==
  /\ ReleasesArePlaced
  /\ HeadsArePublished
  /\ OperationsAreOfReleases
  /\ OneOpenOperation
  /\ PublicationsAreOfDrafts
  /\ DirectivesAreOfHeads
  /\ OnlyHeadDistributes
  /\ DirectivesRetireHeads

\* What ties the workers to the tables and to the upstream service.
WorkerInv ==
  /\ WorkersHoldOperations
  /\ ReceiptsAreServed

Inv ==
  /\ TypeOK
  /\ TableInv
  /\ WorkerInv
-----------------------------------------------------------------------------
(* Rows *)

\* A change of status.
LEMMA MovedRow ==
  ASSUME NEW row \in ReleaseRow, NEW status \in Statuses
  PROVE  /\ Moved(row, status) \in ReleaseRow
         /\ Moved(row, status).status = status
         /\ Moved(row, status).environment = row.environment
         /\ Moved(row, status).percentage = row.percentage
         /\ Moved(row, status).version = row.version + 1
         /\ Moved(row, status).upstream = row.upstream
<1>1. row.version + 1 \in Nat
  BY DEF ReleaseRow
<1>2. PICK new : new = [row EXCEPT !.status = status]
  OBVIOUS
<1>3. /\ new \in ReleaseRow
      /\ new.status = status
      /\ new.environment = row.environment
      /\ new.percentage = row.percentage
      /\ new.upstream = row.upstream
  BY <1>2 DEF ReleaseRow
<1>4. Moved(row, status) = [new EXCEPT !.version = row.version + 1]
  BY <1>2, Zenon DEF Moved
<1>5. /\ [new EXCEPT !.version = row.version + 1] \in ReleaseRow
      /\ [new EXCEPT !.version = row.version + 1].status = new.status
      /\ [new EXCEPT !.version = row.version + 1].environment = new.environment
      /\ [new EXCEPT !.version = row.version + 1].percentage = new.percentage
      /\ [new EXCEPT !.version = row.version + 1].version = row.version + 1
      /\ [new EXCEPT !.version = row.version + 1].upstream = new.upstream
  BY <1>1, <1>3 DEF ReleaseRow
<1>6. QED
  BY <1>3, <1>4, <1>5, Zenon

\* A command's closing UPDATE sets the status and the percentage.
LEMMA UpdatedRow ==
  ASSUME NEW row \in ReleaseRow, NEW status \in Statuses, NEW percentage \in Percent
  PROVE  /\ Updated(row, status, percentage) \in ReleaseRow
         /\ Updated(row, status, percentage).status = status
         /\ Updated(row, status, percentage).environment = row.environment
         /\ Updated(row, status, percentage).percentage = percentage
         /\ Updated(row, status, percentage).version = row.version + 1
         /\ Updated(row, status, percentage).upstream = row.upstream
<1>1. PICK new : new = Moved(row, status)
  OBVIOUS
<1>2. /\ new \in ReleaseRow
      /\ new.status = status
      /\ new.environment = row.environment
      /\ new.version = row.version + 1
      /\ new.upstream = row.upstream
  BY <1>1, MovedRow
<1>3. Updated(row, status, percentage) = [new EXCEPT !.percentage = percentage]
  BY <1>1, Zenon DEF Updated
<1>4. /\ [new EXCEPT !.percentage = percentage] \in ReleaseRow
      /\ [new EXCEPT !.percentage = percentage].status = new.status
      /\ [new EXCEPT !.percentage = percentage].environment = new.environment
      /\ [new EXCEPT !.percentage = percentage].percentage = percentage
      /\ [new EXCEPT !.percentage = percentage].version = new.version
      /\ [new EXCEPT !.percentage = percentage].upstream = new.upstream
  BY <1>2 DEF ReleaseRow
<1>5. QED
  BY <1>2, <1>3, <1>4, Zenon

\* A row that is displaced does not distribute afterwards; other rows stay as they are.
LEMMA DisplacedRow ==
  ASSUME NEW row \in ReleaseRow
  PROVE  /\ Displaced(row) \in ReleaseRow
         /\ row.status \in Distributing => Displaced(row).status = "paused"
         /\ row.status \notin Distributing => Displaced(row) = row
         /\ Displaced(row).status \notin Distributing
         /\ Displaced(row).environment = row.environment
         /\ Displaced(row).version >= row.version
         /\ Displaced(row).upstream = row.upstream
<1>1. "paused" \in Statuses \ Distributing
  BY DEF Statuses, Distributing
<1>2. CASE row.status \in Distributing
  <2>1. Displaced(row) = Moved(row, "paused")
    BY <1>2 DEF Displaced
  <2>2. row.version + 1 >= row.version
    BY DEF ReleaseRow
  <2>3. QED
    BY <1>1, <1>2, <2>1, <2>2, MovedRow
<1>3. CASE row.status \notin Distributing
  <2>1. Displaced(row) = row /\ row.version >= row.version
    BY <1>3 DEF Displaced, ReleaseRow
  <2>2. QED
    BY <1>3, <2>1
<1>4. QED
  BY <1>2, <1>3

\* A row that becomes ready records its receipt and keeps its version.
LEMMA ReadyRow ==
  ASSUME NEW row \in ReleaseRow, NEW receipt \in Nat
  PROVE  /\ Ready(row, receipt) \in ReleaseRow
         /\ Ready(row, receipt).status = "ready"
         /\ Ready(row, receipt).environment = row.environment
         /\ Ready(row, receipt).percentage = row.percentage
         /\ Ready(row, receipt).version = row.version
         /\ Ready(row, receipt).upstream = receipt
<1>1. PICK new : new = [row EXCEPT !.status = "ready"]
  OBVIOUS
<1>2. /\ new \in ReleaseRow
      /\ new.status = "ready"
      /\ new.environment = row.environment
      /\ new.percentage = row.percentage
      /\ new.version = row.version
  BY <1>1 DEF ReleaseRow, Statuses
<1>3. Ready(row, receipt) = [new EXCEPT !.upstream = receipt]
  BY <1>1, Zenon DEF Ready
<1>4. /\ [new EXCEPT !.upstream = receipt] \in ReleaseRow
      /\ [new EXCEPT !.upstream = receipt].status = new.status
      /\ [new EXCEPT !.upstream = receipt].environment = new.environment
      /\ [new EXCEPT !.upstream = receipt].percentage = new.percentage
      /\ [new EXCEPT !.upstream = receipt].version = new.version
      /\ [new EXCEPT !.upstream = receipt].upstream = receipt
  BY <1>2 DEF ReleaseRow
<1>5. QED
  BY <1>2, <1>3, <1>4, Zenon
-----------------------------------------------------------------------------
(* Branches and workers *)

\* What sealing does to a branch: the new item comes last, nothing else changes.
LEMMA SealAppends ==
  ASSUME TypeOK, NEW b \in Branches, Seal(b)
  PROVE  /\ served' \in [Branches -> Seq(BOOLEAN)]
         /\ \A c \in Branches :
              /\ Len(served'[c]) >= Len(served[c])
              /\ \A i \in 1..Len(served[c]) : served'[c][i] = served[c][i]
<1>1. PICK genuine \in Genuine : served' = [served EXCEPT ![b] = Append(@, genuine)]
  BY DEF Seal
<1>2. genuine \in BOOLEAN
  BY ConstantsAssumption
<1>3. ASSUME NEW s \in Seq(BOOLEAN)
      PROVE  /\ Append(s, genuine) \in Seq(BOOLEAN)
             /\ Len(Append(s, genuine)) = Len(s) + 1
             /\ \A i \in 1..Len(s) : Append(s, genuine)[i] = s[i]
  BY <1>2
<1>4. QED
  BY <1>1, <1>3 DEF TypeOK

\* A worker that is not idle holds a running operation of an existing release.
LEMMA BusyWorker ==
  ASSUME Inv, NEW w \in Workers, worker[w].pc # "idle"
  PROVE  LET k == worker[w].op IN
         /\ k \in Operations
         /\ operation[k].status = "running"
         /\ Open(k)
         /\ operation[k].action \in {"publish"} \union Directives
         /\ operation[k].resource \in Releases
         /\ release[operation[k].resource].status # "absent"
         /\ EnvironmentOf(k) \in Environments
         /\ BranchOf(k) \in Branches
<1>1. worker[w].op \in Operations /\ operation[worker[w].op].status = "running"
  BY DEF Inv, WorkerInv, WorkersHoldOperations, Idle
<1>2. QED
  BY <1>1
  DEF Inv, TableInv, OperationsAreOfReleases, ReleasesArePlaced, Open, EnvironmentOf, BranchOf,
      Branches

\* Empty tables and idle workers satisfy the invariant.
LEMMA InitInv == Init => Inv
<1> SUFFICES ASSUME Init
             PROVE  Inv
  OBVIOUS
<1>1. TypeOK
  BY ConstantsAssumption
  DEF Init, TypeOK, ReleaseRow, NoRelease, EnvironmentRow, OperationRow, NoOperation,
      View, NoView, Percent, WorkerState, Idle, Statuses, Branches
<1>2. QED
  BY <1>1
  DEF Init, Inv, TableInv, WorkerInv, ReleasesArePlaced, HeadsArePublished, OperationsAreOfReleases, OneOpenOperation,
      PublicationsAreOfDrafts, DirectivesAreOfHeads, WorkersHoldOperations, ReceiptsAreServed,
      OnlyHeadDistributes, DirectivesRetireHeads, NoRelease, NoOperation, Idle, Open,
      Distributing

\* A step that leaves the three tables alone.
LEMMA SameTables ==
  ASSUME TableInv, UNCHANGED <<release, environment, operation>>
  PROVE  TableInv'
  BY DEF TableInv, ReleasesArePlaced, HeadsArePublished, OperationsAreOfReleases, OneOpenOperation,
         PublicationsAreOfDrafts, DirectivesAreOfHeads, OnlyHeadDistributes,
         DirectivesRetireHeads, Open, EnvironmentOf

\* A step that moves operations between pending and running.
LEMMA SameOpenOperations ==
  ASSUME TableInv, UNCHANGED <<release, environment>>,
         \A k \in Operations :
           /\ operation'[k].action = operation[k].action
           /\ operation'[k].resource = operation[k].resource
           /\ operation'[k].status = operation[k].status
              \/ (Open(k) /\ operation'[k].status \in {"pending", "running"})
  PROVE  TableInv'
<1>1. \A k \in Operations :
        /\ Open(k)' <=> Open(k)
        /\ operation'[k].status = "absent" <=> operation[k].status = "absent"
        /\ EnvironmentOf(k)' = EnvironmentOf(k)
  BY DEF Open, EnvironmentOf
<1>2. ReleasesArePlaced' /\ HeadsArePublished' /\ OnlyHeadDistributes' /\ DirectivesRetireHeads'
  BY DEF TableInv, ReleasesArePlaced, HeadsArePublished, OnlyHeadDistributes,
         DirectivesRetireHeads
<1>3. OperationsAreOfReleases' /\ OneOpenOperation'
  BY <1>1 DEF TableInv, OperationsAreOfReleases, OneOpenOperation
<1>4. PublicationsAreOfDrafts' /\ DirectivesAreOfHeads'
  BY <1>1 DEF TableInv, PublicationsAreOfDrafts, DirectivesAreOfHeads
<1>5. QED
  BY <1>2, <1>3, <1>4 DEF TableInv

\* A step of a handler: workers and running operations stay as they are.
LEMMA SameWorkers ==
  ASSUME Inv, UNCHANGED worker,
         \A k \in Operations : operation[k].status = "running" => operation'[k] = operation[k],
         \A b \in Branches : Len(served[b]) \in Nat /\ Len(served'[b]) \in Nat
                             /\ Len(served'[b]) >= Len(served[b])
  PROVE  WorkerInv'
<1>1. WorkersHoldOperations'
  BY DEF Inv, WorkerInv, WorkersHoldOperations
<1>2. ASSUME NEW w \in Workers, worker[w].pc = "found"
      PROVE  worker[w].receipt \in 1..Len(served'[BranchOf(worker[w].op)'])
  <2>1. worker[w].receipt \in 1..Len(served[BranchOf(worker[w].op)])
    BY <1>2 DEF Inv, WorkerInv, ReceiptsAreServed
  <2>2. /\ worker[w].op \in Operations
        /\ operation[worker[w].op].status = "running"
        /\ BranchOf(worker[w].op) \in Branches
    BY <1>2, BusyWorker
  <2>3. BranchOf(worker[w].op)' = BranchOf(worker[w].op)
    BY <2>2 DEF BranchOf
  <2>4. QED
    BY <2>1, <2>2, <2>3
<1>3. QED
  BY <1>1, <1>2 DEF WorkerInv, ReceiptsAreServed

-----------------------------------------------------------------------------
(* Handlers *)

\* Reading a release writes no table.
LEMMA ReadReleaseInv ==
  ASSUME Inv, NEW c \in Clients, NEW r \in Releases, ReadRelease(c, r)
  PROVE  Inv'
<1>1. TypeOK'
  BY DEF ReadRelease, Inv, TypeOK, View, ReleaseRow
<1>2. TableInv'
  BY SameTables DEF ReadRelease, Inv
<1>3. \A b \in Branches : Len(served[b]) \in Nat
  BY DEF Inv, TypeOK
<1>4. WorkerInv'
  BY <1>3, SameWorkers DEF ReadRelease
<1>5. QED
  BY <1>1, <1>2, <1>4 DEF Inv

\* A publication is accepted for a new release of an environment nothing is open for.
LEMMA PublishInv ==
  ASSUME Inv, NEW e \in Environments, NEW r \in Releases, NEW k \in Operations, Publish(e, r, k)
  PROVE  Inv'
<1>1. TypeOK'
  BY DEF Publish, Enqueue, Inv, TypeOK, ReleaseRow, Percent, OperationRow, Statuses
<1>2. /\ release[r].status = "absent"
      /\ release'[r].status = "draft"
      /\ release'[r].environment = e
      /\ \A q \in Releases : q # r => release'[q] = release[q]
      /\ environment' = environment
  BY DEF Publish, Inv, TypeOK
<1>3. /\ operation[k].status = "absent"
      /\ operation'[k] = [status |-> "pending", action |-> "publish", resource |-> r]
      /\ \A l \in Operations : l # k => operation'[l] = operation[l]
  BY DEF Publish, Enqueue, Inv, TypeOK
<1>4. \A l \in Operations : l # k /\ operation[l].status # "absent" =>
        /\ operation[l].resource \in Releases
        /\ operation[l].resource # r
        /\ EnvironmentOf(l)' = EnvironmentOf(l)
        /\ Open(l)' <=> Open(l)
        /\ Open(l) => EnvironmentOf(l) # e
  BY <1>2, <1>3 DEF Publish, Busy, Inv, TableInv, OperationsAreOfReleases, EnvironmentOf, Open
<1>5. ReleasesArePlaced' /\ HeadsArePublished'
  <2>1. ReleasesArePlaced'
    BY <1>2 DEF Inv, TableInv, ReleasesArePlaced
  <2>2. \A d \in Environments : environment[d].head # None =>
          environment[d].head \in Releases /\ environment[d].head # r
    BY <1>2 DEF Inv, TypeOK, EnvironmentRow, TableInv, HeadsArePublished
  <2>3. QED
    BY <1>2, <2>1, <2>2 DEF Inv, TableInv, HeadsArePublished
<1>6. OperationsAreOfReleases'
  BY <1>2, <1>3, <1>4 DEF Inv, TableInv, OperationsAreOfReleases
<1>7. OneOpenOperation'
  <2>1. EnvironmentOf(k)' = e
    BY <1>2, <1>3 DEF EnvironmentOf
  <2>2. \A l \in Operations : l # k /\ Open(l)' => operation[l].status # "absent"
    BY <1>3 DEF Open
  <2>3. QED
    BY <1>4, <2>1, <2>2 DEF Inv, TableInv, OneOpenOperation
<1>8. PublicationsAreOfDrafts'
  <2>1. \A l \in Operations : l # k /\ Open(l)' => operation[l].status # "absent"
    BY <1>3 DEF Open
  <2>2. QED
    BY <1>2, <1>3, <1>4, <2>1 DEF Inv, TableInv, PublicationsAreOfDrafts
<1>9. DirectivesAreOfHeads'
  <2> SUFFICES ASSUME NEW l \in Operations, Open(l)', operation'[l].action \in Directives
               PROVE  /\ release'[operation'[l].resource].status
                           \notin {"absent", "draft"} \union Terminal
                      /\ environment'[EnvironmentOf(l)'].head = operation'[l].resource
    BY DEF DirectivesAreOfHeads
  <2>1. l # k
    BY <1>3 DEF Directives
  <2>2. operation[l].status # "absent"
    BY <1>3, <2>1 DEF Open
  <2>3. QED
    BY <1>2, <1>3, <1>4, <2>1, <2>2 DEF Inv, TableInv, DirectivesAreOfHeads
<1>10. OnlyHeadDistributes' /\ DirectivesRetireHeads'
  BY <1>2 DEF Inv, TableInv, OnlyHeadDistributes, DirectivesRetireHeads, Distributing, Terminal
<1>11. \A b \in Branches : Len(served[b]) \in Nat
  BY DEF Inv, TypeOK
<1>12. WorkerInv'
  BY <1>3, <1>11, SameWorkers DEF Publish
<1>13. QED
  BY <1>1, <1>5, <1>6, <1>7, <1>8, <1>9, <1>10, <1>12 DEF Inv, TableInv

\* A directive is accepted for the head of an environment nothing is open for.
LEMMA RequestDirectiveInv ==
  ASSUME Inv, NEW c \in Clients, NEW r \in Releases, NEW action \in Directives,
         NEW k \in Operations, RequestDirective(c, r, action, k)
  PROVE  Inv'
<1>1. TypeOK'
  BY DEF RequestDirective, Enqueue, Inv, TypeOK, OperationRow
<1>2. /\ release[r].status \notin {"absent", "draft"} \union Terminal
      /\ environment[release[r].environment].head = r
      /\ release' = release
      /\ environment' = environment
  BY DEF RequestDirective, Accepts
<1>3. /\ operation[k].status = "absent"
      /\ operation'[k] = [status |-> "pending", action |-> action, resource |-> r]
      /\ \A l \in Operations : l # k => operation'[l] = operation[l]
  BY DEF RequestDirective, Enqueue, Inv, TypeOK
<1>4. \A l \in Operations : l # k =>
        /\ EnvironmentOf(l)' = EnvironmentOf(l)
        /\ Open(l)' <=> Open(l)
        /\ Open(l) => EnvironmentOf(l) # release[r].environment
  BY <1>2, <1>3 DEF RequestDirective, Accepts, Busy, EnvironmentOf, Open
<1>5. EnvironmentOf(k)' = release[r].environment
  BY <1>2, <1>3 DEF EnvironmentOf
<1>6. /\ ReleasesArePlaced' /\ HeadsArePublished'
      /\ OnlyHeadDistributes' /\ DirectivesRetireHeads'
  BY <1>2 DEF Inv, TableInv, ReleasesArePlaced, HeadsArePublished, OnlyHeadDistributes,
              DirectivesRetireHeads
<1>7. OperationsAreOfReleases'
  BY <1>2, <1>3 DEF Inv, TableInv, OperationsAreOfReleases
<1>8. OneOpenOperation'
  BY <1>4, <1>5 DEF Inv, TableInv, OneOpenOperation
<1>9. PublicationsAreOfDrafts'
  BY <1>2, <1>3 DEF Inv, TableInv, PublicationsAreOfDrafts, Directives, Open
<1>10. DirectivesAreOfHeads'
  BY <1>2, <1>3, <1>4, <1>5 DEF Inv, TableInv, DirectivesAreOfHeads
<1>11. \A b \in Branches : Len(served[b]) \in Nat
  BY DEF Inv, TypeOK
<1>12. WorkerInv'
  BY <1>3, <1>11, SameWorkers DEF RequestDirective
<1>13. QED
  BY <1>1, <1>6, <1>7, <1>8, <1>9, <1>10, <1>12 DEF Inv, TableInv

\* A rollout makes its release the head and displaces the old one; the operations
\* of other environments are about other releases.
LEMMA RolloutInv ==
  ASSUME Inv, NEW c \in Clients, NEW r \in Releases, NEW p \in Percentages, Rollout(c, r, p)
  PROVE  Inv'
<1> DEFINE e == release[r].environment
           old == environment[e].head
<1>1. /\ p \in Percent
      /\ StatusAt(p) \in Statuses \ ({"absent", "draft"} \union Terminal)
  BY ConstantsAssumption DEF StatusAt, Statuses, Distributing, Terminal
<1>2. /\ release[r].status \notin {"absent", "draft"} \union Terminal
      /\ ~Busy(e)
      /\ e \in Environments
  BY DEF Rollout, Accepts, Inv, TableInv, ReleasesArePlaced
<1>3. /\ release' \in [Releases -> ReleaseRow]
      /\ release'[r] = Updated(release[r], StatusAt(p), p)
      /\ old \in Releases => old = r \/ release'[old] = Displaced(release[old])
      /\ \A q \in Releases : q \notin {r, old} => release'[q] = release[q]
  <2>1. release' = [q \in Releases |->
                      IF q = r THEN Updated(release[r], StatusAt(p), p)
                      ELSE IF q = old THEN Displaced(release[q])
                      ELSE release[q]]
    BY DEF Rollout
  <2>2. \A q \in Releases : Displaced(release[q]) \in ReleaseRow /\ release[q] \in ReleaseRow
    BY DisplacedRow DEF Inv, TypeOK
  <2>3. Updated(release[r], StatusAt(p), p) \in ReleaseRow
    BY <1>1, UpdatedRow DEF Inv, TypeOK
  <2>4. QED
    BY <2>1, <2>2, <2>3
<1>4. /\ release'[r].status = StatusAt(p)
      /\ \A q \in Releases : release'[q].environment = release[q].environment
      /\ \A q \in Releases : q # r =>
           \/ release'[q] = release[q] /\ q # old
           \/ release[q].status \notin Distributing /\ release'[q] = release[q]
           \/ /\ q = old
              /\ release[q].status \in Distributing
              /\ release'[q].status = "paused"
  <2>1. \A q \in Releases : release[q] \in ReleaseRow
    BY DEF Inv, TypeOK
  <2>2. release'[r].status = StatusAt(p) /\ release'[r].environment = release[r].environment
    <3>1. release[r] \in ReleaseRow /\ StatusAt(p) \in Statuses /\ p \in Percent
      BY <1>1, <2>1
    <3>2. /\ Updated(release[r], StatusAt(p), p).status = StatusAt(p)
          /\ Updated(release[r], StatusAt(p), p).environment = release[r].environment
      BY <3>1, UpdatedRow
    <3>3. QED
      BY <1>3, <3>2
  <2>3. QED
    BY <1>3, <2>1, <2>2, DisplacedRow
<1>5. /\ environment' \in [Environments -> EnvironmentRow]
      /\ environment'[e] = [head |-> r, directive |-> None]
      /\ \A d \in Environments : d # e => environment'[d] = environment[d]
  BY <1>2 DEF Rollout, Inv, TypeOK, EnvironmentRow
<1>6. /\ operation' = operation
      /\ \A k \in Operations : EnvironmentOf(k)' = release'[operation[k].resource].environment
      /\ \A k \in Operations : Open(k)' <=> Open(k)
      /\ \A k \in Operations : Open(k) =>
           /\ operation[k].resource \in Releases
           /\ EnvironmentOf(k)' = EnvironmentOf(k)
           /\ EnvironmentOf(k) # e
           /\ EnvironmentOf(k) \in Environments
  BY <1>2, <1>4 DEF Rollout, Busy, EnvironmentOf, Open, Inv, TableInv, OperationsAreOfReleases,
                    ReleasesArePlaced
<1>7. TypeOK'
  BY <1>3, <1>5 DEF Rollout, Inv, TypeOK
<1>8. ReleasesArePlaced'
  BY <1>1, <1>2, <1>4 DEF Inv, TableInv, ReleasesArePlaced, Distributing
<1>9. HeadsArePublished'
  <2>1. ASSUME NEW d \in Environments, d # e, environment[d].head # None
        PROVE  /\ environment[d].head \in Releases
               /\ release'[environment[d].head] = release[environment[d].head]
    BY <1>3, <2>1, <1>2 DEF Inv, TypeOK, EnvironmentRow, TableInv, HeadsArePublished
  <2>2. QED
    BY <1>1, <1>2, <1>4, <1>5, <2>1 DEF Inv, TableInv, HeadsArePublished
<1>10. OperationsAreOfReleases'
  BY <1>1, <1>4, <1>6 DEF Inv, TableInv, OperationsAreOfReleases
<1>11. OneOpenOperation'
  BY <1>6 DEF Inv, TableInv, OneOpenOperation
<1>12. \A k \in Operations : Open(k) =>
         release'[operation[k].resource] = release[operation[k].resource]
  <2>1. ASSUME NEW k \in Operations, Open(k)
        PROVE  operation[k].resource \in Releases \ {r, old}
    <3>1. operation[k].resource \in Releases /\ release[operation[k].resource].environment # e
      BY <1>6, <2>1 DEF EnvironmentOf
    <3>2. old # None => release[old].environment = e
      BY <1>2 DEF Inv, TableInv, HeadsArePublished
    <3>3. operation[k].resource # None
      BY <3>1, ConstantsAssumption DEF Branches
    <3>4. QED
      BY <3>1, <3>2, <3>3
  <2>2. QED
    BY <1>3, <2>1
<1>13. PublicationsAreOfDrafts' /\ DirectivesAreOfHeads'
  BY <1>5, <1>6, <1>12 DEF Inv, TableInv, PublicationsAreOfDrafts, DirectivesAreOfHeads
<1>14. OnlyHeadDistributes'
  <2> SUFFICES ASSUME NEW q \in Releases, release'[q].status \in Distributing
               PROVE  environment'[release'[q].environment].head = q
    BY DEF OnlyHeadDistributes
  <2>1. CASE q = r
    BY <1>2, <1>4, <1>5, <2>1
  <2>2. CASE q # r
    <3>1. release'[q] = release[q] /\ release[q].status \in Distributing
      BY <1>4, <2>2 DEF Distributing
    <3>2. release[q].environment # e
      BY <1>4, <2>2, <3>1 DEF Inv, TableInv, OnlyHeadDistributes, Distributing
    <3>3. release[q].environment \in Environments
      BY <3>1 DEF Inv, TableInv, ReleasesArePlaced, Distributing
    <3>4. QED
      BY <1>5, <3>1, <3>2, <3>3 DEF Inv, TableInv, OnlyHeadDistributes
  <2>3. QED
    BY <2>1, <2>2
<1>15. DirectivesRetireHeads'
  <2> SUFFICES ASSUME NEW d \in Environments, environment'[d].directive # None
               PROVE  /\ environment'[d].head \in Releases
                      /\ release'[environment'[d].head].status \in Terminal
    BY DEF DirectivesRetireHeads
  <2>1. d # e /\ environment'[d] = environment[d]
    BY <1>2, <1>5
  <2>2. environment[d].head \in Releases /\ release[environment[d].head].status \in Terminal
    BY <2>1 DEF Inv, TableInv, DirectivesRetireHeads
  <2>3. QED
    BY <1>2, <1>4, <2>1, <2>2 DEF Terminal, Distributing
<1>16. \A b \in Branches : Len(served[b]) \in Nat
  BY DEF Inv, TypeOK
<1>17. WorkerInv'
  BY <1>6, <1>16, SameWorkers DEF Rollout
<1>18. QED
  BY <1>7, <1>8, <1>9, <1>10, <1>11, <1>13, <1>14, <1>15, <1>17 DEF Inv, TableInv

\* Pausing and resuming rewrite one row, of a release no operation is open for.
LEMMA UpdatedReleaseInv ==
  ASSUME Inv, NEW r \in Releases, NEW status \in {"paused"} \union Distributing,
         release[r].status \notin {"absent", "draft"} \union Terminal,
         ~Busy(release[r].environment),
         status \in Distributing => environment[release[r].environment].head = r,
         release' = [release EXCEPT ![r] = Updated(@, status, @.percentage)],
         UNCHANGED <<environment, operation, view, worker, served, timeout, faults>>
  PROVE  Inv'
<1>1. release[r] \in ReleaseRow /\ release[r].percentage \in Percent /\ status \in Statuses
  BY DEF Inv, TypeOK, ReleaseRow, Statuses
<1>2. /\ Updated(release[r], status, release[r].percentage) \in ReleaseRow
      /\ Updated(release[r], status, release[r].percentage).status = status
      /\ Updated(release[r], status, release[r].percentage).environment = release[r].environment
  BY <1>1, UpdatedRow
<1>3. /\ release' \in [Releases -> ReleaseRow]
      /\ release'[r].status = status
      /\ release'[r].environment = release[r].environment
      /\ \A q \in Releases : q # r => release'[q] = release[q]
  BY <1>2 DEF Inv, TypeOK
<1>4. TypeOK'
  BY <1>3 DEF Inv, TypeOK
<1>5. \A k \in Operations :
        /\ Open(k)' <=> Open(k)
        /\ Open(k) => operation[k].resource \in Releases \ {r}
        /\ Open(k) => EnvironmentOf(k)' = EnvironmentOf(k)
  BY <1>3 DEF Busy, EnvironmentOf, Open, Inv, TableInv, OperationsAreOfReleases
<1>6. ReleasesArePlaced' /\ HeadsArePublished'
  BY <1>3 DEF Inv, TypeOK, EnvironmentRow, TableInv, ReleasesArePlaced, HeadsArePublished,
              Distributing
<1>7. OperationsAreOfReleases'
  BY <1>3 DEF Inv, TableInv, OperationsAreOfReleases, Distributing
<1>8. OneOpenOperation' /\ PublicationsAreOfDrafts'
  BY <1>3, <1>5 DEF Inv, TableInv, OneOpenOperation, PublicationsAreOfDrafts
<1>9. DirectivesAreOfHeads'
  BY <1>3, <1>5 DEF Inv, TableInv, DirectivesAreOfHeads
<1>10. OnlyHeadDistributes' /\ DirectivesRetireHeads'
  BY <1>3 DEF Inv, TableInv, OnlyHeadDistributes, DirectivesRetireHeads, Distributing
<1>11. \A b \in Branches : Len(served[b]) \in Nat
  BY DEF Inv, TypeOK
<1>12. WorkerInv'
  BY <1>11, SameWorkers
<1>13. QED
  BY <1>4, <1>6, <1>7, <1>8, <1>9, <1>10, <1>12 DEF Inv, TableInv

\* Pausing a distributing release.
LEMMA PauseInv ==
  ASSUME Inv, NEW c \in Clients, NEW r \in Releases, Pause(c, r)
  PROVE  Inv'
  BY UpdatedReleaseInv DEF Pause, Accepts, Distributing

\* Resuming the head.
LEMMA ResumeInv ==
  ASSUME Inv, NEW c \in Clients, NEW r \in Releases, Resume(c, r)
  PROVE  Inv'
<1>1. StatusAt(release[r].percentage) \in Distributing
  BY DEF StatusAt, Distributing
<1>2. release' = [release EXCEPT ![r] = Updated(@, StatusAt(release[r].percentage), @.percentage)]
  BY DEF Resume
<1>3. QED
  BY <1>1, <1>2, UpdatedReleaseInv DEF Resume, Accepts
-----------------------------------------------------------------------------
(* The upstream service and the workers *)

\* A late upload only adds to a branch.
LEMMA LandInv ==
  ASSUME Inv, NEW b \in Branches, Land(b)
  PROVE  Inv'
<1>1. /\ served' \in [Branches -> Seq(BOOLEAN)]
      /\ \A c \in Branches : Len(served'[c]) >= Len(served[c])
  BY SealAppends DEF Land, Inv
<1>2. TypeOK'
  BY <1>1 DEF Land, Inv, TypeOK
<1>3. TableInv'
  BY SameTables DEF Land, Inv
<1>4. \A c \in Branches : Len(served[c]) \in Nat /\ Len(served'[c]) \in Nat
  BY <1>1 DEF Inv, TypeOK
<1>5. WorkerInv'
  BY <1>1, <1>4, SameWorkers DEF Land
<1>6. QED
  BY <1>2, <1>3, <1>5 DEF Inv

\* A worker takes an open operation no other worker holds.
LEMMA ClaimInv ==
  ASSUME Inv, NEW w \in Workers, NEW k \in Operations, Claim(w, k)
  PROVE  Inv'
<1>1. /\ worker'[w] = [pc |-> "started", op |-> k, receipt |-> 0]
      /\ \A v \in Workers : v # w => worker'[v] = worker[v]
      /\ \A v \in Workers : worker[v].op # k
      /\ worker' \in [Workers -> WorkerState]
  BY DEF Claim, Unlocked, Inv, TypeOK, WorkerState
<1>2. /\ operation' \in [Operations -> OperationRow]
      /\ operation'[k].status = "running"
      /\ \A l \in Operations :
           /\ l # k => operation'[l] = operation[l]
           /\ operation'[l].action = operation[l].action
           /\ operation'[l].resource = operation[l].resource
  BY DEF Claim, Inv, TypeOK, OperationRow
<1>3. TypeOK'
  BY <1>1, <1>2 DEF Claim, Inv, TypeOK
<1>4. TableInv'
  BY <1>2, SameOpenOperations DEF Claim, Inv
<1>5. WorkersHoldOperations'
  <2>1. None \notin Operations
    BY ConstantsAssumption DEF Branches
  <2>2. QED
    BY <1>1, <1>2, <2>1 DEF Inv, WorkerInv, WorkersHoldOperations, Idle
<1>6. ReceiptsAreServed'
  BY <1>1, <1>2 DEF Claim, Inv, WorkerInv, ReceiptsAreServed, BranchOf, WorkersHoldOperations, Idle
<1>7. QED
  BY <1>3, <1>4, <1>5, <1>6 DEF Inv, WorkerInv

\* A worker reads the branch, issues its command or fails: it keeps its operation.
LEMMA SameOperationInv ==
  ASSUME Inv, NEW w \in Workers, worker[w].pc # "idle",
         NEW pc \in {"missing", "issued", "found", "failing"}, NEW receipt \in Nat,
         worker' = [worker EXCEPT ![w] = [pc |-> pc, op |-> worker[w].op, receipt |-> receipt]],
         pc = "found" => receipt \in 1..Len(served'[BranchOf(worker[w].op)]),
         served' \in [Branches -> Seq(BOOLEAN)],
         \A b \in Branches : Len(served'[b]) >= Len(served[b]),
         timeout' \in [Branches -> {"never", "awaited", "landed"}],
         faults' \in Nat,
         UNCHANGED <<release, environment, operation, view>>
  PROVE  Inv'
<1>1. /\ worker'[w] = [pc |-> pc, op |-> worker[w].op, receipt |-> receipt]
      /\ \A v \in Workers : v # w => worker'[v] = worker[v]
      /\ \A v \in Workers : worker'[v].op = worker[v].op
      /\ worker' \in [Workers -> WorkerState]
  BY DEF Inv, TypeOK, WorkerState
<1>2. TypeOK'
  BY <1>1 DEF Inv, TypeOK
<1>3. TableInv'
  BY SameTables DEF Inv
<1>4. WorkersHoldOperations'
  <2>1. worker[w].op \in Operations /\ operation[worker[w].op].status = "running"
    BY BusyWorker
  <2>2. \A u, v \in Workers : worker'[u].op = worker'[v].op /\ worker'[u].op # None => u = v
    BY <1>1 DEF Inv, WorkerInv, WorkersHoldOperations
  <2>3. \A v \in Workers :
          \/ worker'[v] = Idle
          \/ /\ worker'[v].pc # "idle"
             /\ worker'[v].op \in Operations
             /\ operation'[worker'[v].op].status = "running"
    <3>1. pc # "idle"
      OBVIOUS
    <3>2. QED
      BY <1>1, <2>1, <3>1 DEF Inv, WorkerInv, WorkersHoldOperations
  <2>4. QED
    BY <2>2, <2>3 DEF WorkersHoldOperations
<1>5. ASSUME NEW v \in Workers, worker'[v].pc = "found"
      PROVE  worker'[v].receipt \in 1..Len(served'[BranchOf(worker[v].op)'])
  <2>1. BranchOf(worker[v].op)' = BranchOf(worker[v].op)
    BY <1>1 DEF BranchOf
  <2>2. CASE v = w
    BY <1>1, <1>5, <2>1, <2>2
  <2>3. CASE v # w
    <3>1. worker[v].pc = "found" /\ worker'[v].receipt = worker[v].receipt
      BY <1>1, <1>5, <2>3
    <3>2. worker[v].receipt \in 1..Len(served[BranchOf(worker[v].op)])
      BY <3>1 DEF Inv, WorkerInv, ReceiptsAreServed
    <3>3. BranchOf(worker[v].op) \in Branches
      BY <3>1, BusyWorker
    <3>4. /\ Len(served[BranchOf(worker[v].op)]) \in Nat
          /\ Len(served'[BranchOf(worker[v].op)]) \in Nat
      BY <3>3 DEF Inv, TypeOK
    <3>5. QED
      BY <2>1, <3>1, <3>2, <3>3, <3>4
  <2>4. QED
    BY <2>2, <2>3
<1>6. QED
  BY <1>2, <1>3, <1>4, <1>5 DEF Inv, WorkerInv, ReceiptsAreServed

\* What Moves makes of a worker's state.
LEMMA MovesWorker ==
  ASSUME Inv, NEW w \in Workers, NEW pc, Moves(w, pc)
  PROVE  /\ worker' = [worker EXCEPT ![w] = [pc |-> pc, op |-> worker[w].op,
                                             receipt |-> worker[w].receipt]]
         /\ worker[w].receipt \in Nat
<1>1. worker[w] \in WorkerState
  BY DEF Inv, TypeOK
<1>2. [worker[w] EXCEPT !.pc = pc] = [pc |-> pc, op |-> worker[w].op, receipt |-> worker[w].receipt]
  BY <1>1 DEF WorkerState
<1>3. QED
  BY <1>1, <1>2 DEF Moves, WorkerState

\* Nothing happens upstream in a step that leaves served alone.
LEMMA SameBranches ==
  ASSUME Inv, UNCHANGED served
  PROVE  /\ served' \in [Branches -> Seq(BOOLEAN)]
         /\ \A b \in Branches : Len(served'[b]) >= Len(served[b])
<1>1. \A b \in Branches : Len(served[b]) \in Nat
  BY DEF Inv, TypeOK
<1>2. QED
  BY <1>1 DEF Inv, TypeOK

\* Whatever becomes of a call that is given up, it leaves the tables alone.
LEMMA GivesUpTyped ==
  ASSUME Inv, NEW w \in Workers, GivesUp(w)
  PROVE  timeout' \in [Branches -> {"never", "awaited", "landed"}]
  BY DEF GivesUp, Inv, TypeOK

\* What inspect() finds is on the branch, and branches only grow.
LEMMA InspectInv ==
  ASSUME Inv, NEW w \in Workers, Inspect(w)
  PROVE  Inv'
<1> DEFINE found == served[BranchOf(worker[w].op)]
<1>1. worker[w].pc # "idle" /\ UNCHANGED <<release, environment, operation, view, served, timeout, faults>>
  BY DEF Inspect
<1>2. timeout' \in [Branches -> {"never", "awaited", "landed"}] /\ faults' \in Nat
  BY <1>1 DEF Inv, TypeOK
<1>3. BranchOf(worker[w].op) \in Branches
  BY <1>1, BusyWorker
<1>4. found \in Seq(BOOLEAN)
  BY <1>3 DEF Inv, TypeOK
<1>5. CASE /\ found # <<>>
           /\ worker' = [worker EXCEPT ![w] = [pc |-> "found", op |-> worker[w].op,
                                               receipt |-> Len(found)]]
  <2>1. Len(found) \in Nat /\ Len(found) \in 1..Len(found)
    BY <1>4, <1>5
  <2>2. QED
    BY <1>1, <1>2, <1>5, <2>1, SameBranches, SameOperationInv
<1>6. ASSUME NEW pc \in {"missing", "failing"}, Moves(w, pc)
      PROVE  Inv'
  <2>1. /\ worker[w].receipt \in Nat
        /\ worker' = [worker EXCEPT ![w] = [pc |-> pc, op |-> worker[w].op,
                                            receipt |-> worker[w].receipt]]
    BY <1>6, MovesWorker
  <2>2. QED
    BY <1>1, <1>2, <2>1, SameBranches, SameOperationInv
<1>7. QED
  BY <1>5, <1>6 DEF Inspect

\* An upload or directive adds to the branch of its operation.
LEMMA IssueInv ==
  ASSUME Inv, NEW w \in Workers, Issue(w)
  PROVE  Inv'
<1>1. worker[w].pc # "idle" /\ UNCHANGED <<release, environment, operation, view, timeout, faults>>
  BY DEF Issue
<1>2. timeout' \in [Branches -> {"never", "awaited", "landed"}] /\ faults' \in Nat
  BY <1>1 DEF Inv, TypeOK
<1>3. BranchOf(worker[w].op) \in Branches
  BY <1>1, BusyWorker
<1>4. /\ served' \in [Branches -> Seq(BOOLEAN)]
      /\ \A b \in Branches : Len(served'[b]) >= Len(served[b])
  BY <1>3, SealAppends DEF Issue, Inv
<1>5. QED
  BY <1>1, <1>2, <1>4, MovesWorker, SameOperationInv DEF Issue

\* Where no COMMIT takes effect unanswered, what fails has not written the tables.
LEMMA FailureIsVoid ==
  ASSUME ~LostCommits, NEW w \in Workers, CallFails(w)
  PROVE  UNCHANGED <<release, environment, operation>>
<1>1. PICK committed \in {FALSE, LostCommits} :
        IF committed THEN Concludes(w) ELSE UNCHANGED <<release, environment, operation>>
  BY DEF CallFails
<1>2. committed = FALSE
  BY ConstantsAssumption
<1>3. QED
  BY <1>1, <1>2

\* A failed call and a refused receipt change no table.
LEMMA FailingInv ==
  ASSUME ~LostCommits, Inv, NEW w \in Workers, CallFails(w) \/ RefuseReceipt(w)
  PROVE  Inv'
<1>1. /\ worker[w].pc # "idle"
      /\ Moves(w, "failing")
      /\ UNCHANGED <<release, environment, operation, view, served>>
      /\ timeout' \in [Branches -> {"never", "awaited", "landed"}]
      /\ faults' \in Nat
  BY GivesUpTyped DEF CallFails, RefuseReceipt, Inv, TypeOK
<1>2. QED
  BY <1>1, MovesWorker, SameBranches, SameOperationInv

\* A worker that lets go of its operation leaves those of the others alone.
LEMMA LetGo ==
  ASSUME Inv, NEW w \in Workers, worker' = [worker EXCEPT ![w] = Idle], UNCHANGED served,
         \A k \in Operations : k # worker[w].op => operation'[k] = operation[k]
  PROVE  /\ worker' \in [Workers -> WorkerState]
         /\ WorkerInv'
<1>1. /\ worker'[w] = Idle
      /\ \A v \in Workers : v # w => worker'[v] = worker[v]
      /\ worker' \in [Workers -> WorkerState]
  BY DEF Inv, TypeOK, WorkerState, Idle
<1>2. ASSUME NEW v \in Workers, v # w, worker[v].pc # "idle"
      PROVE  /\ worker[v].op \in Operations
             /\ operation[worker[v].op].status = "running"
             /\ operation'[worker[v].op] = operation[worker[v].op]
  <2>1. worker[v].op \in Operations /\ operation[worker[v].op].status = "running"
    BY <1>2, BusyWorker
  <2>2. worker[v].op # None
    BY <2>1, ConstantsAssumption DEF Branches
  <2>3. worker[v].op # worker[w].op
    BY <1>2, <2>2 DEF Inv, WorkerInv, WorkersHoldOperations
  <2>4. QED
    BY <2>1, <2>3
<1>3. WorkersHoldOperations'
  <2>1. \A u, v \in Workers : worker'[u].op = worker'[v].op /\ worker'[u].op # None => u = v
    BY <1>1 DEF Inv, WorkerInv, WorkersHoldOperations, Idle
  <2>2. QED
    BY <1>1, <1>2, <2>1 DEF Inv, WorkerInv, WorkersHoldOperations
<1>4. ReceiptsAreServed'
  <2> SUFFICES ASSUME NEW v \in Workers, worker'[v].pc = "found"
               PROVE  worker'[v].receipt \in 1..Len(served'[BranchOf(worker[v].op)'])
    BY DEF ReceiptsAreServed
  <2>1. v # w /\ worker'[v] = worker[v] /\ worker[v].pc = "found"
    BY <1>1 DEF Idle
  <2>2. BranchOf(worker[v].op)' = BranchOf(worker[v].op)
    BY <1>2, <2>1 DEF BranchOf
  <2>3. QED
    BY <2>1, <2>2 DEF Inv, WorkerInv, ReceiptsAreServed
<1>5. QED
  BY <1>1, <1>3, <1>4 DEF WorkerInv

\* A retained operation is open as before.
LEMMA RetainInv ==
  ASSUME Inv, NEW w \in Workers, Retain(w)
  PROVE  Inv'
<1>1. worker[w].op \in Operations /\ Open(worker[w].op)
  BY BusyWorker DEF Retain
<1>2. /\ operation' \in [Operations -> OperationRow]
      /\ \A k \in Operations :
           /\ k # worker[w].op => operation'[k] = operation[k]
           /\ operation'[k].action = operation[k].action
           /\ operation'[k].resource = operation[k].resource
           /\ k = worker[w].op => operation'[k].status = "pending"
  BY <1>1 DEF Retain, Inv, TypeOK, OperationRow
<1>3. TableInv'
  BY <1>1, <1>2, SameOpenOperations DEF Retain, Inv
<1>4. worker' \in [Workers -> WorkerState] /\ WorkerInv'
  BY <1>2, LetGo DEF Retain
<1>5. TypeOK'
  BY <1>2, <1>4 DEF Retain, Inv, TypeOK
<1>6. QED
  BY <1>3, <1>4, <1>5 DEF Inv

\* A crash leaves its operation running, for the next worker to claim.
LEMMA AbandonInv ==
  ASSUME Inv, NEW w \in Workers, Abandon(w)
  PROVE  Inv'
<1>1. TableInv'
  BY SameTables DEF Abandon, Inv
<1>2. worker' \in [Workers -> WorkerState] /\ WorkerInv'
  BY LetGo DEF Abandon
<1>3. timeout' \in [Branches -> {"never", "awaited", "landed"}] /\ faults' \in Nat
  BY GivesUpTyped DEF Abandon, Inv, TypeOK
<1>4. TypeOK'
  BY <1>2, <1>3 DEF Abandon, Inv, TypeOK
<1>5. QED
  BY <1>1, <1>2, <1>4 DEF Inv

\* A completing worker writes a draft ready, which nobody can have seen otherwise.
LEMMA CompletePublicationInv ==
  ASSUME Inv, NEW w \in Workers, Complete(w), operation[worker[w].op].action = "publish"
  PROVE  Inv'
<1> DEFINE k == worker[w].op
           r == operation[k].resource
<1>1. /\ k \in Operations /\ Open(k) /\ r \in Releases
      /\ release[r].status = "draft"
      /\ release[r] \in ReleaseRow
      /\ worker[w].receipt \in Nat
  BY BusyWorker DEF Complete, Concludes, Inv, TypeOK, WorkerState, TableInv, PublicationsAreOfDrafts
<1>2. /\ Ready(release[r], worker[w].receipt) \in ReleaseRow
      /\ Ready(release[r], worker[w].receipt).status = "ready"
      /\ Ready(release[r], worker[w].receipt).environment = release[r].environment
  BY <1>1, ReadyRow
<1>3. /\ release' \in [Releases -> ReleaseRow]
      /\ release'[r].status = "ready"
      /\ \A q \in Releases : q # r => release'[q] = release[q]
      /\ \A q \in Releases : release'[q].environment = release[q].environment
      /\ environment' = environment
  <2>1. release' = [release EXCEPT ![r] = Ready(release[r], worker[w].receipt)]
    BY DEF Complete, Concludes, ReleasesAfter
  <2>2. QED
    BY <1>1, <1>2, <2>1 DEF Complete, Concludes, Inv, TypeOK
<1>4. /\ operation' \in [Operations -> OperationRow]
      /\ operation'[k].status = "succeeded"
      /\ \A l \in Operations :
           /\ l # k => operation'[l] = operation[l]
           /\ operation'[l].action = operation[l].action
           /\ operation'[l].resource = operation[l].resource
  <2>1. operation' = [operation EXCEPT ![k].status = "succeeded"]
    BY DEF Complete, Concludes
  <2>2. QED
    BY <1>1, <2>1 DEF Inv, TypeOK, OperationRow
<1>5. \A l \in Operations :
        /\ Open(l)' => l # k /\ Open(l)
        /\ Open(l)' => operation[l].resource \in Releases \ {r}
        /\ Open(l)' => EnvironmentOf(l)' = EnvironmentOf(l)
  <2>1. \A l \in Operations : Open(l)' => l # k /\ Open(l)
    BY <1>4 DEF Open
  <2>2. \A l \in Operations : Open(l) => operation[l].resource \in Releases
    BY DEF Open, Inv, TableInv, OperationsAreOfReleases
  <2>3. \A l \in Operations : Open(l) /\ l # k => operation[l].resource # r
    BY <1>1 DEF Inv, TableInv, OneOpenOperation, EnvironmentOf
  <2>4. QED
    BY <1>3, <1>4, <2>1, <2>2, <2>3 DEF EnvironmentOf
<1>6. worker' \in [Workers -> WorkerState] /\ WorkerInv'
  BY <1>4, LetGo DEF Complete, Concludes
<1>7. TypeOK'
  BY <1>3, <1>4, <1>6 DEF Complete, Concludes, Inv, TypeOK
<1>8. ReleasesArePlaced' /\ HeadsArePublished'
  BY <1>1, <1>3 DEF Inv, TypeOK, EnvironmentRow, TableInv, ReleasesArePlaced, HeadsArePublished
<1>9. OperationsAreOfReleases'
  BY <1>1, <1>3, <1>4 DEF Inv, TableInv, OperationsAreOfReleases, Open
<1>10. OneOpenOperation'
  BY <1>5 DEF Inv, TableInv, OneOpenOperation
<1>11. PublicationsAreOfDrafts' /\ DirectivesAreOfHeads'
  BY <1>3, <1>4, <1>5 DEF Inv, TableInv, PublicationsAreOfDrafts, DirectivesAreOfHeads
<1>12. OnlyHeadDistributes' /\ DirectivesRetireHeads'
  BY <1>1, <1>3 DEF Inv, TableInv, OnlyHeadDistributes, DirectivesRetireHeads, Distributing,
                    Terminal
<1>13. QED
  BY <1>6, <1>7, <1>8, <1>9, <1>10, <1>11, <1>12 DEF Inv, TableInv

\* A completing worker retires the head it was asked to retire and silences
\* the rest of its environment; no other environment is touched.
LEMMA CompleteDirectiveInv ==
  ASSUME Inv, NEW w \in Workers, Complete(w), operation[worker[w].op].action \in Directives
  PROVE  Inv'
<1> DEFINE k == worker[w].op
           r == operation[k].resource
           e == EnvironmentOf(k)
<1>1. /\ k \in Operations /\ Open(k) /\ r \in Releases /\ e \in Environments
      /\ e = release[r].environment
      /\ release[r] \in ReleaseRow
      /\ environment[e].head = r
      /\ release[r].status \notin {"absent", "draft"}
  <2>1. /\ k \in Operations /\ Open(k) /\ r \in Releases /\ e \in Environments
    BY BusyWorker DEF Complete, Concludes
  <2>2. QED
    BY <2>1 DEF Inv, TypeOK, TableInv, DirectivesAreOfHeads, EnvironmentOf
<1>2. RetiredBy(operation[k].action) \in Terminal /\ Terminal \subseteq Statuses
  BY DEF RetiredBy, Terminal, Statuses
<1>3. /\ Moved(release[r], RetiredBy(operation[k].action)) \in ReleaseRow
      /\ Moved(release[r], RetiredBy(operation[k].action)).status \in Terminal
      /\ Moved(release[r], RetiredBy(operation[k].action)).environment = e
  BY <1>1, <1>2, MovedRow
<1>4. release' = [q \in Releases |->
                    IF q = r THEN Moved(release[q], RetiredBy(operation[k].action))
                    ELSE IF release[q].environment = e THEN Displaced(release[q])
                    ELSE release[q]]
  BY DEF Complete, Concludes, ReleasesAfter, Directives, EnvironmentOf
<1>5. ASSUME NEW q \in Releases
      PROVE  /\ release'[q] \in ReleaseRow
             /\ release'[q].environment = release[q].environment
             /\ q = r => release'[q].status \in Terminal
             /\ q # r /\ release[q].status \notin Distributing => release'[q] = release[q]
             /\ release[q].environment # e => release'[q] = release[q]
             /\ release[q].environment = e => release'[q].status \notin Distributing
             /\ q # r /\ release[q].status \in Distributing =>
                  release'[q].status \in Distributing \union {"paused"}
  <2>1. release[q] \in ReleaseRow
    BY DEF Inv, TypeOK
  <2>2. CASE q = r
    BY <1>1, <1>3, <1>4, <2>2 DEF Terminal, Distributing
  <2>3. CASE q # r /\ release[q].environment = e
    BY <1>4, <2>1, <2>3, DisplacedRow
  <2>4. CASE q # r /\ release[q].environment # e
    BY <1>4, <2>1, <2>4
  <2>5. QED
    BY <2>2, <2>3, <2>4
<1>6. /\ environment' \in [Environments -> EnvironmentRow]
      /\ environment'[e].directive = k
      /\ \A d \in Environments : environment'[d].head = environment[d].head
      /\ \A d \in Environments : d # e => environment'[d] = environment[d]
  <2>1. environment' = [environment EXCEPT ![e].directive = k]
    BY DEF Complete, Concludes, Directives
  <2>2. QED
    BY <1>1, <2>1 DEF Inv, TypeOK, EnvironmentRow
<1>7. /\ operation' \in [Operations -> OperationRow]
      /\ operation'[k].status = "succeeded"
      /\ \A l \in Operations :
           /\ l # k => operation'[l] = operation[l]
           /\ operation'[l].action = operation[l].action
           /\ operation'[l].resource = operation[l].resource
  <2>1. operation' = [operation EXCEPT ![k].status = "succeeded"]
    BY DEF Complete, Concludes
  <2>2. QED
    BY <1>1, <2>1 DEF Inv, TypeOK, OperationRow
<1>8. ASSUME NEW l \in Operations, Open(l)'
      PROVE  /\ l # k /\ Open(l)
             /\ operation[l].resource \in Releases
             /\ EnvironmentOf(l)' = EnvironmentOf(l)
             /\ EnvironmentOf(l) # e
             /\ EnvironmentOf(l) \in Environments
             /\ release'[operation[l].resource] = release[operation[l].resource]
  <2>1. l # k /\ Open(l)
    BY <1>7, <1>8 DEF Open
  <2>2. operation[l].resource \in Releases /\ EnvironmentOf(l) \in Environments
    BY <2>1 DEF Open, EnvironmentOf, Inv, TableInv, OperationsAreOfReleases, ReleasesArePlaced
  <2>3. EnvironmentOf(l) # e
    BY <1>1, <2>1 DEF Inv, TableInv, OneOpenOperation
  <2>4. QED
    BY <1>5, <1>7, <2>1, <2>2, <2>3 DEF EnvironmentOf
<1>9. worker' \in [Workers -> WorkerState] /\ WorkerInv'
  BY <1>7, LetGo DEF Complete, Concludes
<1>10. TypeOK'
  <2>1. release' \in [Releases -> ReleaseRow]
    BY <1>4, <1>5
  <2>2. QED
    BY <1>6, <1>7, <1>9, <2>1 DEF Complete, Concludes, Inv, TypeOK
<1>11. \A q \in Releases : release'[q].status = "absent" <=> release[q].status = "absent"
  <2>1. \A q \in Releases \ {r} : release[q].status \in Distributing => release'[q].status # "absent"
    BY <1>5 DEF Distributing
  <2>2. release'[r].status # "absent" /\ "absent" \notin Distributing
    BY <1>1, <1>5 DEF Terminal, Distributing
  <2>3. QED
    BY <1>1, <1>5, <2>1, <2>2
<1>12. ReleasesArePlaced' /\ OperationsAreOfReleases'
  <2>1. ReleasesArePlaced'
    BY <1>5, <1>11 DEF Inv, TableInv, ReleasesArePlaced
  <2>2. \A l \in Operations : operation'[l].status # "absent" => operation[l].status # "absent"
    BY <1>1, <1>7 DEF Open
  <2>3. QED
    BY <1>7, <1>11, <2>1, <2>2 DEF Inv, TableInv, OperationsAreOfReleases
<1>13. HeadsArePublished'
  <2> SUFFICES ASSUME NEW d \in Environments, environment[d].head # None
               PROVE  /\ release'[environment[d].head].environment = d
                      /\ release'[environment[d].head].status \notin {"absent", "draft"}
    BY <1>6 DEF HeadsArePublished
  <2>1. /\ environment[d].head \in Releases
        /\ release[environment[d].head].environment = d
        /\ release[environment[d].head].status \notin {"absent", "draft"}
    BY DEF Inv, TypeOK, EnvironmentRow, TableInv, HeadsArePublished
  <2>2. QED
    BY <1>1, <1>5, <2>1 DEF Terminal, Distributing
<1>14. OneOpenOperation'
  BY <1>8 DEF Inv, TableInv, OneOpenOperation
<1>15. PublicationsAreOfDrafts' /\ DirectivesAreOfHeads'
  BY <1>6, <1>7, <1>8 DEF Inv, TableInv, PublicationsAreOfDrafts, DirectivesAreOfHeads
<1>16. OnlyHeadDistributes'
  <2> SUFFICES ASSUME NEW q \in Releases, release'[q].status \in Distributing
               PROVE  environment'[release'[q].environment].head = q
    BY DEF OnlyHeadDistributes
  <2>1. release[q].environment # e /\ release'[q] = release[q]
    BY <1>5
  <2>2. release[q].environment \in Environments
    BY <2>1 DEF Inv, TableInv, ReleasesArePlaced, Distributing
  <2>3. QED
    BY <1>6, <2>1, <2>2 DEF Inv, TableInv, OnlyHeadDistributes
<1>17. DirectivesRetireHeads'
  <2> SUFFICES ASSUME NEW d \in Environments, environment'[d].directive # None
               PROVE  /\ environment[d].head \in Releases
                      /\ release'[environment[d].head].status \in Terminal
    BY <1>6 DEF DirectivesRetireHeads
  <2>1. CASE d = e
    BY <1>1, <1>5, <2>1
  <2>2. CASE d # e
    <3>1. environment[d].head \in Releases /\ release[environment[d].head].status \in Terminal
      BY <1>6, <2>2 DEF Inv, TableInv, DirectivesRetireHeads
    <3>2. QED
      BY <1>5, <3>1 DEF Terminal, Distributing
  <2>3. QED
    BY <2>1, <2>2
<1>18. QED
  BY <1>9, <1>10, <1>12, <1>13, <1>14, <1>15, <1>16, <1>17 DEF Inv, TableInv

\* The completing transaction, for either kind of operation.
LEMMA CompleteInv ==
  ASSUME Inv, NEW w \in Workers, Complete(w)
  PROVE  Inv'
<1>1. operation[worker[w].op].action \in {"publish"} \union Directives
  BY BusyWorker DEF Complete, Concludes
<1>2. QED
  BY <1>1, CompletePublicationInv, CompleteDirectiveInv
-----------------------------------------------------------------------------
(* Theorems *)

\* Every step keeps the invariant.
LEMMA NextInv ==
  ASSUME ~LostCommits, Inv, [Next]_vars
  PROVE  Inv'
<1>1. ASSUME NEW e \in Environments, NEW r \in Releases, NEW k \in Operations, Publish(e, r, k)
      PROVE  Inv'
  BY <1>1, PublishInv
<1>2. ASSUME NEW c \in Clients, NEW r \in Releases, ReadRelease(c, r)
      PROVE  Inv'
  BY <1>2, ReadReleaseInv
<1>3. ASSUME NEW c \in Clients, NEW r \in Releases, Command(c, r)
      PROVE  Inv'
  BY <1>3, RolloutInv, PauseInv, ResumeInv, RequestDirectiveInv DEF Command
<1>4. ASSUME NEW w \in Workers, Work(w)
      PROVE  Inv'
  BY <1>4, ClaimInv, InspectInv, IssueInv, FailingInv, CompleteInv, RetainInv DEF Work
<1>5. ASSUME NEW w \in Workers, CallFails(w) \/ Abandon(w)
      PROVE  Inv'
  BY <1>5, FailingInv, AbandonInv
<1>6. ASSUME NEW b \in Branches, Land(b)
      PROVE  Inv'
  BY <1>6, LandInv
<1>7. CASE UNCHANGED vars
  <2>1. TypeOK'
    BY <1>7 DEF vars, Inv, TypeOK
  <2>2. TableInv'
    BY <1>7, SameTables DEF vars, Inv
  <2>3. \A b \in Branches : Len(served[b]) \in Nat
    BY DEF Inv, TypeOK
  <2>4. WorkerInv'
    BY <1>7, <2>3, SameWorkers DEF vars
  <2>5. QED
    BY <2>1, <2>2, <2>4 DEF Inv
<1>8. QED
  BY <1>1, <1>2, <1>3, <1>4, <1>5, <1>6, <1>7 DEF Next

\* The inductive invariant holds in every reachable state: each transaction
\* finds the tables as some earlier transaction left them.  Here and below the
\* completing transaction is done only if its worker is told so (~LostCommits).
THEOREM Invariance ==
  ASSUME ~LostCommits
  PROVE  Spec => []Inv
  BY InitInv, NextInv, PTL DEF Spec

\* The tables hold rows of their schema and every worker is at a line of
\* work(), for every number of releases, operations, workers and failures.
THEOREM TypeCorrect ==
  ASSUME ~LostCommits
  PROVE  Spec => []TypeOK
<1>1. Inv => TypeOK
  BY DEF Inv
<1>2. QED
  BY <1>1, Invariance, PTL

\* No interleaving of publications, commands, retries and crashes gives an
\* environment two pending or running operations.
THEOREM OneOpen ==
  ASSUME ~LostCommits
  PROVE  Spec => []OneOpenOperation
<1>1. Inv => OneOpenOperation
  BY DEF Inv, TableInv
<1>2. QED
  BY <1>1, Invariance, PTL

\* No interleaving of heads switching, resuming and directives completing
\* leaves a release distributing that is not its environment's head.
THEOREM OnlyHead ==
  ASSUME ~LostCommits
  PROVE  Spec => []OnlyHeadDistributes
<1>1. Inv => OnlyHeadDistributes
  BY DEF Inv, TableInv
<1>2. QED
  BY <1>1, Invariance, PTL

\* A rollback directive in force cannot be undone by resuming a release.
THEOREM DirectiveSilences ==
  ASSUME ~LostCommits
  PROVE  Spec => []DirectiveSilencesReleases
<1>1. Inv => DirectiveSilencesReleases
  <2> SUFFICES ASSUME Inv, NEW r \in Releases, release[r].status \in Distributing
               PROVE  environment[release[r].environment].directive = None
    BY DEF DirectiveSilencesReleases
  <2>1. /\ release[r].environment \in Environments
        /\ environment[release[r].environment].head = r
    BY DEF Inv, TableInv, ReleasesArePlaced, OnlyHeadDistributes, Distributing
  <2>2. release[r].status \notin Terminal
    BY DEF Terminal, Distributing
  <2>3. QED
    BY <2>1, <2>2 DEF Inv, TableInv, DirectivesRetireHeads
<1>2. QED
  BY <1>1, Invariance, PTL

\* No step changes the status of a killed or rolled-back release.
LEMMA TerminalStep ==
  ASSUME ~LostCommits, Inv, [Next]_vars, NEW r \in Releases, release[r].status \in Terminal
  PROVE  release'[r].status = release[r].status
<1>1. release[r] \in ReleaseRow /\ release[r].status \notin Distributing
  BY DEF Inv, TypeOK, Terminal, Distributing
<1>2. ASSUME NEW e \in Environments, NEW q \in Releases, NEW k \in Operations, Publish(e, q, k)
      PROVE  release'[r] = release[r]
  BY <1>2 DEF Publish, Inv, TypeOK, Terminal
<1>3. ASSUME NEW c \in Clients, NEW q \in Releases, NEW p \in Percentages, Rollout(c, q, p)
      PROVE  release'[r] = release[r]
  BY <1>1, <1>3, DisplacedRow DEF Rollout, Accepts
<1>4. ASSUME NEW c \in Clients, NEW q \in Releases, Pause(c, q) \/ Resume(c, q)
      PROVE  release'[r] = release[r]
  BY <1>4 DEF Pause, Resume, Accepts, Inv, TypeOK
<1>5. ASSUME NEW w \in Workers, Complete(w)
      PROVE  release'[r] = release[r]
  <2> DEFINE k == worker[w].op
             q == operation[k].resource
  <2>1. /\ k \in Operations /\ Open(k) /\ q \in Releases
        /\ operation[k].action \in {"publish"} \union Directives
    BY <1>5, BusyWorker DEF Complete, Concludes
  <2>2. q # r
    BY <2>1 DEF Inv, TableInv, PublicationsAreOfDrafts, DirectivesAreOfHeads, Terminal
  <2>3. release' = ReleasesAfter(k, worker[w].receipt)
    BY <1>5 DEF Complete, Concludes
  <2>4. QED
    BY <1>1, <2>1, <2>2, <2>3, DisplacedRow DEF ReleasesAfter, Inv, TypeOK
<1>6. CASE release' = release
  BY <1>6
<1>7. QED
  BY FailureIsVoid, <1>2, <1>3, <1>4, <1>5, <1>6
  DEF Next, Command, Work, ReadRelease, RequestDirective, Claim, Inspect, Issue, RefuseReceipt,
      Retain, Abandon, Land, vars

\* Whatever is requested, retried or completed late, a killed or rolled-back
\* release stays so: every write to a row is guarded by the draft or the
\* head the open operation was accepted for.
THEOREM TerminalForever ==
  ASSUME ~LostCommits
  PROVE  Spec => TerminalIsForever
<1>1. Inv /\ [Next]_vars =>
        [\A r \in Releases :
           release[r].status \in Terminal => release'[r].status = release[r].status]_vars
  BY TerminalStep
<1>2. QED
  BY <1>1, Invariance, PTL DEF Spec, TerminalIsForever

\* No step changes the row of an operation that is done.
LEMMA SucceededStep ==
  ASSUME ~LostCommits, Inv, [Next]_vars, NEW k \in Operations, operation[k].status = "succeeded"
  PROVE  operation'[k] = operation[k]
<1>1. ASSUME NEW l \in Operations, NEW action, NEW r, Enqueue(l, action, r)
      PROVE  operation'[k] = operation[k]
  BY <1>1 DEF Enqueue, Inv, TypeOK
<1>2. ASSUME NEW w \in Workers, NEW l \in Operations, Claim(w, l)
      PROVE  operation'[k] = operation[k]
  BY <1>2 DEF Claim, Open, Inv, TypeOK
<1>3. ASSUME NEW w \in Workers, Complete(w) \/ Retain(w)
      PROVE  operation'[k] = operation[k]
  <2>1. worker[w].op # k
    BY <1>3, BusyWorker DEF Complete, Concludes, Retain
  <2>2. QED
    BY <1>3, <2>1 DEF Complete, Concludes, Retain, Inv, TypeOK
<1>4. CASE operation' = operation
  BY <1>4
<1>5. QED
  BY FailureIsVoid, <1>1, <1>2, <1>3, <1>4
  DEF Next, Command, Work, Publish, RequestDirective, ReadRelease, Rollout, Pause, Resume,
      Inspect, Issue, RefuseReceipt, Abandon, Land, vars

\* A second worker or a late failure never reopens an operation that is done: only
\* the worker that holds it writes its row, and it then lets it go.  A worker that
\* holds it still, because the answer to its COMMIT was lost, is what is excluded.
THEOREM SucceededForever ==
  ASSUME ~LostCommits
  PROVE  Spec => SucceededIsForever
<1>1. Inv /\ [Next]_vars =>
        [\A k \in Operations :
           operation[k].status = "succeeded" => operation'[k] = operation[k]]_vars
  BY SucceededStep
<1>2. QED
  BY <1>1, Invariance, PTL DEF Spec, SucceededIsForever

\* No step offers a release that was displaced while paused.
LEMMA DisplacedStep ==
  ASSUME ~LostCommits, Inv, [Next]_vars, NEW r \in Releases, release[r].status = "paused",
         environment[release[r].environment].head # r
  PROVE  release'[r].status = "paused"
<1>1. release[r] \in ReleaseRow /\ release[r].status \notin Distributing
  BY DEF Inv, TypeOK, Distributing
<1>2. ASSUME NEW e \in Environments, NEW q \in Releases, NEW k \in Operations, Publish(e, q, k)
      PROVE  release'[r] = release[r]
  BY <1>2 DEF Publish, Inv, TypeOK
<1>3. ASSUME NEW c \in Clients, NEW q \in Releases, NEW p \in Percentages, Rollout(c, q, p)
      PROVE  release'[r] = release[r]
  BY <1>1, <1>3, DisplacedRow DEF Rollout
<1>4. ASSUME NEW c \in Clients, NEW q \in Releases, Pause(c, q) \/ Resume(c, q)
      PROVE  release'[r] = release[r]
  BY <1>1, <1>4 DEF Pause, Resume, Inv, TypeOK
<1>5. ASSUME NEW w \in Workers, Complete(w)
      PROVE  release'[r] = release[r]
  <2> DEFINE k == worker[w].op
             q == operation[k].resource
  <2>1. /\ k \in Operations /\ Open(k) /\ q \in Releases
        /\ operation[k].action \in {"publish"} \union Directives
    BY <1>5, BusyWorker DEF Complete, Concludes
  <2>2. q # r
    BY <2>1 DEF Inv, TableInv, PublicationsAreOfDrafts, DirectivesAreOfHeads, EnvironmentOf
  <2>3. release' = ReleasesAfter(k, worker[w].receipt)
    BY <1>5 DEF Complete, Concludes
  <2>4. QED
    BY <1>1, <2>1, <2>2, <2>3, DisplacedRow DEF ReleasesAfter, Inv, TypeOK
<1>6. CASE release' = release
  BY <1>6
<1>7. QED
  BY FailureIsVoid, <1>2, <1>3, <1>4, <1>5, <1>6
  DEF Next, Command, Work, ReadRelease, RequestDirective, Claim, Inspect, Issue, RefuseReceipt,
      Retain, Abandon, Land, vars

\* Nothing brings back a release that was displaced while paused: resuming it
\* is refused, a rollout of it is refused, and no open operation is about it.
THEOREM DisplacedPaused ==
  ASSUME ~LostCommits
  PROVE  Spec => DisplacedStaysPaused
<1>1. Inv /\ [Next]_vars =>
        [\A r \in Releases :
           release[r].status = "paused" /\ environment[release[r].environment].head # r
           => release'[r].status = "paused"]_vars
  BY DisplacedStep
<1>2. QED
  BY <1>1, Invariance, PTL DEF Spec, DisplacedStaysPaused

\* Every release that is distributed is the policy of its environment.
THEOREM DistributingPolicy ==
  ASSUME ~LostCommits
  PROVE  Spec => []DistributingIsPolicy
<1>1. OnlyHeadDistributes /\ DirectiveSilencesReleases => DistributingIsPolicy
  BY DEF DistributingIsPolicy
<1>2. QED
  BY <1>1, OnlyHead, DirectiveSilences, PTL

\* Retirements, displacements and successes stand, unless a transaction that seemed to
\* fail took effect: then the catch block reopens an operation that succeeded.
THEOREM ConclusionsStay ==
  ASSUME ~LostCommits
  PROVE  Spec => ConclusionsStand
  BY TerminalForever, DisplacedPaused, SucceededForever DEF ConclusionsStand

-----------------------------------------------------------------------------
(***************************************************************************)
(* What one step can do to a release's row and to a branch                 *)
(***************************************************************************)

\* The completing transaction of a publication writes release r.
Publishes(w, r) ==
  /\ Complete(w)
  /\ operation[worker[w].op].action = "publish"
  /\ operation[worker[w].op].resource = r

\* A control command or a completed directive writes a row that has left draft.
Controlled(row, new) ==
  /\ row.status \notin {"absent", "draft"}
  /\ new.status \notin {"absent", "draft", "ready"}
  /\ new.environment = row.environment
  /\ new.upstream = row.upstream
  /\ new.version = row.version + 1

\* A release that stops distributing was published.
LEMMA DisplacedControlled ==
  ASSUME NEW row \in ReleaseRow
  PROVE  Displaced(row) = row \/ Controlled(row, Displaced(row))
<1>1. CASE row.status \in Distributing
  <2>1. Displaced(row) = Moved(row, "paused") /\ "paused" \in Statuses
    BY <1>1 DEF Displaced, Statuses
  <2>2. QED
    BY <1>1, <2>1, MovedRow DEF Controlled, Distributing
<1>2. CASE row.status \notin Distributing
  BY <1>2 DEF Displaced
<1>3. QED
  BY <1>1, <1>2

\* A command changes only rows of published releases.
LEMMA CommandControlled ==
  ASSUME Inv, NEW c \in Clients, NEW q \in Releases, Command(c, q), NEW r \in Releases
  PROVE  release'[r] = release[r] \/ Controlled(release[r], release'[r])
<1>1. release[r] \in ReleaseRow /\ release[q] \in ReleaseRow
  BY DEF Inv, TypeOK
<1>2. ASSUME NEW status \in {"paused"} \union Distributing, NEW p \in Percent,
             release[q].status \notin {"absent", "draft"}
      PROVE  Controlled(release[q], Updated(release[q], status, p))
  <2>1. status \in Statuses
    BY DEF Statuses, Distributing
  <2>2. QED
    BY <1>1, <1>2, <2>1, UpdatedRow DEF Controlled, Distributing
<1>3. \A p \in Percent : StatusAt(p) \in {"paused"} \union Distributing
  BY DEF StatusAt, Distributing
<1>4. ASSUME NEW p \in Percentages, Rollout(c, q, p)
      PROVE  release'[r] = release[r] \/ Controlled(release[r], release'[r])
  <2>1. p \in Percent /\ release[q].status \notin {"absent", "draft"}
    BY <1>4, ConstantsAssumption DEF Rollout, Accepts
  <2>2. CASE r = q
    BY <1>2, <1>3, <1>4, <2>1, <2>2 DEF Rollout
  <2>3. CASE r # q
    BY <1>1, <1>4, <2>3, DisplacedControlled DEF Rollout
  <2>4. QED
    BY <2>2, <2>3
<1>5. ASSUME Pause(c, q) \/ Resume(c, q)
      PROVE  release'[r] = release[r] \/ Controlled(release[r], release'[r])
  <2>1. /\ release[q].status \notin {"absent", "draft"}
        /\ release[q].percentage \in Percent
    BY <1>1, <1>5 DEF Pause, Resume, Accepts, ReleaseRow
  <2>2. PICK status \in {"paused"} \union Distributing :
          release' = [release EXCEPT ![q] = Updated(release[q], status, release[q].percentage)]
    BY <1>3, <1>5, <2>1 DEF Pause, Resume
  <2>3. QED
    BY <1>2, <2>1, <2>2 DEF Inv, TypeOK
<1>6. CASE \E action \in Directives, k \in Operations : RequestDirective(c, q, action, k)
  BY <1>6 DEF RequestDirective
<1>7. QED
  BY <1>4, <1>5, <1>6 DEF Command

\* A completed directive changes only rows of published releases.
LEMMA DirectiveControlled ==
  ASSUME Inv, NEW w \in Workers, Complete(w), operation[worker[w].op].action \in Directives,
         NEW r \in Releases
  PROVE  release'[r] = release[r] \/ Controlled(release[r], release'[r])
<1> DEFINE k == worker[w].op
           q == operation[k].resource
<1>1. release[r] \in ReleaseRow
  BY DEF Inv, TypeOK
<1>2. /\ k \in Operations /\ Open(k) /\ q \in Releases
      /\ release[q].status \notin {"absent", "draft"}
  BY BusyWorker DEF Complete, Concludes, Inv, TableInv, DirectivesAreOfHeads
<1>3. release'[r] = IF r = q THEN Moved(release[r], RetiredBy(operation[k].action))
                    ELSE IF release[r].environment = release[q].environment
                         THEN Displaced(release[r])
                         ELSE release[r]
  BY DEF Complete, Concludes, ReleasesAfter, Directives
<1>4. /\ RetiredBy(operation[k].action) \in Statuses
      /\ RetiredBy(operation[k].action) \notin {"absent", "draft", "ready"}
  BY DEF RetiredBy, Statuses, Terminal
<1>5. CASE r = q
  BY <1>1, <1>2, <1>3, <1>4, <1>5, MovedRow DEF Controlled
<1>6. CASE r # q
  BY <1>1, <1>3, <1>6, DisplacedControlled
<1>7. QED
  BY <1>5, <1>6

\* The four things that can happen to a row: nothing, its creation, its
\* publication, and a change under a new version.
LEMMA ReleaseWritten ==
  ASSUME ~LostCommits, Inv, [Next]_vars, NEW r \in Releases
  PROVE  \/ release'[r] = release[r]
         \/ release[r].status = "absent" /\ release'[r].status = "draft"
         \/ \E w \in Workers : Publishes(w, r)
         \/ Controlled(release[r], release'[r])
<1>1. ASSUME NEW e \in Environments, NEW q \in Releases, NEW k \in Operations, Publish(e, q, k)
      PROVE  \/ release'[r] = release[r]
             \/ release[r].status = "absent" /\ release'[r].status = "draft"
  BY <1>1 DEF Publish, Inv, TypeOK
<1>2. ASSUME NEW c \in Clients, NEW q \in Releases, Command(c, q)
      PROVE  release'[r] = release[r] \/ Controlled(release[r], release'[r])
  BY <1>2, CommandControlled
<1>3. ASSUME NEW w \in Workers, Complete(w)
      PROVE  release'[r] = release[r] \/ Publishes(w, r) \/ Controlled(release[r], release'[r])
  <2>1. operation[worker[w].op].action \in {"publish"} \union Directives
    BY <1>3, BusyWorker DEF Complete, Concludes
  <2>2. CASE operation[worker[w].op].action = "publish"
    BY <1>3, <2>2 DEF Complete, Concludes, ReleasesAfter, Publishes, Inv, TypeOK
  <2>3. CASE operation[worker[w].op].action \in Directives
    BY <1>3, <2>3, DirectiveControlled
  <2>4. QED
    BY <2>1, <2>2, <2>3
<1>4. CASE release' = release
  BY <1>4
<1>5. QED
  BY FailureIsVoid, <1>1, <1>2, <1>3, <1>4
  DEF Next, Work, ReadRelease, Claim, Inspect, Issue, RefuseReceipt, Retain, Abandon,
      Land, vars

\* The row a completed publication leaves.
LEMMA PublishedRow ==
  ASSUME Inv, NEW w \in Workers, NEW r \in Releases, Publishes(w, r)
  PROVE  /\ release[r].status = "draft"
         /\ release'[r].status = "ready"
         /\ release'[r].environment = release[r].environment
         /\ release'[r].version = release[r].version
         /\ release'[r].upstream = worker[w].receipt
         /\ BranchOf(worker[w].op) = r
<1>1. /\ worker[w].op \in Operations
      /\ release[r].status = "draft"
      /\ release[r] \in ReleaseRow
      /\ worker[w].receipt \in Nat
  BY BusyWorker
  DEF Publishes, Complete, Concludes, Inv, TypeOK, WorkerState, TableInv, PublicationsAreOfDrafts
<1>2. release'[r] = Ready(release[r], worker[w].receipt)
  BY DEF Publishes, Complete, Concludes, ReleasesAfter, Inv, TypeOK
<1>3. QED
  BY <1>1, <1>2, ReadyRow DEF Publishes, BranchOf

\* A release that exists keeps existing, in its environment.
LEMMA StaysPlaced ==
  ASSUME ~LostCommits, Inv, [Next]_vars, NEW r \in Releases, release[r].status # "absent"
  PROVE  release'[r].status # "absent" /\ release'[r].environment = release[r].environment
  BY ReleaseWritten, PublishedRow DEF Controlled

\* What is sealed on a branch stays there.
LEMMA StaysServed ==
  ASSUME ~LostCommits, Inv, [Next]_vars, NEW b \in Branches, NEW i \in 1..Len(served[b])
  PROVE  i \in 1..Len(served'[b]) /\ served'[b][i] = served[b][i]
<1>1. Len(served[b]) \in Nat /\ TypeOK
  BY DEF Inv, TypeOK
<1>2. ASSUME NEW c \in Branches, Seal(c)
      PROVE  i \in 1..Len(served'[b]) /\ served'[b][i] = served[b][i]
  <2>1. Len(served'[b]) \in Nat /\ Len(served'[b]) >= Len(served[b])
        /\ served'[b][i] = served[b][i]
    BY <1>1, <1>2, SealAppends
  <2>2. QED
    BY <1>1, <2>1
<1>3. ASSUME NEW w \in Workers, Issue(w)
      PROVE  i \in 1..Len(served'[b]) /\ served'[b][i] = served[b][i]
  BY <1>2, <1>3, BusyWorker DEF Issue
<1>4. ASSUME NEW c \in Branches, Land(c)
      PROVE  i \in 1..Len(served'[b]) /\ served'[b][i] = served[b][i]
  BY <1>2, <1>4 DEF Land
<1>5. CASE served' = served
  BY <1>5
<1>6. QED
  BY <1>3, <1>4, <1>5
  DEF Next, Command, Work, Publish, ReadRelease, Rollout, Pause, Resume, RequestDirective, Claim,
      Inspect, RefuseReceipt, Complete, Concludes, Retain, CallFails, Abandon, vars
-----------------------------------------------------------------------------
(* Receipts *)

\* A release leaves draft only by its publication, whose receipt matched; later
\* writes keep the receipt and the branch keeps what was sealed.
LEMMA ReceiptStep ==
  ASSUME ~LostCommits, Inv, ReceiptBeforeReady, [Next]_vars
  PROVE  ReceiptBeforeReady'
<1> SUFFICES ASSUME NEW r \in Releases, release'[r].status \notin {"absent", "draft"}
             PROVE  /\ release'[r].upstream \in 1..Len(served'[r])
                    /\ served'[r][release'[r].upstream]
  BY DEF ReceiptBeforeReady
<1>1. r \in Branches
  BY DEF Branches
<1>2. CASE /\ release[r].status \notin {"absent", "draft"}
           /\ release'[r].upstream = release[r].upstream
  <2>1. /\ release[r].upstream \in 1..Len(served[r])
        /\ served[r][release[r].upstream]
    BY <1>2 DEF ReceiptBeforeReady
  <2>2. QED
    BY <1>1, <1>2, <2>1, StaysServed
<1>3. ASSUME NEW w \in Workers, Publishes(w, r)
      PROVE  /\ release'[r].upstream \in 1..Len(served'[r])
             /\ served'[r][release'[r].upstream]
  <2>1. worker[w].receipt \in 1..Len(served[r]) /\ served[r][worker[w].receipt]
    BY <1>3, PublishedRow
    DEF Publishes, Complete, Concludes, ReceiptMatches, Inv, WorkerInv, ReceiptsAreServed
  <2>2. QED
    BY <1>1, <1>3, <2>1, PublishedRow, StaysServed
<1>4. QED
  BY <1>2, <1>3, ReleaseWritten DEF Controlled

\* A directive's operation, release and signed item stay as they are; it comes
\* into force in the transaction that records all three.
LEMMA SignedStep ==
  ASSUME ~LostCommits, Inv, DirectiveIsSigned, [Next]_vars
  PROVE  DirectiveIsSigned'
<1> DEFINE Signed(k, e) ==
             /\ operation[k].status = "succeeded"
             /\ operation[k].action \in Directives
             /\ EnvironmentOf(k) = e
             /\ release[operation[k].resource].status \in Terminal
             /\ \E i \in 1..Len(served[k]) : served[k][i]
<1>1. ASSUME NEW k \in Operations, NEW e \in Environments, Signed(k, e)
      PROVE  Signed(k, e)'
  <2>1. operation'[k] = operation[k]
    BY <1>1, SucceededStep
  <2>2. operation[k].resource \in Releases /\ k \in Branches
    BY <1>1 DEF Inv, TableInv, OperationsAreOfReleases, Branches
  <2>3. /\ release'[operation[k].resource].status \in Terminal
        /\ release'[operation[k].resource].environment = e
    BY <1>1, <2>2, TerminalStep, StaysPlaced DEF EnvironmentOf, Terminal
  <2>4. \E i \in 1..Len(served'[k]) : served'[k][i]
    BY <1>1, <2>2, StaysServed
  <2>5. QED
    BY <1>1, <2>1, <2>3, <2>4 DEF EnvironmentOf
<1>2. ASSUME NEW w \in Workers, NEW k \in Operations, Complete(w), worker[w].op = k,
             operation[k].action \in Directives
      PROVE  Signed(k, EnvironmentOf(k))'
  <2> DEFINE r == operation[k].resource
  <2>1. /\ r \in Releases /\ k \in Branches /\ Open(k)
        /\ release[r].status # "absent"
        /\ release[r] \in ReleaseRow
    BY <1>2, BusyWorker DEF Complete, Concludes, Branches, Inv, TypeOK
  <2>2. operation' = [operation EXCEPT ![k].status = "succeeded"]
    BY <1>2 DEF Complete, Concludes
  <2>3. /\ operation'[k].status = "succeeded"
        /\ operation'[k].action = operation[k].action
        /\ operation'[k].resource = r
    BY <2>1, <2>2 DEF Inv, TypeOK, OperationRow
  <2>4. release'[r] = Moved(release[r], RetiredBy(operation[k].action))
    BY <1>2, <2>1 DEF Complete, Concludes, ReleasesAfter, Directives
  <2>5. RetiredBy(operation[k].action) \in Terminal
        /\ RetiredBy(operation[k].action) \in Statuses
    BY DEF RetiredBy, Terminal, Statuses
  <2>6. release'[r].status \in Terminal
    BY <2>1, <2>4, <2>5, MovedRow
  <2>7. BranchOf(k) = k
    BY <1>2 DEF BranchOf, Directives
  <2>8. worker[w].receipt \in 1..Len(served[k]) /\ served[k][worker[w].receipt]
    BY <1>2, <2>7 DEF Complete, Concludes, ReceiptMatches, Inv, WorkerInv, ReceiptsAreServed
  <2>9. served' = served
    BY <1>2 DEF Complete, Concludes
  <2>10. QED
    BY <1>2, <2>3, <2>6, <2>8, <2>9 DEF EnvironmentOf
<1>3. ASSUME NEW e \in Environments, NEW k \in Operations, environment'[e].directive = k
      PROVE  Signed(k, e)'
  <2>1. CASE environment[e].directive = k
    <3>1. k # None
      BY ConstantsAssumption DEF Branches
    <3>2. Signed(k, e)
      BY <2>1, <3>1 DEF DirectiveIsSigned
    <3>3. QED
      BY <1>1, <3>2
  <2>2. ASSUME NEW w \in Workers, Complete(w), operation[worker[w].op].action \in Directives,
               environment[e].directive # k
        PROVE  Signed(k, e)'
    <3>1. environment' = [environment EXCEPT ![EnvironmentOf(worker[w].op)].directive = worker[w].op]
      BY <2>2 DEF Complete, Concludes, Directives
    <3>2. worker[w].op = k /\ EnvironmentOf(k) = e
      BY <1>3, <2>2, <3>1 DEF Inv, TypeOK, EnvironmentRow
    <3>3. Signed(k, EnvironmentOf(k))'
      BY <1>2, <2>2, <3>2
    <3>4. EnvironmentOf(k)' = e
      <4>1. /\ operation[k].resource \in Releases
            /\ release[operation[k].resource].status # "absent"
            /\ k \in Operations
        BY <2>2, <3>2, BusyWorker DEF Complete, Concludes
      <4>2. operation'[k].resource = operation[k].resource
        BY <2>2, <3>2, <4>1 DEF Complete, Concludes, Inv, TypeOK, OperationRow
      <4>3. QED
        BY <3>2, <4>1, <4>2, StaysPlaced DEF EnvironmentOf
    <3>5. QED
      BY <3>3, <3>4
  <2>3. ASSUME NEW c \in Clients, NEW r \in Releases, NEW p \in Percentages, Rollout(c, r, p)
        PROVE  environment[e].directive = k
    <3>1. k # None
      BY ConstantsAssumption DEF Branches
    <3>2. QED
      BY <1>3, <2>3, <3>1 DEF Rollout, Inv, TypeOK, EnvironmentRow
  <2>4. ASSUME NEW w \in Workers, Complete(w), operation[worker[w].op].action = "publish"
        PROVE  environment[e].directive = k
    BY <1>3, <2>4 DEF Complete, Concludes
  <2>5. CASE environment' = environment
    BY <1>3, <2>1, <2>5
  <2>6. ASSUME NEW w \in Workers, Complete(w)
        PROVE  Signed(k, e)'
    <3>1. operation[worker[w].op].action \in {"publish"} \union Directives
      BY <2>6, BusyWorker DEF Complete, Concludes
    <3>2. QED
      BY <2>1, <2>2, <2>4, <2>6, <3>1
  <2>7. QED
    BY FailureIsVoid, <2>1, <2>3, <2>5, <2>6
    DEF Next, Command, Work, Publish, ReadRelease, Pause, Resume, RequestDirective, Claim,
        Inspect, Issue, RefuseReceipt, Retain, Abandon, Land, vars
<1>4. \A e \in Environments :
        environment'[e].directive # None => environment'[e].directive \in Operations
  BY NextInv DEF Inv, TypeOK, EnvironmentRow
<1>5. QED
  BY <1>3, <1>4 DEF DirectiveIsSigned

\* A release is distributed only with the receipt of its own sealed artifact,
\* whatever else was sealed on its branch and however often a worker retried.
THEOREM ReceiptFirst ==
  ASSUME ~LostCommits
  PROVE  Spec => []ReceiptBeforeReady
<1>1. Init => ReceiptBeforeReady
  BY DEF Init, NoRelease, ReceiptBeforeReady
<1>2. Inv /\ ReceiptBeforeReady /\ [Next]_vars => ReceiptBeforeReady'
  BY ReceiptStep
<1>3. QED
  BY <1>1, <1>2, Invariance, PTL DEF Spec

\* A directive in force has a verified signed item, a recorded operation and a
\* retired release behind it.
THEOREM DirectiveSigned ==
  ASSUME ~LostCommits
  PROVE  Spec => []DirectiveIsSigned
<1>1. Init => DirectiveIsSigned
  BY DEF Init, DirectiveIsSigned
<1>2. Inv /\ DirectiveIsSigned /\ [Next]_vars => DirectiveIsSigned'
  BY SignedStep
<1>3. QED
  BY <1>1, <1>2, Invariance, PTL DEF Spec

\* Everything that is ready or in force has a verified receipt behind it.
THEOREM PolicyReceipted ==
  ASSUME ~LostCommits
  PROVE  Spec => []PolicyIsReceipted
BY ReceiptFirst, DirectiveSigned, PTL DEF PolicyIsReceipted
-----------------------------------------------------------------------------
(* Versions *)

\* What a client read is of an existing release, never ahead of its row, and
\* the row itself as long as the versions agree and it was no draft.
ViewsAreBehind ==
  \A c \in Clients, r \in Releases :
    view[c].of = r =>
      /\ release[r].status # "absent"
      /\ view[c].version <= release[r].version
      /\ view[c].version = release[r].version /\ view[c].status # "draft" =>
           /\ release[r].status = view[c].status
           /\ release[r].percentage = view[c].percentage

\* Every change of a row a client may have read either advances its version or
\* makes a draft ready.
LEMMA ViewStep ==
  ASSUME ~LostCommits, Inv, ViewsAreBehind, [Next]_vars
  PROVE  ViewsAreBehind'
<1> DEFINE Behind(c, r) ==
             view[c].of = r =>
               /\ release[r].status # "absent"
               /\ view[c].version <= release[r].version
               /\ view[c].version = release[r].version /\ view[c].status # "draft" =>
                    /\ release[r].status = view[c].status
                    /\ release[r].percentage = view[c].percentage
<1> SUFFICES ASSUME NEW c \in Clients, NEW r \in Releases
             PROVE  Behind(c, r)'
  BY DEF ViewsAreBehind
<1>1. Behind(c, r)
  BY DEF ViewsAreBehind
<1>2. /\ release[r].version \in Nat
      /\ view[c].version \in Nat
  BY DEF Inv, TypeOK, ReleaseRow, View
<1>3. CASE view' = view
  <2>1. CASE release'[r] = release[r]
    BY <1>1, <1>3, <2>1
  <2>2. CASE release[r].status = "absent"
    BY <1>1, <1>3, <2>2
  <2>3. ASSUME NEW w \in Workers, Publishes(w, r)
        PROVE  Behind(c, r)'
    BY <1>1, <1>3, <2>3, PublishedRow
  <2>4. CASE Controlled(release[r], release'[r])
    BY <1>1, <1>2, <1>3, <2>4 DEF Controlled
  <2>5. QED
    BY <2>1, <2>2, <2>3, <2>4, ReleaseWritten
<1>4. ASSUME NEW d \in Clients, NEW q \in Releases, ReadRelease(d, q)
      PROVE  Behind(c, r)'
  BY <1>1, <1>2, <1>4 DEF ReadRelease, Inv, TypeOK
<1>5. QED
  BY <1>3, <1>4
  DEF Next, Command, Work, Publish, Rollout, Pause, Resume, RequestDirective, Claim, Inspect,
      Issue, RefuseReceipt, Complete, Concludes, Retain, CallFails, Abandon, Land, vars

\* A command is decided on the row its sender saw: every write that matters
\* advances the version, and the one that does not starts from a draft.
THEOREM VersionsAreSound ==
  ASSUME ~LostCommits
  PROVE  Spec => []MatchingVersionIsCurrent
<1>1. Init => ViewsAreBehind
  BY ConstantsAssumption DEF Init, NoView, ViewsAreBehind, Branches
<1>2. Inv /\ ViewsAreBehind /\ [Next]_vars => ViewsAreBehind'
  BY ViewStep
<1>3. ViewsAreBehind => MatchingVersionIsCurrent
  BY DEF ViewsAreBehind, MatchingVersionIsCurrent
<1>4. QED
  BY <1>1, <1>2, <1>3, Invariance, PTL DEF Spec
-----------------------------------------------------------------------------
(* Branches *)

\* A worker about to issue found its branch empty, and unless a call for it
\* timed out it still is; one that did not time out sealed at most one item.
BranchesAreSingle ==
  /\ \A w \in Workers :
       worker[w].pc = "missing" /\ timeout[BranchOf(worker[w].op)] = "never"
       => served[BranchOf(worker[w].op)] = <<>>
  /\ \A b \in Branches : timeout[b] = "never" => Len(served[b]) <= 1

\* Two busy workers are on two branches: a publication's is its release's,
\* of which only one operation is open.
LEMMA BranchesDiffer ==
  ASSUME Inv, NEW v \in Workers, NEW w \in Workers, v # w,
         worker[v].pc # "idle", worker[w].pc # "idle"
  PROVE  BranchOf(worker[v].op) # BranchOf(worker[w].op)
<1> DEFINE k == worker[v].op
           l == worker[w].op
<1>1. /\ k \in Operations /\ Open(k) /\ operation[k].resource \in Releases
      /\ l \in Operations /\ Open(l) /\ operation[l].resource \in Releases
  BY BusyWorker
<1>2. k # l
  BY <1>1, ConstantsAssumption DEF Inv, WorkerInv, WorkersHoldOperations, Branches
<1>3. operation[k].resource # operation[l].resource
  BY <1>1, <1>2 DEF Inv, TableInv, OneOpenOperation, EnvironmentOf
<1>4. QED
  BY <1>1, <1>2, <1>3, ConstantsAssumption DEF BranchOf

\* A recorded operation keeps its kind and its release.
LEMMA StaysTheOperation ==
  ASSUME ~LostCommits, Inv, [Next]_vars, NEW k \in Operations, operation[k].status # "absent"
  PROVE  /\ operation'[k].action = operation[k].action
         /\ operation'[k].resource = operation[k].resource
         /\ operation'[k].status # "absent"
<1>1. ASSUME NEW l \in Operations, NEW action, NEW r, Enqueue(l, action, r)
      PROVE  operation'[k] = operation[k]
  BY <1>1 DEF Enqueue, Inv, TypeOK
<1>2. ASSUME NEW l \in Operations, NEW status \in {"pending", "running", "succeeded"},
             operation' = [operation EXCEPT ![l].status = status]
      PROVE  /\ operation'[k].action = operation[k].action
             /\ operation'[k].resource = operation[k].resource
             /\ operation'[k].status # "absent"
  BY <1>2 DEF Inv, TypeOK, OperationRow
<1>3. CASE operation' = operation
  BY <1>3
<1>4. QED
  BY <1>1, <1>2, <1>3, BusyWorker
  DEF Next, Command, Work, Publish, RequestDirective, ReadRelease, Rollout, Pause, Resume, Claim,
      Inspect, Issue, RefuseReceipt, Complete, Concludes, Retain, CallFails, Abandon, Land, vars

\* A timeout is never forgotten.
LEMMA StaysTimedOut ==
  ASSUME ~LostCommits, Inv, [Next]_vars, NEW b \in Branches, timeout'[b] = "never"
  PROVE  timeout[b] = "never"
<1>1. ASSUME NEW w \in Workers, GivesUp(w)
      PROVE  timeout[b] = "never"
  BY <1>1 DEF GivesUp, Inv, TypeOK
<1>2. ASSUME NEW c \in Branches, Land(c)
      PROVE  timeout[b] = "never"
  BY <1>2 DEF Land, Inv, TypeOK
<1>3. CASE timeout' = timeout
  BY <1>3
<1>4. QED
  BY <1>1, <1>2, <1>3
  DEF Next, Command, Work, Publish, ReadRelease, Rollout, Pause, Resume, RequestDirective, Claim,
      Inspect, Issue, RefuseReceipt, Complete, Concludes, Retain, CallFails, Abandon, vars

\* Only a worker that found its branch empty seals an item without a timeout.
LEMMA BranchStep ==
  ASSUME ~LostCommits, Inv, BranchesAreSingle, [Next]_vars
  PROVE  BranchesAreSingle'
<1>1. ASSUME NEW w \in Workers, Issue(w)
      PROVE  BranchesAreSingle'
  <2> DEFINE b == BranchOf(worker[w].op)
  <2>1. b \in Branches /\ operation' = operation /\ timeout' = timeout
    BY <1>1, BusyWorker DEF Issue
  <2>2. PICK genuine \in BOOLEAN : served' = [served EXCEPT ![b] = Append(served[b], genuine)]
    BY <1>1, ConstantsAssumption DEF Issue, Seal
  <2>3. timeout[b] = "never" => Len(served'[b]) <= 1
    <3>1. SUFFICES ASSUME timeout[b] = "never"
                   PROVE  Len(served'[b]) <= 1
      OBVIOUS
    <3>2. served[b] = <<>>
      BY <1>1, <3>1 DEF Issue, BranchesAreSingle
    <3>3. served'[b] = Append(<<>>, genuine)
      BY <2>1, <2>2, <3>2 DEF Inv, TypeOK
    <3>4. QED
      BY <3>3
  <2>4. \A c \in Branches : c # b => served'[c] = served[c]
    BY <2>1, <2>2 DEF Inv, TypeOK
  <2>5. worker'[w].pc = "issued" /\ \A v \in Workers : v # w => worker'[v] = worker[v]
    BY <1>1, MovesWorker DEF Issue, Inv, TypeOK
  <2>6. ASSUME NEW v \in Workers, v # w, worker[v].pc = "missing"
        PROVE  BranchOf(worker[v].op) # b /\ BranchOf(worker[v].op) \in Branches
    BY <1>1, <2>6, BusyWorker, BranchesDiffer DEF Issue
  <2>7. \A v \in Workers : v # w => BranchOf(worker[v].op)' = BranchOf(worker[v].op)
    BY <2>1, <2>5 DEF BranchOf
  <2>8. QED
    BY <2>1, <2>3, <2>4, <2>5, <2>6, <2>7 DEF BranchesAreSingle
<1>2. ASSUME NEW b \in Branches, Land(b)
      PROVE  BranchesAreSingle'
  <2>1. /\ timeout'[b] # "never"
        /\ \A c \in Branches : c # b => served'[c] = served[c] /\ timeout'[c] = timeout[c]
        /\ worker' = worker /\ operation' = operation
    BY <1>2 DEF Land, Seal, Inv, TypeOK
  <2>2. \A w \in Workers : worker[w].pc = "missing" => BranchOf(worker[w].op) \in Branches
    BY BusyWorker
  <2>3. \A w \in Workers : BranchOf(worker[w].op)' = BranchOf(worker[w].op)
    BY <2>1 DEF BranchOf
  <2>4. QED
    BY <2>1, <2>2, <2>3 DEF BranchesAreSingle
<1>3. ASSUME NEW w \in Workers, Inspect(w)
      PROVE  BranchesAreSingle'
  <2> DEFINE b == BranchOf(worker[w].op)
  <2>1. /\ UNCHANGED <<served, timeout, operation>>
        /\ \A v \in Workers : v # w => worker'[v] = worker[v]
    BY <1>3, MovesWorker DEF Inspect, Inv, TypeOK
  <2>2. worker'[w].pc = "missing" => served[b] = <<>> /\ worker'[w].op = worker[w].op
    BY <1>3, MovesWorker DEF Inspect, Inv, TypeOK
  <2>3. \A v \in Workers : worker'[v].pc = "missing" => BranchOf(worker[v].op)' = BranchOf(worker[v].op)
    BY <2>1, <2>2 DEF BranchOf
  <2>4. QED
    BY <2>1, <2>2, <2>3 DEF BranchesAreSingle
<1>4. CASE /\ served' = served
           /\ \A w \in Workers : worker'[w].pc = "missing" => worker'[w] = worker[w]
  <2>1. ASSUME NEW w \in Workers, worker'[w].pc = "missing"
        PROVE  /\ worker[w].pc = "missing"
               /\ BranchOf(worker[w].op) \in Branches
               /\ BranchOf(worker[w].op)' = BranchOf(worker[w].op)
    <3>1. worker'[w] = worker[w] /\ worker[w].pc = "missing"
      BY <1>4, <2>1
    <3>2. PICK k \in Operations :
            k = worker[w].op /\ operation[k].status = "running" /\ BranchOf(k) \in Branches
      BY <3>1, BusyWorker
    <3>3. operation'[k].action = operation[k].action /\ operation'[k].resource = operation[k].resource
      BY <3>2, StaysTheOperation
    <3>4. QED
      BY <3>1, <3>2, <3>3 DEF BranchOf
  <2>2. QED
    BY <1>4, <2>1, StaysTimedOut DEF BranchesAreSingle
<1>5. ASSUME NEW w \in Workers, NEW state, worker' = [worker EXCEPT ![w] = state],
             state.pc # "missing"
      PROVE  \A v \in Workers : worker'[v].pc = "missing" => worker'[v] = worker[v]
  BY <1>5 DEF Inv, TypeOK
<1>6. ASSUME NEW w \in Workers, Work(w) \/ CallFails(w) \/ Abandon(w), ~Issue(w), ~Inspect(w)
      PROVE  BranchesAreSingle'
  <2>1. served' = served
    BY <1>6 DEF Work, Claim, RefuseReceipt, Complete, Concludes, Retain, CallFails, Abandon
  <2>2. ASSUME Moves(w, "failing")
        PROVE  BranchesAreSingle'
    <3>1. PICK state :
            /\ state = [pc |-> "failing", op |-> worker[w].op, receipt |-> worker[w].receipt]
            /\ worker' = [worker EXCEPT ![w] = state]
      BY <2>2, MovesWorker
    <3>2. \A v \in Workers : worker'[v].pc = "missing" => worker'[v] = worker[v]
      BY <1>5, <3>1
    <3>3. QED
      BY <1>4, <2>1, <3>2
  <2>3. ASSUME NEW k \in Operations, Claim(w, k)
        PROVE  BranchesAreSingle'
    <3>1. PICK state : /\ state = [pc |-> "started", op |-> k, receipt |-> 0]
                       /\ worker' = [worker EXCEPT ![w] = state]
      BY <2>3 DEF Claim
    <3>2. \A v \in Workers : worker'[v].pc = "missing" => worker'[v] = worker[v]
      BY <1>5, <3>1
    <3>3. QED
      BY <1>4, <2>1, <3>2
  <2>4. CASE worker' = [worker EXCEPT ![w] = Idle]
    BY <1>4, <1>5, <2>1, <2>4 DEF Idle
  <2>5. QED
    BY <1>6, <2>2, <2>3, <2>4 DEF Work, RefuseReceipt, Complete, Concludes, Retain, CallFails, Abandon
<1>7. CASE worker' = worker /\ served' = served
  BY <1>4, <1>7
<1>8. QED
  BY <1>1, <1>2, <1>3, <1>6, <1>7
  DEF Next, Command, Publish, ReadRelease, Rollout, Pause, Resume, RequestDirective, vars

\* However calls fail and processes crash, a second item on a branch is the
\* late effect of a call that timed out.
THEOREM NoBlindDuplicates ==
  ASSUME ~LostCommits
  PROVE  Spec => []NoBlindDuplicate
<1>1. Init => BranchesAreSingle
  BY DEF Init, Idle, BranchesAreSingle
<1>2. Inv /\ BranchesAreSingle /\ [Next]_vars => BranchesAreSingle'
  BY BranchStep
<1>3. Inv /\ BranchesAreSingle => NoBlindDuplicate
  BY DEF Inv, TypeOK, BranchesAreSingle, NoBlindDuplicate
<1>4. QED
  BY <1>1, <1>2, <1>3, Invariance, PTL DEF Spec
=============================================================================
