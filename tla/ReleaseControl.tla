--------------------------- MODULE ReleaseControl ---------------------------
(***************************************************************************)
(* The Cloud control plane of one organization: the release, environment   *)
(* and operation tables, the API handlers that write them                  *)
(* (cloud/server.mjs), the reconciliation workers that carry publications  *)
(* and signed rollback directives to the upstream update service           *)
(* (cloud/worker.mjs, cloud/adapter.mjs), and that service as the workers  *)
(* see it.                                                                 *)
(*                                                                         *)
(* An API handler is one action: it runs in one transaction and takes the  *)
(* environment row FOR UPDATE before it reads anything it decides on, and  *)
(* the worker's completing transaction is visible to it entirely or not at *)
(* all.  A request that is refused writes nothing, so a refusal is the     *)
(* action not being taken; so are the quota and rate-limit refusals of a   *)
(* hosted deployment.  A worker is a process: each call to the upstream    *)
(* service, each failure and the completing transaction is a step of its   *)
(* own, and the process can stop between any two of them.                  *)
(***************************************************************************)
EXTENDS Naturals, Sequences

CONSTANTS
  Releases,       \* Cloud release ids
  Environments,   \* environment ids
  Operations,     \* operations, named by their Idempotency-Key: UNIQUE(organization_id,key)
  Workers,        \* processes running work()
  Clients,        \* API clients, each remembering the last release it read
  Percentages,    \* rollout percentages clients ask for
  Genuine,        \* what the upstream service may seal: {TRUE} honest, BOOLEAN also a wrong artifact
  LostCommits,    \* TRUE when a COMMIT may take effect although its answer is lost
  None,           \* SQL NULL
  MaxVersion,     \* bound: a control command is sent only below this release version
  MaxSealed,      \* bound: updates or directives sealed on one upstream branch
  MaxFaults       \* bound: failed or timed-out calls, aborted transactions and crashes

Branches == Releases \union Operations

Percent == 0..100

ASSUME ConstantsAssumption ==
  /\ Percentages \subseteq Percent
  /\ Genuine \subseteq BOOLEAN
  /\ LostCommits \in BOOLEAN
  /\ None \notin Branches
  /\ Releases \intersect Operations = {}
  /\ MaxVersion \in Nat
  /\ MaxSealed \in Nat
  /\ MaxFaults \in Nat

VARIABLES
  release,      \* table releases
  environment,  \* table environments
  operation,    \* table operations
  view,         \* the release row each client last read
  worker,       \* each worker's place in work(), its operation and the receipt it read
  served,       \* upstream: what is sealed on each branch, in order; the last one is served
  timeout,      \* upstream: per branch, whether a call timed out and whether it took effect since
  faults        \* failures so far

vars == <<release, environment, operation, view, worker, served, timeout, faults>>

-----------------------------------------------------------------------------
(* Rows *)

Distributing == {"rolling_out", "active"}
Terminal == {"killed", "rolled_back"}
Statuses == {"absent", "draft", "ready", "paused"} \union Distributing \union Terminal

ReleaseRow == [status: Statuses, environment: Environments \union {None},
               percentage: Percent, version: Nat, upstream: Nat]

NoRelease == [status |-> "absent", environment |-> None,
              percentage |-> 0, version |-> 0, upstream |-> 0]

EnvironmentRow == [head: Releases \union {None}, directive: Operations \union {None}]

Directives == {"rollback", "kill"}

OperationRow == [status: {"absent", "pending", "running", "succeeded"},
                 action: {"publish"} \union Directives \union {None},
                 resource: Releases \union {None}]

NoOperation == [status |-> "absent", action |-> None, resource |-> None]

View == [of: Releases \union {None}, version: Nat, status: Statuses, percentage: Percent]

NoView == [of |-> None, version |-> 0, status |-> "absent", percentage |-> 0]

WorkerState == [pc: {"idle", "started", "missing", "issued", "found", "failing"},
                op: Operations \union {None}, receipt: Nat]

Idle == [pc |-> "idle", op |-> None, receipt |-> 0]

-----------------------------------------------------------------------------
(* Queries *)

Open(k) == operation[k].status \in {"pending", "running"}

EnvironmentOf(k) == release[operation[k].resource].environment

\* Faulty variant: an operation a worker has begun is not counted.
BusyIfPending(e) == \E k \in Operations : operation[k].status = "pending" /\ EnvironmentOf(k) = e

\* The environment has a pending or running operation.
Busy(e) == \E k \in Operations : Open(k) /\ EnvironmentOf(k) = e

\* The upstream branch an operation works on: its release's, or cloud-<operation id>.
BranchOf(k) == IF operation[k].action = "publish" THEN operation[k].resource ELSE k

StatusAt(percentage) == IF percentage = 100 THEN "active" ELSE "rolling_out"

-----------------------------------------------------------------------------
Init ==
  /\ release = [r \in Releases |-> NoRelease]
  /\ environment = [e \in Environments |-> [head |-> None, directive |-> None]]
  /\ operation = [k \in Operations |-> NoOperation]
  /\ view = [c \in Clients |-> NoView]
  /\ worker = [w \in Workers |-> Idle]
  /\ served = [b \in Branches |-> <<>>]
  /\ timeout = [b \in Branches |-> "never"]
  /\ faults = 0

-----------------------------------------------------------------------------
(* API handlers *)

\* GET /v1/releases/:id.
ReadRelease(c, r) ==
  /\ release[r].status # "absent"
  /\ view' = [view EXCEPT ![c] = [of |-> r, version |-> release[r].version,
                                  status |-> release[r].status,
                                  percentage |-> release[r].percentage]]
  /\ UNCHANGED <<release, environment, operation, worker, served, timeout, faults>>

\* The row operation() inserts; a key that is already taken replays or conflicts.
Enqueue(k, action, r) ==
  /\ operation[k].status = "absent"
  /\ operation' = [operation EXCEPT
                     ![k] = [status |-> "pending", action |-> action, resource |-> r]]

\* POST /v1/releases: a draft at 0% and the operation that publishes it.
Publish(e, r, k) ==
  /\ release[r].status = "absent"
  /\ ~Busy(e)
  /\ Enqueue(k, "publish", r)
  /\ release' = [release EXCEPT
                   ![r] = [status |-> "draft", environment |-> e,
                           percentage |-> 0, version |-> 1, upstream |-> 0]]
  /\ UNCHANGED <<environment, view, worker, served, timeout, faults>>

\* Faulty variant: retired releases accept commands too.
AcceptsRetired(c, r) ==
  /\ view[c].of = r
  /\ view[c].version = release[r].version
  /\ release[r].version < MaxVersion
  /\ release[r].status \notin {"absent", "draft"}
  /\ ~Busy(release[r].environment)

\* What every control command needs: the version its sender read is the row's,
\* the release is in a state that accepts commands, nothing is pending.
Accepts(c, r) ==
  /\ view[c].of = r
  /\ view[c].version = release[r].version
  /\ release[r].version < MaxVersion
  /\ release[r].status \notin {"absent", "draft"} \union Terminal
  /\ ~Busy(release[r].environment)

\* POST /v1/releases/:id/rollback and /kill: only recorded here, done by a worker.
RequestDirective(c, r, action, k) ==
  /\ Accepts(c, r)
  /\ environment[release[r].environment].head = r
  /\ Enqueue(k, action, r)
  /\ UNCHANGED <<release, environment, view, worker, served, timeout, faults>>

\* Faulty variant: the version is not advanced.
MovedSilently(row, status) == [row EXCEPT !.status = status]

\* A row whose status changes has a new version.
Moved(row, status) == [row EXCEPT !.status = status, !.version = @ + 1]

\* The handler's closing UPDATE of the release it was sent for.
Updated(row, status, percentage) == [Moved(row, status) EXCEPT !.percentage = percentage]

\* Faulty variant: the release taken over from keeps distributing.
NotDisplaced(row) == row

\* The row of a release that stops distributing because another one takes over.
Displaced(row) == IF row.status \in Distributing THEN Moved(row, "paused") ELSE row

\* POST /v1/releases/:id/rollout.
Rollout(c, r, percentage) ==
  LET e == release[r].environment
      old == environment[e].head IN
  /\ Accepts(c, r)
  /\ release[r].status # "paused"
  /\ release' = [q \in Releases |->
                   IF q = r THEN Updated(release[r], StatusAt(percentage), percentage)
                   ELSE IF q = old THEN Displaced(release[q])
                   ELSE release[q]]
  /\ environment' = [environment EXCEPT ![e] = [head |-> r, directive |-> None]]
  /\ UNCHANGED <<operation, view, worker, served, timeout, faults>>

\* POST /v1/releases/:id/pause.
Pause(c, r) ==
  /\ Accepts(c, r)
  /\ release[r].status \in Distributing
  /\ release' = [release EXCEPT ![r] = Updated(@, "paused", @.percentage)]
  /\ UNCHANGED <<environment, operation, view, worker, served, timeout, faults>>

\* POST /v1/releases/:id/resume.
Resume(c, r) ==
  /\ Accepts(c, r)
  /\ release[r].status = "paused"
  /\ environment[release[r].environment].head = r
  /\ release' = [release EXCEPT ![r] = Updated(@, StatusAt(@.percentage), @.percentage)]
  /\ UNCHANGED <<environment, operation, view, worker, served, timeout, faults>>

-----------------------------------------------------------------------------
(* The upstream service, external: three-step uploads, signed directives. *)

\* A sealed upload or directive becomes the branch's latest.
Seal(b) ==
  /\ Len(served[b]) < MaxSealed
  /\ \E genuine \in Genuine : served' = [served EXCEPT ![b] = Append(@, genuine)]

\* A call the worker gave up on takes effect after all.
Land(b) ==
  /\ timeout[b] = "awaited"
  /\ Seal(b)
  /\ timeout' = [timeout EXCEPT ![b] = "landed"]
  /\ UNCHANGED <<release, environment, operation, view, worker, faults>>

-----------------------------------------------------------------------------
(* work(): one operation at a time under a session advisory lock *)

Moves(w, pc) == worker' = [worker EXCEPT ![w].pc = pc]

\* Faulty variant: the lock is always granted.
AlwaysUnlocked(k) == TRUE

\* pg_try_advisory_lock: no session holds the operation.
Unlocked(k) == \A v \in Workers : worker[v].op # k

\* Faulty variant: operations left running by a crash are not selected.
ClaimPending(w, k) ==
  /\ worker[w].pc = "idle"
  /\ Unlocked(k)
  /\ operation[k].status = "pending"
  /\ operation' = [operation EXCEPT ![k].status = "running"]
  /\ worker' = [worker EXCEPT ![w] = [pc |-> "started", op |-> k, receipt |-> 0]]
  /\ UNCHANGED <<release, environment, view, served, timeout, faults>>

\* Lock, status re-read under the lock, UPDATE to running.
Claim(w, k) ==
  /\ worker[w].pc = "idle"
  /\ Unlocked(k)
  /\ Open(k)
  /\ operation' = [operation EXCEPT ![k].status = "running"]
  /\ worker' = [worker EXCEPT ![w] = [pc |-> "started", op |-> k, receipt |-> 0]]
  /\ UNCHANGED <<release, environment, view, served, timeout, faults>>

\* inspect(): the latest signed item on the branch, or null.  The first call
\* decides whether to issue the command, the second must find its result.
Inspect(w) ==
  LET found == served[BranchOf(worker[w].op)] IN
  /\ worker[w].pc \in {"started", "issued"}
  /\ \/ /\ found # <<>>
        /\ worker' = [worker EXCEPT ![w] = [pc |-> "found", op |-> @.op, receipt |-> Len(found)]]
     \/ found = <<>> /\ worker[w].pc = "started" /\ Moves(w, "missing")
     \/ found = <<>> /\ worker[w].pc = "issued" /\ Moves(w, "failing")
  /\ UNCHANGED <<release, environment, operation, view, served, timeout, faults>>

\* upload() or rollback() answers that it is done.
Issue(w) ==
  /\ worker[w].pc = "missing"
  /\ Seal(BranchOf(worker[w].op))
  /\ Moves(w, "issued")
  /\ UNCHANGED <<release, environment, operation, view, timeout, faults>>

\* The upload or rollback the worker gave up on, if that is where it was, may
\* or may not still take effect.
GivesUp(w) ==
  \/ UNCHANGED timeout
  \/ /\ worker[w].pc = "missing"
     /\ timeout' = [timeout EXCEPT ![BranchOf(worker[w].op)] = "awaited"]

\* The receipt has the artifact's hash, or is a rollBackToEmbedded directive.
ReceiptMatches(w) == served[BranchOf(worker[w].op)][worker[w].receipt]

\* The receipt is of another artifact or no rollback directive.
RefuseReceipt(w) ==
  /\ worker[w].pc = "found"
  /\ ~ReceiptMatches(w)
  /\ Moves(w, "failing")
  /\ UNCHANGED <<release, environment, operation, view, served, timeout, faults>>

\* Faulty variant: the receipt is not recorded.
ReadyWithoutReceipt(row, receipt) == [row EXCEPT !.status = "ready"]

\* The row of a release whose artifact is sealed upstream; it keeps its version.
Ready(row, receipt) == [row EXCEPT !.status = "ready", !.upstream = receipt]

\* Faulty variant: a rollback only pauses its release.
RetiredByKillOnly(action) == IF action = "kill" THEN "killed" ELSE "paused"

RetiredBy(action) == IF action = "kill" THEN "killed" ELSE "rolled_back"

\* The release rows after the completing transaction of operation k.
ReleasesAfter(k, receipt) ==
  LET r == operation[k].resource IN
  IF operation[k].action = "publish"
  THEN [release EXCEPT ![r] = Ready(@, receipt)]
  ELSE [q \in Releases |->
          IF q = r THEN Moved(release[q], RetiredBy(operation[k].action))
          ELSE IF release[q].environment = release[r].environment
               THEN Displaced(release[q])
               ELSE release[q]]

\* The completing transaction of the worker's operation, of unconditional UPDATEs.
Concludes(w) ==
  LET k == worker[w].op IN
  /\ worker[w].pc = "found"
  /\ ReceiptMatches(w)
  /\ release' = ReleasesAfter(k, worker[w].receipt)
  /\ environment' = IF operation[k].action = "publish" THEN environment
                    ELSE [environment EXCEPT ![EnvironmentOf(k)].directive = k]
  /\ operation' = [operation EXCEPT ![k].status = "succeeded"]

\* The transaction is committed and the lock released.
Complete(w) ==
  /\ Concludes(w)
  /\ worker' = [worker EXCEPT ![w] = Idle]
  /\ UNCHANGED <<view, served, timeout, faults>>

\* A call is refused, breaks off or times out; so may the completing transaction,
\* which has no effect unless it is only the answer to its COMMIT that is lost.
CallFails(w) ==
  /\ worker[w].pc \in {"started", "missing", "issued", "found"}
  /\ faults < MaxFaults
  /\ \E committed \in {FALSE, LostCommits} :
       IF committed THEN Concludes(w) ELSE UNCHANGED <<release, environment, operation>>
  /\ Moves(w, "failing")
  /\ faults' = faults + 1
  /\ GivesUp(w)
  /\ UNCHANGED <<view, served>>

\* The catch block and the unlock: the operation is retained for another attempt,
\* whatever its status.
Retain(w) ==
  /\ worker[w].pc = "failing"
  /\ operation' = [operation EXCEPT ![worker[w].op].status = "pending"]
  /\ worker' = [worker EXCEPT ![w] = Idle]
  /\ UNCHANGED <<release, environment, view, served, timeout, faults>>

\* The process dies, or the catch block's own UPDATE fails: the lock is
\* released with the session and the operation stays running.
Abandon(w) ==
  /\ worker[w].pc # "idle"
  /\ faults < MaxFaults
  /\ worker' = [worker EXCEPT ![w] = Idle]
  /\ faults' = faults + 1
  /\ GivesUp(w)
  /\ UNCHANGED <<release, environment, operation, view, served>>

-----------------------------------------------------------------------------
Command(c, r) ==
  \/ \E p \in Percentages : Rollout(c, r, p)
  \/ Pause(c, r)
  \/ Resume(c, r)
  \/ \E action \in Directives, k \in Operations : RequestDirective(c, r, action, k)

\* What work() does of its own accord.
Work(w) ==
  \/ \E k \in Operations : Claim(w, k)
  \/ Inspect(w)
  \/ Issue(w)
  \/ RefuseReceipt(w)
  \/ Complete(w)
  \/ Retain(w)

Next ==
  \/ \E e \in Environments, r \in Releases, k \in Operations : Publish(e, r, k)
  \/ \E c \in Clients, r \in Releases : ReadRelease(c, r) \/ Command(c, r)
  \/ \E w \in Workers : Work(w) \/ CallFails(w) \/ Abandon(w)
  \/ \E b \in Branches : Land(b)

Spec == Init /\ [][Next]_vars

\* A process calls work() every three seconds and runs each pass to its end.
FairSpec == Spec /\ \A w \in Workers : WF_vars(Work(w))
-----------------------------------------------------------------------------
(* Properties *)

\* Every table holds rows of its schema, every worker a state of work().
TypeOK ==
  /\ release \in [Releases -> ReleaseRow]
  /\ environment \in [Environments -> EnvironmentRow]
  /\ operation \in [Operations -> OperationRow]
  /\ view \in [Clients -> View]
  /\ worker \in [Workers -> WorkerState]
  /\ served \in [Branches -> Seq(BOOLEAN)]
  /\ timeout \in [Branches -> {"never", "awaited", "landed"}]
  /\ faults \in Nat

\* An environment never has two pending or running operations, however
\* publications, commands, retries and crashes interleave.
OneOpenOperation ==
  \A k, l \in Operations :
    Open(k) /\ Open(l) /\ EnvironmentOf(k) = EnvironmentOf(l) => k = l

\* A release that is being offered is its environment's head: switching heads,
\* resuming and directives never leave two releases distributing.
OnlyHeadDistributes ==
  \A r \in Releases :
    release[r].status \in Distributing => environment[release[r].environment].head = r

\* While a rollback directive is the environment's policy, none of its releases
\* is distributing: the directive cannot be undone by resuming one of them.
DirectiveSilencesReleases ==
  \A r \in Releases :
    release[r].status \in Distributing => environment[release[r].environment].directive = None

\* What is distributed is the environment's policy: its head, and no release against
\* a directive, however commands and completions interleave.
DistributingIsPolicy == OnlyHeadDistributes /\ DirectiveSilencesReleases

\* A directive becomes policy only when its operation is recorded as done, its
\* release retired, and a verified signed directive is on its branch.
DirectiveIsSigned ==
  \A e \in Environments :
    LET k == environment[e].directive IN
    k # None =>
      /\ operation[k].status = "succeeded"
      /\ operation[k].action \in Directives
      /\ EnvironmentOf(k) = e
      /\ release[operation[k].resource].status \in Terminal
      /\ \E i \in 1..Len(served[k]) : served[k][i]

\* A release leaves draft only with the receipt of its own sealed artifact.
ReceiptBeforeReady ==
  \A r \in Releases :
    release[r].status \notin {"absent", "draft"} =>
      /\ release[r].upstream \in 1..Len(served[r])
      /\ served[r][release[r].upstream]

\* Nothing is ready or in force without a verified receipt of the right artifact, even
\* when a wrong one was sealed on its branch or a process died and another retried.
PolicyIsReceipted == ReceiptBeforeReady /\ DirectiveIsSigned

\* The optimistic check is sound: a client whose version still matches knows
\* the row's status and percentage.  (Becoming ready keeps the version, and a
\* draft accepts no command.)
MatchingVersionIsCurrent ==
  \A c \in Clients, r \in Releases :
    /\ view[c].of = r
    /\ view[c].version = release[r].version
    /\ view[c].status # "draft"
    => /\ release[r].status = view[c].status
       /\ release[r].percentage = view[c].percentage

\* Two updates or directives are sealed on one branch only if a call for it
\* timed out: a worker looks before it issues, and only one worker does.
NoBlindDuplicate ==
  \A b \in Branches : Len(served[b]) > 1 => timeout[b] # "never"

\* Killed and rolled-back releases stay so, whatever is requested, retried or
\* completed late: "Kill ... cannot resurrect the killed ID" (docs/concepts/delivery.md).
\* It holds unless LostCommits.
TerminalIsForever ==
  [][\A r \in Releases :
       release[r].status \in Terminal => release'[r].status = release[r].status]_vars

\* An operation is completed once: no later failure or second worker reopens it, as long
\* as a completing transaction that seems to fail did (not LostCommits), because the
\* catch block does not look at the status it overwrites.
SucceededIsForever ==
  [][\A k \in Operations :
       operation[k].status = "succeeded" => operation'[k] = operation[k]]_vars

\* A release displaced as the head while paused is never offered again.
DisplacedStaysPaused ==
  [][\A r \in Releases :
       release[r].status = "paused" /\ environment[release[r].environment].head # r
       => release'[r].status = "paused"]_vars

\* No request, retry or late completion takes back what was concluded: a retirement,
\* a displacement, an operation that succeeded (not LostCommits, as above).
ConclusionsStand == TerminalIsForever /\ DisplacedStaysPaused /\ SucceededIsForever

\* With finitely many failures every accepted operation is carried out, although
\* workers crash and calls time out, unless the service sealed a wrong artifact on
\* its branch: inspect finds that one on every retry and the environment stays busy.
OperationsSucceed ==
  \A k \in Operations :
    Open(k) ~> \/ operation[k].status = "succeeded"
               \/ \E i \in 1..Len(served[BranchOf(k)]) : ~served[BranchOf(k)][i]

\* What the tables make of each environment, in the terms of EnvironmentPolicy.
Answer(e) ==
  IF environment[e].directive # None THEN "embedded"
  ELSE IF environment[e].head # None /\ release[environment[e].head].status \in Distributing
       THEN "offer" ELSE "nothing"

Retired ==
  {r \in Releases :
     \/ release[r].status \in Terminal
     \/ release[r].status = "paused" /\ environment[release[r].environment].head # r}

Policy == INSTANCE EnvironmentPolicy WITH
  answer <- [e \in Environments |-> Answer(e)],
  current <- [e \in Environments |-> environment[e].head],
  retired <- Retired

\* The tables and workers implement the policy the delivery documentation
\* promises for each environment.
ImplementsPolicy == Policy!Spec

=============================================================================
