----------------------------- MODULE Telemetry -----------------------------
(***************************************************************************)
(* Telemetry of one installation: the device's queue (CloudTelemetry.kt)   *)
(* and the ingest of its batches (ingest() in cloud/server.mjs).           *)
(*                                                                         *)
(* The device works on one executor thread: tasks posted to it, and the    *)
(* periodic flush, which blocks the thread until the server answers or the *)
(* request times out.  Preferences are changed in memory and reach the     *)
(* disk some time later; a process that dies takes with it what has not.   *)
(* A request that was given up on may still reach the server.  Ingest is   *)
(* one transaction, and the rows it writes make overlapping ones exclude   *)
(* each other.  Enrollment is reduced to which credential is live.         *)
(***************************************************************************)
EXTENDS Naturals, Sequences, SequencesExt, FiniteSets

CONSTANTS
  Releases,      \* remote updates, which the server knows as releases
  Embedded,      \* embedded updates of the successive versions of the APK
  None,
  QueueMax,      \* events kept on the device (64)
  BatchMax,      \* events sent at once (32)
  Times,         \* times the device's clock may show
  MaxReports,    \* bound: events posted by the updater and by launches
  MaxDirectives, \* bound: rollbacks seen
  MaxEnrolled,   \* bound: enrollments that replace a live credential
  MaxFaults      \* bound: processes killed, requests and answers lost

Updates == Releases \union Embedded

ASSUME TelemetryAssumption ==
  /\ Releases \intersect Embedded = {}
  /\ None \notin Updates
  /\ QueueMax \in Nat \ {0} /\ BatchMax \in Nat \ {0}
  /\ Times \subseteq Nat /\ Times # {} /\ None \notin Times
  /\ MaxReports \in Nat /\ MaxDirectives \in Nat /\ MaxEnrolled \in Nat /\ MaxFaults \in Nat

VARIABLES
  up,          \* the process is running
  installed,   \* the embedded update of the installed APK
  prefs,       \* the preferences in memory, the queue among them
  disk,        \* the preferences on disk
  jobs,        \* tasks posted to the executor
  flush,       \* the flush the executor is in
  reports,     \* events posted so far
  named,       \* identities given to events so far
  directives,  \* rollbacks seen so far
  late,        \* requests the device has given up on
  events,      \* the server's rows of events
  activeRelease,  \* of the installation, and since when
  registered,  \* the embedded update the installation registered
  live,        \* the installation's live credential; they are numbered
  faults       \* faults so far

device == <<up, installed, prefs, disk, jobs, flush, reports, named, directives>>
server == <<events, activeRelease, registered, live>>
vars == <<device, late, server, faults>>

Types == {"update_activated", "rollback_applied", "update_rejected", "other"}

Event == [id: Nat, type: Types, update: Updates \union {None}, time: Times]

Emit(type, u) == [do |-> "emit", type |-> type, update |-> u]
Selected(u) == [do |-> "selected", type |-> "other", update |-> u]
RollbackSeen == [do |-> "rollback", type |-> "other", update |-> None]

Idle == [stage |-> "idle", batch |-> <<>>, credential |-> 0]

NoPreferences == [queue |-> <<>>, credential |-> 0, rollback |-> FALSE, lastRemote |-> None]

Never == [update |-> None, time |-> None]

Init ==
  /\ up = FALSE
  /\ installed \in Embedded
  /\ prefs = NoPreferences /\ disk = NoPreferences
  /\ jobs = <<>> /\ flush = Idle
  /\ reports = 0 /\ named = 0 /\ directives = 0
  /\ late = {}
  /\ events = {} /\ activeRelease = Never
  /\ registered = None /\ live = 0
  /\ faults = 0

-----------------------------------------------------------------------------
(* The device *)

\* What rejected() posts: the rejection, and that the native screen took over.
Rejection(u) == <<Emit("update_rejected", u), Emit("other", u)>>

\* A process starts, loads the queue, and the update it launches is selected, or
\* rejected before it could be.
Boot(u) ==
  /\ ~up
  /\ up' = TRUE
  /\ prefs' = disk
  /\ \/ jobs' = <<Emit("update_activated", u), Selected(u)>> /\ reports' = reports + 1
     \/ jobs' = Rejection(u) /\ reports' = reports + 2
  /\ reports' <= MaxReports
  /\ UNCHANGED <<installed, disk, flush, named, directives, late, server, faults>>

\* The updater or the host reports something else of an update, or of none; what is
\* only ever told of a release (update_available, download_started,
\* download_completed, a rejection later than the launch) is known like the rest.
Notice(u) ==
  /\ up /\ reports < MaxReports
  /\ jobs' = Append(jobs, Emit("other", u))
  /\ reports' = reports + 1
  /\ UNCHANGED <<up, installed, prefs, disk, flush, named, directives, late, server, faults>>

\* A check for updates ends with a rollback directive.
SeeRollback ==
  /\ up /\ directives < MaxDirectives
  /\ jobs' = Append(jobs, RollbackSeen)
  /\ directives' = directives + 1
  /\ UNCHANGED <<up, installed, prefs, disk, flush, reports, named, late, server, faults>>

\* Faulty variant: tasks run while a flush waits for its answer.
AlwaysFree == up

\* The executor runs one thing at a time.
ExecutorFree == up /\ flush = Idle

\* A full queue drops its oldest event.
Enqueue(q, e) == Append(IF Len(q) >= QueueMax THEN Tail(q) ELSE q, e)

\* What the device's clock may give an event; only an activation's time is compared.
TimesOf(type) == IF type = "update_activated" THEN Times ELSE {CHOOSE t \in Times : TRUE}

\* The event gets its identity and its time when its task runs.
RunEmit ==
  /\ ExecutorFree /\ jobs # <<>> /\ Head(jobs).do = "emit"
  /\ jobs' = Tail(jobs)
  /\ named' = named + 1
  /\ \E t \in TimesOf(Head(jobs).type) :
       LET e == [id |-> named + 1, type |-> Head(jobs).type, update |-> Head(jobs).update, time |-> t]
       IN prefs' = [prefs EXCEPT !.queue = Enqueue(@, e)]
  /\ UNCHANGED <<up, installed, disk, flush, reports, directives, late, server, faults>>

\* Faulty variant: the intent is not cleared.
AfterSelectionIntentStays(u) ==
  /\ jobs' = Tail(jobs) \o IF u \in Embedded /\ prefs.rollback
                           THEN <<Emit("rollback_applied", prefs.lastRemote)>> ELSE <<>>
  /\ prefs' = [prefs EXCEPT !.lastRemote = IF u \in Releases THEN u ELSE @]

\* What selected() posts and remembers: after a rollback the embedded update is
\* reported once, and the intent is cleared before the report is queued.
AfterSelection(u) ==
  LET rollback == u \in Embedded /\ prefs.rollback IN
  /\ jobs' = Tail(jobs) \o IF rollback THEN <<Emit("rollback_applied", prefs.lastRemote)>> ELSE <<>>
  /\ prefs' = [prefs EXCEPT
       !.rollback = @ /\ ~rollback,
       !.lastRemote = IF rollback THEN None ELSE IF u \in Releases THEN u ELSE @]

RunSelected ==
  /\ ExecutorFree /\ jobs # <<>> /\ Head(jobs).do = "selected"
  /\ AfterSelection(Head(jobs).update)
  /\ UNCHANGED <<up, installed, disk, flush, reports, named, directives, late, server, faults>>

RunRollbackSeen ==
  /\ ExecutorFree /\ jobs # <<>> /\ Head(jobs).do = "rollback"
  /\ jobs' = Tail(jobs)
  /\ prefs' = [prefs EXCEPT !.rollback = TRUE]
  /\ UNCHANGED <<up, installed, disk, flush, reports, named, directives, late, server, faults>>

\* The preferences reach the disk.
WriteDisk ==
  /\ up /\ disk # prefs
  /\ disk' = prefs
  /\ UNCHANGED <<up, installed, prefs, jobs, flush, reports, named, directives, late, server, faults>>

\* The periodic flush sends the oldest events.
StartFlush ==
  /\ ExecutorFree
  /\ prefs.credential # 0 /\ prefs.queue # <<>>
  /\ LET n == IF Len(prefs.queue) < BatchMax THEN Len(prefs.queue) ELSE BatchMax
     IN flush' = [stage |-> "sent", batch |-> SubSeq(prefs.queue, 1, n), credential |-> prefs.credential]
  /\ UNCHANGED <<up, installed, prefs, disk, jobs, reports, named, directives, late, server, faults>>

\* The batch was accepted: it leaves the queue.
FinishFlush ==
  /\ up /\ flush.stage = "accepted"
  /\ prefs' = [prefs EXCEPT !.queue = SubSeq(@, Len(flush.batch) + 1, Len(@))]
  /\ flush' = Idle
  /\ UNCHANGED <<up, installed, disk, jobs, reports, named, directives, late, server, faults>>

\* The batch was refused: it stays.
RetryLater ==
  /\ up /\ flush.stage = "refused"
  /\ flush' = Idle
  /\ UNCHANGED <<up, installed, prefs, disk, jobs, reports, named, directives, late, server, faults>>

\* A request that its device no longer waits for may be under way.
GivenUp == IF flush.stage = "sent" THEN late \union {flush} ELSE late

\* The connection breaks or times out.
Timeout ==
  /\ up /\ flush # Idle
  /\ faults < MaxFaults
  /\ faults' = faults + 1
  /\ flush' = Idle
  /\ late' \in {late, GivenUp}
  /\ UNCHANGED <<up, installed, prefs, disk, jobs, reports, named, directives, server>>

\* The process ends; what is not on disk is lost.
Die ==
  /\ faults < MaxFaults
  /\ faults' = faults + 1
  /\ up' = FALSE
  /\ prefs' = NoPreferences
  /\ jobs' = <<>> /\ flush' = Idle
  /\ late' \in {late, GivenUp}
  /\ UNCHANGED <<disk, reports, named, directives, server>>

Kill == up /\ Die /\ UNCHANGED installed

\* Another version of the APK is installed, which ends the process.
Upgrade(u) == u # installed /\ Die /\ installed' = u

-----------------------------------------------------------------------------
(* The server *)

\* The device has no credential, or its answer was lost and it is an old one.
Unauthorized == prefs.credential = 0 \/ prefs.credential # live

\* Enrollment registers the installation and replaces its credential; the device
\* stores the new one on disk at once, unless the answer is lost.
Enroll ==
  /\ ExecutorFree
  /\ Unauthorized \/ live < MaxEnrolled
  /\ live' = live + 1
  /\ registered' = installed
  /\ \/ /\ prefs' = [prefs EXCEPT !.credential = live + 1]
        /\ disk' = prefs'
        /\ UNCHANGED faults
     \/ /\ faults < MaxFaults
        /\ faults' = faults + 1
        /\ UNCHANGED <<prefs, disk>>
  /\ UNCHANGED <<up, installed, jobs, flush, reports, named, directives, late, events, activeRelease>>

\* An event names a release, the registered embedded update, or nothing.
Known(e) == e.update \in Releases \union {None, registered}

\* What was rejected must have been a release.
Attributable(e) == Known(e) /\ (e.type = "update_rejected" => e.update \in Releases)

\* The batch is authorized and each of its events can be attributed.
AcceptsBatch(batch, credential) ==
  /\ credential = live
  /\ \A i \in DOMAIN batch : Attributable(batch[i])

\* Faulty variant: the latest report counts.
Supersedes(a, e) == e.type = "update_activated"

\* An activation supersedes one that occurred before it.
Newer(a, e) == e.type = "update_activated" /\ (a.time = None \/ a.time < e.time)

\* An embedded update is no release.
ReleaseOf(e) == IF e.update \in Releases THEN e.update ELSE None

\* The active release after each of a batch's events, which are taken in turn; those
\* that the server has are passed over.
ActiveAfterEach(batch) ==
  LET after[i \in 0..Len(batch)] ==
        IF i = 0 THEN activeRelease
        ELSE LET e == batch[i] IN
             IF e \notin events /\ Newer(after[i - 1], e)
             THEN [update |-> ReleaseOf(e), time |-> e.time]
             ELSE after[i - 1]
  IN after

\* Faulty variant: the rows of a retried batch conflict.
IngestNew(batch) ==
  /\ \A i \in DOMAIN batch : batch[i] \notin events
  /\ events' = events \union ToSet(batch)
  /\ activeRelease' = ActiveAfterEach(batch)[Len(batch)]
  /\ UNCHANGED <<registered, live>>

\* ingest(): events the server has are passed over.
Ingest(batch) ==
  /\ events' = events \union ToSet(batch)
  /\ activeRelease' = ActiveAfterEach(batch)[Len(batch)]
  /\ UNCHANGED <<registered, live>>

\* The server accepts the batch of the flush under way.
AcceptBatch ==
  /\ flush.stage = "sent"
  /\ AcceptsBatch(flush.batch, flush.credential)
  /\ Ingest(flush.batch)
  /\ flush' = [flush EXCEPT !.stage = "accepted"]
  /\ UNCHANGED <<up, installed, prefs, disk, jobs, reports, named, directives, late, faults>>

\* The server refuses it; nothing of it is kept.
RefuseBatch ==
  /\ flush.stage = "sent"
  /\ ~AcceptsBatch(flush.batch, flush.credential)
  /\ flush' = [flush EXCEPT !.stage = "refused"]
  /\ UNCHANGED <<up, installed, prefs, disk, jobs, reports, named, directives, late, server, faults>>

\* A request that was given up on is served after all.
ServeLate(r) ==
  /\ late' = late \ {r}
  /\ \/ AcceptsBatch(r.batch, r.credential) /\ Ingest(r.batch)
     \/ ~AcceptsBatch(r.batch, r.credential) /\ UNCHANGED server
  /\ UNCHANGED <<device, faults>>

-----------------------------------------------------------------------------
Executor == RunEmit \/ RunSelected \/ RunRollbackSeen \/ StartFlush \/ FinishFlush \/ RetryLater

Next ==
  \/ \E u \in Releases \union {installed} : Boot(u)
  \/ \E u \in Releases \union {installed, None} : Notice(u)
  \/ SeeRollback
  \/ Executor
  \/ WriteDisk
  \/ Timeout \/ Kill
  \/ \E u \in Embedded : Upgrade(u)
  \/ Enroll
  \/ AcceptBatch \/ RefuseBatch
  \/ \E r \in late : ServeLate(r)

Spec == Init /\ [][Next]_vars

\* The executor and the server go on, and a device whose credential does not
\* count is enrolled again in time.
FairSpec ==
  /\ Spec
  /\ WF_vars(RunEmit \/ RunSelected \/ RunRollbackSeen)
  /\ SF_vars(StartFlush) /\ WF_vars(FinishFlush) /\ WF_vars(RetryLater)
  /\ WF_vars(AcceptBatch) /\ WF_vars(RefuseBatch)
  /\ SF_vars(Enroll /\ Unauthorized)

-----------------------------------------------------------------------------
(* Properties *)

Preferences == [queue: Seq(Event), credential: Nat, rollback: BOOLEAN, lastRemote: Releases \union {None}]

\* Preferences, requests and rows are made of events, and the queue keeps to its
\* limit, on disk too.
TypeOK ==
  /\ up \in BOOLEAN /\ installed \in Embedded
  /\ prefs \in Preferences /\ Len(prefs.queue) <= QueueMax
  /\ disk \in Preferences /\ Len(disk.queue) <= QueueMax
  /\ jobs \in Seq([do: {"emit", "selected", "rollback"}, type: Types, update: Updates \union {None}])
  /\ flush \in [stage: {"idle", "sent", "accepted", "refused"}, batch: Seq(Event), credential: Nat]
  /\ Len(flush.batch) <= BatchMax
  /\ reports \in Nat /\ named \in Nat /\ directives \in Nat /\ faults \in Nat
  /\ \A r \in late : r.stage = "sent" /\ r.batch \in Seq(Event)
  /\ events \subseteq Event
  /\ activeRelease \in [update: Releases \union {None}, time: Times \union {None}]
  /\ registered \in Embedded \union {None} /\ live \in Nat

\* An event leaves the queue of a running process only counted by the server, or
\* as the oldest one of a full queue: what a flush removes is what it has sent,
\* although it removes by number.
RemovedIsCounted ==
  [][up /\ up' => \A e \in ToSet(prefs.queue) \ ToSet(prefs'.queue) :
       e \in events \/ (e = Head(prefs.queue) /\ Len(prefs.queue) = QueueMax)]_vars

\* The active release is the one activated last by the device's clock, whatever the
\* order in which batches, retries and abandoned requests are ingested.
ActiveIsNewest ==
  LET activations == {e \in events : e.type = "update_activated"} IN
  /\ (activeRelease = Never) <=> (activations = {})
  /\ activations # {} =>
       /\ \E e \in activations : activeRelease = [update |-> ReleaseOf(e), time |-> e.time]
       /\ \A e \in activations : e.time <= activeRelease.time

\* What survives the death of a process reports each rollback directive at most
\* once: the report and the intent it answers are never both on disk.  (A report
\* that was sent before the disk was written is sent again under a new identity;
\* the metrics count installations, not reports.)
RollbackSurvivesOnce ==
  Cardinality({i \in DOMAIN disk.queue : disk.queue[i].type = "rollback_applied"})
    + (IF disk.rollback THEN 1 ELSE 0) <= directives

\* No event stays in the queue forever, although credentials are lost with the
\* answers that carry them and batches are sent again after their answers were,
\* unless the queue holds one that the server cannot attribute, which has its whole
\* batch refused: an event of another version of the APK than the one registered,
\* or the rejection of an embedded update (events are taken to be of the last seven
\* days).
QueueDrains ==
  \A n \in 1..(MaxReports + MaxDirectives) :
    (\E e \in ToSet(prefs.queue) : e.id = n)
      ~> \/ \A e \in ToSet(prefs.queue) : e.id # n
         \/ \E e \in ToSet(prefs.queue) : ~Attributable(e)
=============================================================================
