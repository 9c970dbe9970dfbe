----------------------------- MODULE RenderHost -----------------------------
(***************************************************************************)
(* The host of one launched update in one process (DootahApplication.kt):  *)
(* call sites look up rendered results on the main thread, a single worker *)
(* thread evaluates the program in a sandbox, and a refused or rejected    *)
(* update gives way to the native code, while committed frames are         *)
(* acknowledged to the updater as healthy.                                 *)
(*                                                                         *)
(* Each thread runs its tasks in order, one at a time.  The worker's       *)
(* coroutines let other tasks in where they suspend: to record a failure   *)
(* and to continue on the main thread.  mutableValue and dispatchValue are *)
(* always written together and are one variable here.  An update without   *)
(* program (the embedded one) is looked up by nobody.                      *)
(***************************************************************************)
EXTENDS Naturals, Sequences, FiniteSets

CONSTANTS
  Invocations,      \* what call sites look up: a function and its inputs
  MaxInvocations,   \* results and pending evaluations together (128)
  MaxPending,       \* pending evaluations (32)
  MaxActions,       \* bound: event actions evaluated
  MaxRefusals       \* bound: refusals by call sites

ASSUME HostAssumption ==
  /\ MaxInvocations \in Nat \ {0}
  /\ MaxPending \in Nat \ {0}
  /\ MaxActions \in Nat
  /\ MaxRefusals \in Nat

VARIABLES
  kind,          \* the launched update: "remote" or "embedded"
  shown,         \* whether it is the dispatch value; else the native baseline
  results,       \* invocations whose result is cached
  pending,       \* invocations that wait for their evaluation
  tasks,         \* tasks queued for the worker thread
  evaluating,    \* the evaluation the worker thread is in
  posted,        \* tasks posted to the main thread
  sandbox,       \* "none", "open" or "closed"
  rejected,      \* the update was rejected
  recording,     \* what waits for the failed launch to be recorded
  failures,      \* failed launches recorded by the updater
  frame,         \* a committed frame of the update: "none", "committed" or "accepting"
  acknowledged,  \* the updater accepted the launch as healthy
  actions,       \* event actions so far
  refusals       \* refusals so far

hostVars == <<kind, shown, results, pending, tasks, evaluating, posted, sandbox, rejected,
              recording, failures, frame, acknowledged, actions, refusals>>

\* Tasks: of the worker thread, and of the main thread.
StartTask == <<"start">>
RejectTask == <<"reject">>
ActionTask == <<"action">>
RenderTask(k) == <<"render", k>>
Evaluations == {ActionTask} \union {RenderTask(k) : k \in Invocations}
InstallTask == <<"install">>
ClearTask == <<"clear">>
SettleTask(k, found) == <<"settle", k, found>>

Nothing == <<>>

HostInit ==
  /\ kind \in {"remote", "embedded"}
  /\ shown = FALSE
  /\ results = {} /\ pending = {}
  /\ tasks = <<StartTask>>
  /\ evaluating = Nothing
  /\ posted = <<>>
  /\ sandbox = "none"
  /\ rejected = FALSE
  /\ recording = <<>>
  /\ failures = 0
  /\ frame = "none"
  /\ acknowledged = FALSE
  /\ actions = 0 /\ refusals = 0

-----------------------------------------------------------------------------
(* Main thread *)

\* The update has been the dispatch value, so call sites may hold its host.
Installed == sandbox # "none" /\ ~\E i \in DOMAIN posted : posted[i] = InstallTask

\* The main thread is between two of its tasks.
MainFree == frame # "accepting"

\* One more evaluation is within the budget.
WithinBudget(k) ==
  /\ Cardinality(results) + Cardinality(pending) < MaxInvocations
  /\ Cardinality(pending) < MaxPending

\* lookup() of an invocation that has no result and is not waited for.
Lookup(k) ==
  /\ MainFree
  /\ shown /\ kind = "remote"
  /\ k \notin results \union pending
  /\ WithinBudget(k)
  /\ pending' = pending \union {k}
  /\ tasks' = Append(tasks, RenderTask(k))
  /\ UNCHANGED <<kind, shown, results, evaluating, posted, sandbox, rejected, recording, failures,
                 frame, acknowledged, actions, refusals>>

\* refuse(): native code at once, the rejection by the worker.
Refuses ==
  /\ shown' = FALSE
  /\ tasks' = Append(tasks, RejectTask)
  /\ UNCHANGED <<kind, results, pending, evaluating, posted, sandbox, rejected, recording, failures,
                 frame, acknowledged, actions>>

\* lookup() beyond the budget.
LookupRefused(k) ==
  /\ MainFree
  /\ shown /\ kind = "remote"
  /\ k \notin results \union pending
  /\ ~WithinBudget(k)
  /\ Refuses
  /\ UNCHANGED refusals

\* A call site that once got this update's host finds inputs, a callback or an
\* event of another type; it may do so after the update is gone.
CallSiteRefuses ==
  /\ MainFree
  /\ Installed
  /\ refusals < MaxRefusals
  /\ refusals' = refusals + 1
  /\ Refuses

\* evaluateAction().
FireAction ==
  /\ MainFree
  /\ shown /\ kind = "remote"
  /\ actions < MaxActions
  /\ actions' = actions + 1
  /\ tasks' = Append(tasks, ActionTask)
  /\ UNCHANGED <<kind, shown, results, pending, evaluating, posted, sandbox, rejected, recording,
                 failures, frame, acknowledged, refusals>>

\* A window commits a frame that shows the update.
CommitFrame ==
  /\ frame = "none"
  /\ shown
  /\ kind = "remote" => results # {}
  /\ frame' = "committed"
  /\ UNCHANGED <<kind, shown, results, pending, tasks, evaluating, posted, sandbox, rejected,
                 recording, failures, acknowledged, actions, refusals>>

\* onFrameCommitted()'s condition.  rejected is written by the worker without
\* synchronization: until the fallback is installed here it may not be seen.
AcceptsFrame == shown /\ ~acknowledged

\* onFrameCommitted() up to the call of the updater.
FrameCommitted ==
  /\ frame = "committed"
  /\ \/ AcceptsFrame /\ frame' = "accepting"
     \/ (~AcceptsFrame \/ rejected) /\ frame' = "none"
  /\ UNCHANGED <<kind, shown, results, pending, tasks, evaluating, posted, sandbox, rejected,
                 recording, failures, acknowledged, actions, refusals>>

\* The updater accepts the launch as healthy, or does not (an emergency launch).
Acknowledge ==
  /\ frame = "accepting"
  /\ frame' = "none"
  /\ acknowledged' \in BOOLEAN
  /\ UNCHANGED <<kind, shown, results, pending, tasks, evaluating, posted, sandbox, rejected,
                 recording, failures, actions, refusals>>

\* Faulty variant: a result is cached whatever is dispatched now.
CachesRegardless(k, found) == found

\* A result is cached only for the update that is dispatched.
Caches(k, found) == found /\ shown

\* The next task posted to the main thread.
RunPosted ==
  LET task == Head(posted) IN
  /\ MainFree
  /\ posted # <<>>
  /\ posted' = Tail(posted)
  /\ shown' = IF task[1] = "settle" THEN shown ELSE task[1] = "install"
  /\ \/ task[1] = "install" /\ UNCHANGED <<results, pending>>
     \/ task[1] = "clear" /\ results' = {} /\ pending' = {}
     \/ /\ task[1] = "settle"
        /\ pending' = pending \ {task[2]}
        /\ results' = IF Caches(task[2], task[3]) THEN results \union {task[2]} ELSE results
  /\ UNCHANGED <<kind, tasks, evaluating, sandbox, rejected, recording, failures, frame,
                 acknowledged, actions, refusals>>

-----------------------------------------------------------------------------
(* Worker thread *)

WorkerFree == evaluating = Nothing

\* What continues on the main thread when a task is through with its rejection:
\* the fallback, and for a render the end of its invocation, which the fallback
\* has left nothing to do.
AfterReject(task) ==
  <<ClearTask>> \o IF task[1] = "render" THEN <<SettleTask(task[2], FALSE)>> ELSE <<>>

\* The sandbox after close(); there is none yet if the update fails at its start.
Closed == IF sandbox = "none" THEN "none" ELSE "closed"

\* Faulty variant: each rejection is recorded.
RejectsAgain(task) ==
  /\ sandbox' = Closed
  /\ rejected' = TRUE
  /\ recording' = recording \o <<AfterReject(task)>>
  /\ UNCHANGED posted

\* reject(): the sandbox is closed; the first time the failed launch is recorded.
Rejects(task) ==
  /\ sandbox' = Closed
  /\ rejected' = TRUE
  /\ IF rejected
     THEN posted' = posted \o AfterReject(task) /\ UNCHANGED recording
     ELSE recording' = recording \o <<AfterReject(task)>> /\ UNCHANGED posted

\* The coroutine of onCreate(): the launched update is validated and installed.
Start ==
  /\ WorkerFree /\ tasks # <<>> /\ Head(tasks) = StartTask
  /\ tasks' = Tail(tasks)
  /\ \/ /\ sandbox' = IF kind = "remote" THEN "open" ELSE sandbox
        /\ posted' = Append(posted, InstallTask)
        /\ UNCHANGED <<rejected, recording>>
     \/ kind = "remote" /\ Rejects(StartTask)
  /\ UNCHANGED <<kind, shown, results, pending, evaluating, failures, frame, acknowledged, actions,
                 refusals>>

\* Faulty variant: only the dispatch value is looked at.
StaleIfReplaced == ~shown

\* evaluate() and evaluateAction() find their update replaced or rejected.
Stale == ~shown \/ rejected

\* An evaluation begins, or ends at once without a result.
BeginEvaluation ==
  /\ WorkerFree /\ tasks # <<>> /\ Head(tasks) \in Evaluations
  /\ tasks' = Tail(tasks)
  /\ \/ ~Stale /\ evaluating' = Head(tasks) /\ UNCHANGED posted
     \/ /\ Stale
        /\ posted' = IF Head(tasks)[1] = "render"
                     THEN Append(posted, SettleTask(Head(tasks)[2], FALSE)) ELSE posted
        /\ UNCHANGED evaluating
  /\ UNCHANGED <<kind, shown, results, pending, sandbox, rejected, recording, failures, frame,
                 acknowledged, actions, refusals>>

\* Faulty variant: a failed evaluation is only dropped.
EndEvaluationQuietly ==
  /\ ~WorkerFree
  /\ evaluating' = Nothing
  /\ \E found \in BOOLEAN :
       posted' = IF evaluating[1] = "render"
                 THEN Append(posted, SettleTask(evaluating[2], found)) ELSE posted
  /\ UNCHANGED <<kind, shown, results, pending, tasks, sandbox, rejected, recording, failures,
                 frame, acknowledged, actions, refusals>>

\* The sandbox returns a valid result, or the update is rejected.  The values of
\* an action go to its session, which is not part of the host.
EndEvaluation ==
  /\ ~WorkerFree
  /\ evaluating' = Nothing
  /\ \/ /\ posted' = IF evaluating[1] = "render"
                     THEN Append(posted, SettleTask(evaluating[2], TRUE)) ELSE posted
        /\ UNCHANGED <<sandbox, rejected, recording>>
     \/ Rejects(evaluating)
  /\ UNCHANGED <<kind, shown, results, pending, tasks, failures, frame, acknowledged, actions,
                 refusals>>

\* The rejection that refuse() launched.
RunReject ==
  /\ WorkerFree /\ tasks # <<>> /\ Head(tasks) = RejectTask
  /\ tasks' = Tail(tasks)
  /\ Rejects(RejectTask)
  /\ UNCHANGED <<kind, shown, results, pending, evaluating, failures, frame, acknowledged, actions,
                 refusals>>

\* The updater has counted the failed launch, unless it is an emergency launch;
\* the rejection goes on.
RecordFailure ==
  /\ recording # <<>>
  /\ failures' \in {failures, failures + 1}
  /\ posted' = posted \o Head(recording)
  /\ recording' = Tail(recording)
  /\ UNCHANGED <<kind, shown, results, pending, tasks, evaluating, sandbox, rejected, frame,
                 acknowledged, actions, refusals>>

-----------------------------------------------------------------------------
MainTask == FrameCommitted \/ Acknowledge \/ RunPosted

WorkerTask == Start \/ BeginEvaluation \/ EndEvaluation \/ RunReject

HostNext ==
  \/ \E k \in Invocations : Lookup(k) \/ LookupRefused(k)
  \/ CallSiteRefuses
  \/ FireAction
  \/ CommitFrame
  \/ MainTask
  \/ WorkerTask
  \/ RecordFailure

HostSpec == HostInit /\ [][HostNext]_hostVars

\* Both threads run what is queued for them, and the updater records a failure.
\* The main looper serves its queue in order: frames do not starve what is posted.
HostFairSpec ==
  /\ HostSpec
  /\ SF_hostVars(RunPosted) /\ WF_hostVars(Acknowledge)
  /\ WF_hostVars(WorkerTask)
  /\ WF_hostVars(RecordFailure)

-----------------------------------------------------------------------------
(* Properties *)

MainTasks == {InstallTask, ClearTask} \union {SettleTask(k, found) : k \in Invocations, found \in BOOLEAN}

\* Both threads have tasks of theirs, and the caches hold invocations.
HostTypeOK ==
  /\ kind \in {"remote", "embedded"}
  /\ shown \in BOOLEAN /\ rejected \in BOOLEAN /\ acknowledged \in BOOLEAN
  /\ results \subseteq Invocations /\ pending \subseteq Invocations
  /\ tasks \in Seq(Evaluations \union {StartTask, RejectTask})
  /\ evaluating \in Evaluations \union {Nothing}
  /\ posted \in Seq(MainTasks)
  /\ sandbox \in {"none", "open", "closed"}
  /\ recording \in Seq(Seq(MainTasks))
  /\ failures \in Nat /\ actions \in Nat /\ refusals \in Nat
  /\ frame \in {"none", "committed", "accepting"}

\* The program is only ever evaluated in an open sandbox: a rejection closes it
\* while further evaluations are queued and the update is still dispatched.
EvaluatesInOpenSandbox == evaluating # Nothing => sandbox = "open"

\* However many evaluations fail and call sites refuse, one launch is counted
\* as failed once.
FailsOnce == failures + Len(recording) <= 1

\* A launch is acknowledged only while its update is dispatched: a frame that
\* was committed before the fallback and reported after it does not count.
HealthIsOfShown == frame = "accepting" => shown

\* What is reported of a launch is what became of it: it fails once at most, however many
\* threads see it fail, and reads as healthy for nothing drawn after its fallback.
HealthIsHonest == FailsOnce /\ HealthIsOfShown

\* Once the fallback is installed and the cache cleared, results that arrive
\* late bring nothing of the update back.
FallbackIsFinal ==
  [][rejected /\ ~shown /\ results = {} => ~shown' /\ results' = {}]_hostVars

\* Nobody waits in vain: a call site that waits gets its result or, if the evaluation
\* fails, the native code, and a rejection on the worker thread reaches the screen.
WaitsEnd ==
  /\ \A k \in Invocations : k \in pending ~> k \in results \/ ~shown
  /\ rejected ~> ~shown /\ results = {}
=============================================================================
