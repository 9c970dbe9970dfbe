---------------------------- MODULE AndroidProofs ----------------------------
(***************************************************************************)
(* What the Android runtime promises of a launched update (RenderHost), of *)
(* the events of a call site (PortableSession) and of an installation's    *)
(* telemetry (Telemetry), for any invocations, budgets, actions and events.*)
(***************************************************************************)
EXTENDS RenderHost, PortableSession, Telemetry, SequenceTheorems, FiniteSetTheorems,
        WellFoundedInduction, TLAPS

-----------------------------------------------------------------------------
(* The host *)

\* The tasks that the main thread may have once the update is installed, and those that
\* the worker thread may have once it has started.
LateMainTasks == MainTasks \ {InstallTask}
LateTasks == Evaluations \union {RejectTask}

\* Before the worker thread has started the update, and until the main thread has installed it,
\* nothing else happens.
Untouched ==
  /\ ~shown /\ ~rejected /\ frame = "none" /\ failures = 0
  /\ results = {} /\ pending = {}
  /\ evaluating = Nothing /\ recording = <<>>

Starting == Untouched /\ tasks = <<StartTask>> /\ posted = <<>> /\ sandbox = "none"

Installing ==
  /\ Untouched /\ tasks = <<>> /\ posted = <<InstallTask>>
  /\ sandbox = IF kind = "remote" THEN "open" ELSE "none"

\* Afterwards neither thread has one of these tasks again, only a remote update has anything
\* to do, and until a rejection the sandbox of a shown one is open.
UnderWay ==
  /\ tasks \in Seq(LateTasks)
  /\ posted \in Seq(LateMainTasks)
  /\ recording \in Seq(Seq(LateMainTasks))
  /\ results \subseteq Invocations /\ pending \subseteq Invocations
  /\ evaluating \in Evaluations \union {Nothing}
  /\ sandbox # "none" => kind = "remote"
  /\ kind = "embedded" => tasks = <<>> /\ evaluating = Nothing
  /\ shown /\ kind = "remote" /\ ~rejected => sandbox = "open"
  /\ evaluating # Nothing => sandbox = "open" /\ ~rejected

\* A rejection is recorded once, and a frame is accepted while its update is shown.
Reported ==
  /\ failures \in Nat
  /\ recording \in Seq(Seq(MainTasks))
  /\ failures + Len(recording) <= IF rejected THEN 1 ELSE 0
  /\ frame = "accepting" => shown

HostInv ==
  /\ kind \in {"remote", "embedded"}
  /\ shown \in BOOLEAN /\ rejected \in BOOLEAN
  /\ Starting \/ Installing \/ UnderWay
  /\ Reported

-----------------------------------------------------------------------------
(* Tasks *)

LEMMA TasksAre ==
  /\ StartTask[1] = "start" /\ RejectTask[1] = "reject" /\ ActionTask[1] = "action"
  /\ \A k : RenderTask(k)[1] = "render" /\ RenderTask(k)[2] = k
  /\ InstallTask[1] = "install" /\ ClearTask[1] = "clear"
  /\ \A k, found : /\ SettleTask(k, found)[1] = "settle" /\ SettleTask(k, found)[2] = k
                   /\ SettleTask(k, found)[3] = found
  /\ \A task \in Evaluations : task # Nothing
BY DEF StartTask, RejectTask, ActionTask, RenderTask, InstallTask, ClearTask, SettleTask, Evaluations, Nothing

LEMMA LateMain ==
  /\ ClearTask \in LateMainTasks
  /\ \A k \in Invocations, found \in BOOLEAN : SettleTask(k, found) \in LateMainTasks
  /\ \A task \in LateMainTasks :
       \/ task[1] = "clear"
       \/ task[1] = "settle" /\ task[2] \in Invocations /\ task[3] \in BOOLEAN
BY TasksAre DEF LateMainTasks, MainTasks

LEMMA EvaluationsAre ==
  \A task \in Evaluations :
    task[1] = "action" \/ (task[1] = "render" /\ task[2] \in Invocations)
BY TasksAre DEF Evaluations

\* What follows a rejection is for the main thread.
LEMMA AfterRejectLate ==
  ASSUME NEW task \in LateTasks \union {StartTask}
  PROVE  AfterReject(task) \in Seq(LateMainTasks)
<1> DEFINE rest == IF task[1] = "render" THEN <<SettleTask(task[2], FALSE)>> ELSE <<>>
<1>1. task[1] = "render" => task[2] \in Invocations
  BY TasksAre, EvaluationsAre DEF LateTasks
<1>2. <<ClearTask>> \in Seq(LateMainTasks)
  BY LateMain
<1>3. CASE task[1] = "render"
  <2> DEFINE settle == SettleTask(task[2], FALSE)
  <2>1. settle \in LateMainTasks
    BY <1>1, <1>3, LateMain
  <2>2. rest = <<settle>>
    BY <1>3
  <2> HIDE DEF settle
  <2>3. <<settle>> \in Seq(LateMainTasks)
    BY <2>1
  <2>4. rest \in Seq(LateMainTasks)
    BY <2>2, <2>3
  <2> HIDE DEF rest
  <2> QED
    BY <1>2, <2>4, ConcatProperties DEF AfterReject, rest
<1>4. CASE task[1] # "render"
  <2>1. rest \in Seq(LateMainTasks)
    BY <1>4, EmptySeq
  <2> HIDE DEF rest
  <2> QED
    BY <1>2, <2>1, ConcatProperties DEF AfterReject, rest
<1> QED
  BY <1>3, <1>4

LEMMA LateIsMain ==
  ASSUME NEW s \in Seq(LateMainTasks)
  PROVE  s \in Seq(MainTasks)
BY SeqMonotonic DEF LateMainTasks

LEMMA SingleTask == \A task : Head(<<task>>) = task /\ Tail(<<task>>) = <<>>
<1> SUFFICES ASSUME NEW task PROVE Head(<<task>>) = task /\ Tail(<<task>>) = <<>>
  OBVIOUS
<1>1. <<task>> \in Seq({task}) /\ Len(<<task>>) = 1
  OBVIOUS
<1>2. Tail(<<task>>) \in Seq({task}) /\ Len(Tail(<<task>>)) = 0
  BY <1>1, HeadTailProperties
<1> QED
  BY <1>1, <1>2, EmptySeq

LEMMA NoTasks ==
  /\ \A S : <<>> \in Seq(S)
  /\ Len(<<>>) = 0
BY EmptySeq

LEMMA InitHost == HostInit => HostInv
<1> SUFFICES ASSUME HostInit PROVE HostInv
  OBVIOUS
<1>1. Starting
  BY DEF HostInit, Starting, Untouched
<1>2. recording = <<>> /\ failures = 0 /\ frame = "none"
  BY DEF HostInit
<1>3. recording \in Seq(Seq(MainTasks)) /\ Len(recording) = 0
  BY <1>2, NoTasks
<1>4. Reported
  BY <1>2, <1>3 DEF Reported
<1> QED
  BY <1>1, <1>4 DEF HostInit, HostInv

-----------------------------------------------------------------------------
(* Rejections *)

\* reject() queues what is left to do, and is recorded the first time.
LEMMA RejectsQueues ==
  ASSUME NEW task \in LateTasks \union {StartTask}, Rejects(task), Reported,
         rejected \in BOOLEAN,
         posted \in Seq(LateMainTasks), recording \in Seq(Seq(LateMainTasks)),
         UNCHANGED <<failures, frame, shown>>
  PROVE  /\ posted' \in Seq(LateMainTasks) /\ recording' \in Seq(Seq(LateMainTasks))
         /\ rejected' = TRUE /\ Reported'
<1> DEFINE after == AfterReject(task)
<1>1. after \in Seq(LateMainTasks)
  BY AfterRejectLate
<1>2. <<after>> \in Seq(Seq(LateMainTasks)) /\ Len(<<after>>) = 1
  BY <1>1
<1>3. rejected' = TRUE
  BY DEF Rejects
<1> HIDE DEF after
<1>4. CASE rejected
  <2>1. posted' = posted \o after /\ recording' = recording
    BY <1>4 DEF Rejects, after
  <2> QED
    BY <1>1, <1>3, <1>4, <2>1, ConcatProperties DEF Reported
<1>5. CASE ~rejected
  <2>1. recording' = recording \o <<after>> /\ posted' = posted
    BY <1>5 DEF Rejects, after
  <2>2. recording' \in Seq(Seq(LateMainTasks)) /\ Len(recording') = Len(recording) + 1
    BY <1>2, <2>1, ConcatProperties
  <2>3. Len(recording) \in Nat /\ failures + Len(recording) <= 0 /\ failures \in Nat
    BY <1>5, LenProperties DEF Reported
  <2>4. recording' \in Seq(Seq(MainTasks))
    <3>1. Seq(LateMainTasks) \subseteq Seq(MainTasks)
      BY LateIsMain
    <3> QED
      BY <2>2, <3>1, SeqMonotonic
  <2> QED
    BY <1>3, <2>1, <2>2, <2>3, <2>4 DEF Reported
<1> QED
  BY <1>4, <1>5

-----------------------------------------------------------------------------
(* Steps *)

\* Where the host is, seen from what a step needs.
LEMMA OnlyUnderWay ==
  ASSUME HostInv
  PROVE  /\ shown \/ frame # "none" \/ evaluating # Nothing \/ rejected \/ recording # <<>> => UnderWay
         /\ tasks # <<>> /\ Head(tasks) # StartTask => UnderWay
BY DEF HostInv, Starting, Installing, Untouched

LEMMA LookupHolds ==
  ASSUME HostInv, NEW k \in Invocations, Lookup(k)
  PROVE  HostInv'
<1>1. UnderWay
  BY OnlyUnderWay DEF Lookup
<1>2. RenderTask(k) \in LateTasks
  BY DEF LateTasks, Evaluations
<1>3. tasks' \in Seq(LateTasks)
  BY <1>1, <1>2, AppendProperties DEF Lookup, UnderWay
<1>4. UnderWay'
  BY <1>1, <1>3 DEF Lookup, UnderWay
<1>5. Reported'
  BY DEF HostInv, Reported, Lookup
<1> QED
  BY <1>4, <1>5 DEF HostInv, Lookup

LEMMA RefusesHolds ==
  ASSUME HostInv, UnderWay, MainFree, kind = "remote", Refuses
  PROVE  HostInv'
<1>1. tasks' \in Seq(LateTasks)
  BY AppendProperties DEF Refuses, UnderWay, LateTasks
<1>2. UnderWay'
  BY <1>1 DEF Refuses, UnderWay
<1>3. Reported'
  BY DEF HostInv, Reported, Refuses, MainFree
<1> QED
  BY <1>2, <1>3 DEF HostInv, Refuses

LEMMA CallSiteRefusesHolds ==
  ASSUME HostInv, CallSiteRefuses
  PROVE  HostInv'
<1>1. UnderWay
  <2>1. ~Starting
    BY DEF CallSiteRefuses, Installed, Starting
  <2>2. ~Installing
    <3> SUFFICES ASSUME Installing PROVE FALSE
      OBVIOUS
    <3>1. posted[1] = InstallTask /\ 1 \in DOMAIN posted
      BY DEF Installing
    <3> QED
      BY <3>1 DEF CallSiteRefuses, Installed
  <2> QED
    BY <2>1, <2>2 DEF HostInv
<1>2. kind = "remote"
  BY <1>1 DEF CallSiteRefuses, Installed, UnderWay
<1> QED
  BY <1>1, <1>2, RefusesHolds DEF CallSiteRefuses

LEMMA FireActionHolds ==
  ASSUME HostInv, FireAction
  PROVE  HostInv'
<1>1. UnderWay
  BY OnlyUnderWay DEF FireAction
<1>2. tasks' \in Seq(LateTasks)
  BY <1>1, AppendProperties DEF FireAction, UnderWay, LateTasks, Evaluations
<1>3. UnderWay'
  BY <1>1, <1>2 DEF FireAction, UnderWay
<1>4. Reported'
  BY DEF HostInv, Reported, FireAction
<1> QED
  BY <1>3, <1>4 DEF HostInv, FireAction

\* A frame only changes what is reported of the launch.
LEMMA FrameHolds ==
  ASSUME HostInv, CommitFrame \/ FrameCommitted \/ Acknowledge
  PROVE  HostInv'
<1>1. UnderWay
  BY OnlyUnderWay DEF CommitFrame, FrameCommitted, Acknowledge
<1>2. UnderWay' /\ UNCHANGED <<kind, shown, rejected, failures, recording>>
  BY <1>1 DEF CommitFrame, FrameCommitted, Acknowledge, UnderWay
<1>3. frame' = "accepting" => shown
  BY DEF CommitFrame, FrameCommitted, Acknowledge, AcceptsFrame, HostInv, Reported
<1> QED
  BY <1>2, <1>3 DEF HostInv, Reported

LEMMA RunPostedHolds ==
  ASSUME HostInv, RunPosted
  PROVE  HostInv'
<1>1. /\ MainFree /\ posted # <<>> /\ posted' = Tail(posted)
      /\ UNCHANGED <<kind, tasks, evaluating, sandbox, rejected, recording, failures, frame>>
      /\ shown' = IF Head(posted)[1] = "settle" THEN shown ELSE Head(posted)[1] = "install"
      /\ \/ Head(posted)[1] = "install" /\ UNCHANGED <<results, pending>>
         \/ Head(posted)[1] = "clear" /\ results' = {} /\ pending' = {}
         \/ /\ Head(posted)[1] = "settle"
            /\ pending' = pending \ {Head(posted)[2]}
            /\ results' = IF Caches(Head(posted)[2], Head(posted)[3])
                          THEN results \union {Head(posted)[2]} ELSE results
  BY DEF RunPosted
<1>2. CASE Installing
  <2>1. Head(posted) = InstallTask /\ posted' = <<>>
    BY <1>1, <1>2, SingleTask DEF Installing
  <2>2. shown' = TRUE
    BY <1>1, <2>1, TasksAre
  <2>3. UNCHANGED <<results, pending>>
    BY <1>1, <2>1, TasksAre
  <2>4. /\ tasks' = <<>> /\ recording' = <<>> /\ results' = {} /\ pending' = {}
        /\ evaluating' = Nothing
        /\ sandbox' = IF kind = "remote" THEN "open" ELSE "none"
    BY <1>1, <1>2, <2>3 DEF Installing, Untouched
  <2>5. UnderWay'
    BY <1>1, <2>1, <2>2, <2>4, NoTasks DEF UnderWay, HostInv
  <2>6. Reported'
    BY <1>1, <1>2 DEF HostInv, Reported, Installing, Untouched
  <2> QED
    BY <1>1, <2>1, <2>2, <2>5, <2>6 DEF HostInv
<1>3. CASE UnderWay
  <2>1. Head(posted) \in LateMainTasks /\ posted' \in Seq(LateMainTasks)
    BY <1>1, <1>3, HeadTailProperties DEF UnderWay
  <2>2. /\ Head(posted)[1] \in {"clear", "settle"}
        /\ Head(posted)[1] = "settle" => Head(posted)[2] \in Invocations
    BY <2>1, LateMain
  <2>3. results' \subseteq Invocations /\ pending' \subseteq Invocations
    BY <1>1, <1>3, <2>2 DEF UnderWay
  <2>4. shown' \in BOOLEAN /\ (shown' => shown)
    BY <1>1, <2>2 DEF HostInv
  <2>5. UnderWay'
    BY <1>1, <1>3, <2>1, <2>3, <2>4 DEF UnderWay
  <2>6. Reported'
    BY <1>1 DEF HostInv, Reported, MainFree
  <2> QED
    BY <1>1, <2>4, <2>5, <2>6 DEF HostInv
<1>4. ~Starting
  BY <1>1 DEF Starting
<1> QED
  BY <1>2, <1>3, <1>4 DEF HostInv

LEMMA StartHolds ==
  ASSUME HostInv, Start
  PROVE  HostInv'
<1>1. Head(tasks) = StartTask /\ tasks # <<>> /\ tasks' = Tail(tasks)
      /\ UNCHANGED <<kind, shown, results, pending, evaluating, failures, frame>>
  BY DEF Start
<1>2. ~UnderWay
  <2> SUFFICES ASSUME UnderWay PROVE FALSE
    OBVIOUS
  <2>1. StartTask \in LateTasks
    BY <1>1, HeadTailProperties DEF UnderWay
  <2> QED
    BY <2>1, TasksAre, EvaluationsAre DEF LateTasks
<1>3. Starting /\ tasks' = <<>>
  <2>1. Starting
    BY <1>1, <1>2 DEF HostInv, Installing
  <2> QED
    BY <1>1, <2>1, SingleTask DEF Starting
<1>4. CASE /\ sandbox' = IF kind = "remote" THEN "open" ELSE sandbox
           /\ posted' = Append(posted, InstallTask)
           /\ UNCHANGED <<rejected, recording>>
  <2>1. Installing'
    BY <1>1, <1>3, <1>4 DEF Installing, Starting, Untouched
  <2>2. Reported'
    BY <1>1, <1>4 DEF HostInv, Reported
  <2> QED
    BY <1>1, <1>4, <2>1, <2>2 DEF HostInv
<1>5. CASE kind = "remote" /\ Rejects(StartTask)
  <2>1. posted \in Seq(LateMainTasks) /\ recording \in Seq(Seq(LateMainTasks))
    BY <1>3, NoTasks DEF Starting, Untouched
  <2>2. /\ posted' \in Seq(LateMainTasks) /\ recording' \in Seq(Seq(LateMainTasks))
        /\ rejected' = TRUE /\ Reported'
    BY <1>1, <1>5, <2>1, RejectsQueues DEF HostInv
  <2>3. UnderWay'
    BY <1>1, <1>3, <1>5, <2>2, NoTasks DEF UnderWay, Starting, Untouched
  <2> QED
    BY <1>1, <2>2, <2>3 DEF HostInv
<1> QED
  BY <1>4, <1>5 DEF Start

LEMMA BeginEvaluationHolds ==
  ASSUME HostInv, BeginEvaluation
  PROVE  HostInv'
<1>1. /\ tasks # <<>> /\ Head(tasks) \in Evaluations /\ tasks' = Tail(tasks) /\ WorkerFree
      /\ UNCHANGED <<kind, shown, results, pending, sandbox, rejected, recording, failures, frame>>
  BY DEF BeginEvaluation
<1>2. UnderWay
  BY <1>1, OnlyUnderWay, TasksAre, EvaluationsAre
<1>3. tasks' \in Seq(LateTasks) /\ kind = "remote"
  BY <1>1, <1>2, HeadTailProperties DEF UnderWay, HostInv
<1>4. CASE ~Stale /\ evaluating' = Head(tasks) /\ UNCHANGED posted
  <2>1. UnderWay'
    BY <1>1, <1>2, <1>3, <1>4 DEF UnderWay, Stale
  <2> QED
    BY <1>1, <2>1 DEF HostInv, Reported
<1>5. CASE /\ posted' = IF Head(tasks)[1] = "render"
                        THEN Append(posted, SettleTask(Head(tasks)[2], FALSE)) ELSE posted
           /\ UNCHANGED evaluating
  <2>1. Head(tasks)[1] = "render" => SettleTask(Head(tasks)[2], FALSE) \in LateMainTasks
    BY <1>1, EvaluationsAre, LateMain
  <2>2. posted' \in Seq(LateMainTasks)
    BY <1>2, <1>5, <2>1, AppendProperties DEF UnderWay
  <2>3. UnderWay'
    BY <1>1, <1>2, <1>3, <1>5, <2>2 DEF UnderWay
  <2> QED
    BY <1>1, <2>3 DEF HostInv, Reported
<1> QED
  BY <1>4, <1>5 DEF BeginEvaluation

LEMMA EndEvaluationHolds ==
  ASSUME HostInv, EndEvaluation
  PROVE  HostInv'
<1>1. /\ evaluating # Nothing /\ evaluating' = Nothing
      /\ UNCHANGED <<kind, shown, results, pending, tasks, failures, frame>>
  BY DEF EndEvaluation, WorkerFree
<1>2. UnderWay /\ evaluating \in Evaluations
  BY <1>1, OnlyUnderWay DEF UnderWay
<1>3. CASE /\ posted' = IF evaluating[1] = "render"
                        THEN Append(posted, SettleTask(evaluating[2], TRUE)) ELSE posted
           /\ UNCHANGED <<sandbox, rejected, recording>>
  <2>1. evaluating[1] = "render" => SettleTask(evaluating[2], TRUE) \in LateMainTasks
    BY <1>2, EvaluationsAre, LateMain
  <2>2. posted' \in Seq(LateMainTasks)
    BY <1>2, <1>3, <2>1, AppendProperties DEF UnderWay
  <2>3. UnderWay'
    BY <1>1, <1>2, <1>3, <2>2 DEF UnderWay
  <2> QED
    BY <1>1, <1>3, <2>3 DEF HostInv, Reported
<1>4. CASE Rejects(evaluating)
  <2>1. /\ posted' \in Seq(LateMainTasks) /\ recording' \in Seq(Seq(LateMainTasks))
        /\ rejected' = TRUE /\ Reported'
    BY <1>1, <1>2, <1>4, RejectsQueues DEF HostInv, UnderWay, LateTasks
  <2>2. UnderWay'
    BY <1>1, <1>2, <1>4, <2>1 DEF UnderWay, Rejects, Closed
  <2> QED
    BY <1>1, <2>1, <2>2 DEF HostInv
<1> QED
  BY <1>3, <1>4 DEF EndEvaluation

LEMMA RunRejectHolds ==
  ASSUME HostInv, RunReject
  PROVE  HostInv'
<1>1. /\ tasks # <<>> /\ Head(tasks) = RejectTask /\ tasks' = Tail(tasks) /\ evaluating = Nothing
      /\ Rejects(RejectTask)
      /\ UNCHANGED <<kind, shown, results, pending, evaluating, failures, frame>>
  BY DEF RunReject, WorkerFree
<1>2. UnderWay
  BY <1>1, OnlyUnderWay, TasksAre
<1>3. tasks' \in Seq(LateTasks) /\ kind = "remote"
  BY <1>1, <1>2, HeadTailProperties DEF UnderWay, HostInv
<1>4. /\ posted' \in Seq(LateMainTasks) /\ recording' \in Seq(Seq(LateMainTasks))
      /\ rejected' = TRUE /\ Reported'
  BY <1>1, <1>2, RejectsQueues DEF HostInv, UnderWay, LateTasks
<1>5. UnderWay'
  BY <1>1, <1>2, <1>3, <1>4 DEF UnderWay
<1> QED
  BY <1>1, <1>4, <1>5 DEF HostInv

LEMMA RecordFailureHolds ==
  ASSUME HostInv, RecordFailure
  PROVE  HostInv'
<1>1. /\ recording # <<>> /\ failures' \in {failures, failures + 1}
      /\ posted' = posted \o Head(recording) /\ recording' = Tail(recording)
      /\ UNCHANGED <<kind, shown, results, pending, tasks, evaluating, sandbox, rejected, frame>>
  BY DEF RecordFailure
<1>2. UnderWay
  BY <1>1, OnlyUnderWay
<1>3. Head(recording) \in Seq(LateMainTasks) /\ recording' \in Seq(Seq(LateMainTasks))
  BY <1>1, <1>2, HeadTailProperties DEF UnderWay
<1>4. posted' \in Seq(LateMainTasks)
  BY <1>1, <1>2, <1>3, ConcatProperties DEF UnderWay
<1>5. UnderWay'
  BY <1>1, <1>2, <1>3, <1>4 DEF UnderWay
<1>6. Reported'
  <2>1. recording' \in Seq(Seq(MainTasks)) /\ Len(recording') = Len(recording) - 1
    BY <1>1, HeadTailProperties DEF HostInv, Reported
  <2>2. Len(recording) \in Nat
    BY LenProperties DEF HostInv, Reported
  <2> QED
    BY <1>1, <2>1, <2>2 DEF HostInv, Reported
<1> QED
  BY <1>1, <1>5, <1>6 DEF HostInv

LEMMA HostStutter == HostInv /\ UNCHANGED hostVars => HostInv'
BY DEF HostInv, Starting, Installing, Untouched, UnderWay, Reported, hostVars

LEMMA HostStep == HostInv /\ [HostNext]_hostVars => HostInv'
<1>1. ASSUME HostInv, NEW k \in Invocations, LookupRefused(k)
      PROVE  HostInv'
  BY <1>1, OnlyUnderWay, RefusesHolds DEF LookupRefused
<1> QED
  BY <1>1, LookupHolds, CallSiteRefusesHolds, FireActionHolds, FrameHolds, RunPostedHolds, StartHolds,
     BeginEvaluationHolds, EndEvaluationHolds, RunRejectHolds, RecordFailureHolds, HostStutter
     DEF HostNext, MainTask, WorkerTask

-----------------------------------------------------------------------------
(* What is promised of the host *)

\* The inductive invariant holds throughout.
THEOREM HostInvariance == HostSpec => []HostInv
BY InitHost, HostStep, PTL DEF HostSpec

\* No evaluation runs in a sandbox that a rejection has closed (DootahApplication.kt).
THEOREM EvaluatesOpen == HostSpec => []EvaluatesInOpenSandbox
<1>1. HostInv => EvaluatesInOpenSandbox
  BY DEF HostInv, Starting, Installing, Untouched, UnderWay, EvaluatesInOpenSandbox
<1> QED
  BY <1>1, HostInvariance, PTL

\* A launch fails once at most and is acknowledged only while it is shown (DootahApplication.kt).
THEOREM HealthHonest == HostSpec => []HealthIsHonest
<1>1. HostInv => HealthIsHonest
  <2> SUFFICES ASSUME HostInv PROVE HealthIsHonest
    OBVIOUS
  <2>1. Len(recording) \in Nat /\ failures \in Nat
    BY LenProperties DEF HostInv, Reported
  <2> QED
    BY <2>1 DEF HostInv, Reported, HealthIsHonest, FailsOnce, HealthIsOfShown
<1> QED
  BY <1>1, HostInvariance, PTL

\* Nothing of a rejected update comes back after its fallback (DootahApplication.kt).
THEOREM FallbackFinal == HostSpec => FallbackIsFinal
<1>1. ASSUME HostInv, [HostNext]_hostVars, rejected, ~shown, results = {}
      PROVE  ~shown' /\ results' = {}
  <2>1. UnderWay
    BY <1>1, OnlyUnderWay
  <2>2. CASE RunPosted
    <3>1. Head(posted) \in LateMainTasks
      BY <2>1, <2>2, HeadTailProperties DEF RunPosted, UnderWay
    <3>2. Head(posted)[1] \in {"clear", "settle"}
      BY <3>1, LateMain
    <3> QED
      BY <1>1, <2>2, <3>2 DEF RunPosted, Caches
  <2>3. CASE CallSiteRefuses \/ \E k \in Invocations : LookupRefused(k)
    BY <1>1, <2>3 DEF CallSiteRefuses, LookupRefused, Refuses
  <2>4. CASE CommitFrame \/ FrameCommitted \/ Acknowledge
    <3>1. UNCHANGED <<shown, results>>
      BY <2>4 DEF CommitFrame, FrameCommitted, Acknowledge
    <3> QED
      BY <1>1, <3>1
  <2>5. CASE WorkerTask
    <3>1. UNCHANGED <<shown, results>>
      BY <2>5 DEF WorkerTask, Start, BeginEvaluation, EndEvaluation, RunReject
    <3> QED
      BY <1>1, <3>1
  <2>6. CASE RecordFailure
    BY <1>1, <2>6 DEF RecordFailure
  <2>7. ~FireAction /\ \A k \in Invocations : ~Lookup(k)
    BY <1>1 DEF FireAction, Lookup
  <2>8. CASE UNCHANGED hostVars
    BY <1>1, <2>8 DEF hostVars
  <2> QED
    BY <1>1, <2>2, <2>3, <2>4, <2>5, <2>6, <2>7, <2>8 DEF HostNext, MainTask
<1> QED
  BY <1>1, HostInvariance, PTL DEF HostSpec, FallbackIsFinal

-----------------------------------------------------------------------------
(* The session *)

Positions == 1..Len(fired)

\* The events that have left the queue.
Taken == Len(fired) - Len(queue)

SessionTypes ==
  /\ fired \in Seq(Actions)
  /\ queue \in Seq(Positions)
  /\ running \in BOOLEAN /\ active \in BOOLEAN /\ current \in BOOLEAN /\ failed \in BOOLEAN
  /\ evaluation \in [phase : {"none", "queued", "posted"}, event : 0..Len(fired), input : Seq(Positions)]
  /\ applying \in [event : 0..Len(fired), value : Seq(Positions), steps : Seq({"set", "call"})]
  /\ state \in Seq(Positions)

\* While the call site is composed, the queue holds the latest events in order.
QueueInOrder ==
  active => /\ Len(queue) <= Len(fired)
            /\ \A i \in DOMAIN queue : queue[i] = Taken + i

\* The event that was taken last is evaluated on what all earlier ones have left.
Evaluating ==
  evaluation.phase # "none" =>
    /\ evaluation.event \in Positions
    /\ Leaves(evaluation.event - 1, evaluation.input)
    /\ active => /\ running /\ applying = NoAction /\ evaluation.event = Taken
                 /\ Leaves(evaluation.event - 1, state)

\* While its result is applied nothing else is taken, and the state lacks its assignment only
\* as long as one is left to do.
Applying ==
  applying # NoAction =>
    /\ active /\ ~running
    /\ applying.event = Taken /\ Taken \in Positions
    /\ "set" \in ToSet(fired[Taken]) => Leaves(Taken, applying.value)
    /\ "set" \in ToSet(applying.steps) => "set" \in ToSet(fired[Taken])
    /\ \/ Leaves(Taken, state)
       \/ "set" \in ToSet(applying.steps)

\* Between two events the state is what all events taken so far have left.
Resting == active /\ ~running /\ applying = NoAction => Leaves(Taken, state)

SessionInv ==
  /\ SessionTypes
  /\ QueueInOrder /\ Evaluating /\ Applying /\ Resting
  /\ AppliedOnceInOrder

-----------------------------------------------------------------------------
(* What events leave *)

\* One more event leaves the position of an assigning one at the end.
LEMMA SetterLeaves ==
  ASSUME NEW n \in Nat \ {0}, NEW s \in Seq(Nat), Leaves(n - 1, s), "set" \in ToSet(fired[n])
  PROVE  Leaves(n, Append(s, n))
<1>1. /\ Len(Append(s, n)) = Len(s) + 1 /\ Append(s, n)[Len(s) + 1] = n
      /\ \A i \in 1..Len(s) : Append(s, n)[i] = s[i]
      /\ DOMAIN Append(s, n) = 1..(Len(s) + 1) /\ DOMAIN s = 1..Len(s) /\ Len(s) \in Nat
  BY AppendProperties, LenProperties
<1>2. \A i \in DOMAIN s : s[i] \in 1..(n - 1)
  BY DEF Leaves, ToSet, Setters
<1>3. InOrder(Append(s, n))
  <2> SUFFICES ASSUME NEW i \in 1..(Len(s) + 1), NEW j \in 1..(Len(s) + 1), i < j
               PROVE  Append(s, n)[i] < Append(s, n)[j]
    BY <1>1 DEF InOrder
  <2>1. i \in 1..Len(s) /\ Append(s, n)[i] = s[i]
    BY <1>1
  <2>2. CASE j = Len(s) + 1
    BY <1>1, <1>2, <2>1, <2>2
  <2>3. CASE j # Len(s) + 1
    <3>1. j \in 1..Len(s) /\ Append(s, n)[j] = s[j]
      BY <1>1, <2>3
    <3> QED
      BY <1>1, <2>1, <3>1 DEF Leaves, InOrder
  <2> QED
    BY <2>2, <2>3
<1>4. ToSet(Append(s, n)) = ToSet(s) \union {n}
  <2>1. \A x : x \in ToSet(Append(s, n)) <=> \E i \in 1..(Len(s) + 1) : x = Append(s, n)[i]
    BY <1>1 DEF ToSet
  <2>2. \A x : x \in ToSet(s) <=> \E i \in 1..Len(s) : x = s[i]
    BY <1>1 DEF ToSet
  <2>3. \A i \in 1..(Len(s) + 1) : i \in 1..Len(s) \/ i = Len(s) + 1
    BY <1>1
  <2> QED
    BY <1>1, <2>1, <2>2, <2>3
<1>5. Setters(n) = Setters(n - 1) \union {n}
  BY DEF Setters
<1> QED
  BY <1>3, <1>4, <1>5 DEF Leaves

LEMMA OtherLeaves ==
  ASSUME NEW n \in Nat \ {0}, NEW s, Leaves(n - 1, s), "set" \notin ToSet(fired[n])
  PROVE  Leaves(n, s)
<1>1. Setters(n) = Setters(n - 1)
  BY DEF Setters
<1> QED
  BY <1>1 DEF Leaves

LEMMA LeavesNothing == Leaves(0, <<>>)
BY DEF Leaves, Setters, ToSet, InOrder

\* A later event changes nothing of what the earlier ones leave.
LEMMA SettersKept ==
  ASSUME fired \in Seq(Actions), NEW a \in Actions, fired' = Append(fired, a),
         NEW n \in 0..Len(fired)
  PROVE  Setters(n)' = Setters(n)
<1>1. \A i \in 1..n : fired'[i] = fired[i]
  BY AppendProperties, LenProperties
<1> QED
  BY <1>1 DEF Setters, ToSet

LEMMA LeavesKept ==
  ASSUME fired \in Seq(Actions), NEW a \in Actions, fired' = Append(fired, a)
  PROVE  /\ Len(fired') = Len(fired) + 1 /\ Len(fired) \in Nat
         /\ Positions \subseteq Positions' /\ Seq(Positions) \subseteq Seq(Positions')
         /\ \A i \in Positions : fired'[i] = fired[i]
         /\ \A n \in 0..Len(fired) : Setters(n)' = Setters(n)
<1>1. Len(fired') = Len(fired) + 1 /\ Len(fired) \in Nat
  BY AppendProperties, LenProperties
<1>2. Positions \subseteq Positions'
  BY <1>1 DEF Positions
<1>3. Seq(Positions) \subseteq Seq(Positions')
  BY <1>2, SeqMonotonic
<1> QED
  BY <1>1, <1>2, <1>3, SettersKept, AppendProperties, LenProperties DEF Positions

-----------------------------------------------------------------------------
(* Steps of the session *)

LEMMA InitSession == SessionInit => SessionInv
<1> SUFFICES ASSUME SessionInit PROVE SessionInv
  OBVIOUS
<1>1. SessionTypes
  <2>1. <<>> \in Seq(Actions) /\ <<>> \in Seq(Positions) /\ <<>> \in Seq({"set", "call"})
    BY EmptySeq
  <2>2. Len(fired) = 0
    BY DEF SessionInit
  <2>3. NoEvaluation \in [phase : {"none", "queued", "posted"}, event : 0..Len(fired), input : Seq(Positions)]
    BY <2>1, <2>2 DEF NoEvaluation
  <2>4. NoAction \in [event : 0..Len(fired), value : Seq(Positions), steps : Seq({"set", "call"})]
    BY <2>1, <2>2 DEF NoAction
  <2> QED
    BY <2>1, <2>3, <2>4 DEF SessionInit, SessionTypes
<1>2. Taken = 0 /\ Leaves(0, state)
  BY LeavesNothing DEF SessionInit, Taken
<1> QED
  BY <1>1, <1>2 DEF SessionInit, SessionInv, QueueInOrder, Evaluating, Applying, Resting, AppliedOnceInOrder,
     NoEvaluation

LEMMA FireHolds ==
  ASSUME ~Reentrant, SessionInv, NEW a \in Actions, Fire(a)
  PROVE  SessionInv'
<1> DEFINE q == Append(queue, FirstFree)
<1>1. /\ fired' = Append(fired, a) /\ active /\ applying = NoAction /\ Drain(q, running)
      /\ UNCHANGED <<active, current, failed, applying, state>>
  BY DEF Fire, MainIdle
<1>2. /\ Len(fired') = Len(fired) + 1 /\ Len(fired) \in Nat
      /\ Positions \subseteq Positions' /\ Seq(Positions) \subseteq Seq(Positions')
      /\ \A i \in Positions : fired'[i] = fired[i]
      /\ \A n \in 0..Len(fired) : Setters(n)' = Setters(n)
  BY <1>1, LeavesKept DEF SessionInv, SessionTypes
<1>3. /\ Len(queue) \in Nat /\ Len(queue) <= Len(fired)
      /\ Len(q) = Len(queue) + 1 /\ q \in Seq(Positions') /\ q # <<>>
      /\ \A i \in 1..Len(q) : q[i] = Taken + i
  <2>1. Len(queue) \in Nat /\ DOMAIN queue = 1..Len(queue)
    BY LenProperties DEF SessionInv, SessionTypes
  <2>2. Len(queue) <= Len(fired) /\ \A i \in 1..Len(queue) : queue[i] = Taken + i
    BY <1>1, <2>1 DEF SessionInv, QueueInOrder
  <2>3. queue \in Seq(Positions')
    BY <1>2 DEF SessionInv, SessionTypes
  <2>4. FirstFree \in Positions' /\ FirstFree = Taken + (Len(queue) + 1)
    BY <1>2, <2>1 DEF FirstFree, Positions, Taken
  <2>5. q \in Seq(Positions') /\ Len(q) = Len(queue) + 1 /\ q # <<>>
        /\ \A i \in 1..Len(queue) : q[i] = queue[i]
        /\ q[Len(queue) + 1] = FirstFree
    BY <2>1, <2>3, <2>4, AppendProperties, EmptySeq
  <2> QED
    BY <2>1, <2>2, <2>4, <2>5
<1>4. fired' \in Seq(Actions)
  BY <1>1, AppendProperties DEF SessionInv, SessionTypes
<1>5. Taken \in 0..Len(fired)
  BY <1>2, <1>3 DEF Taken
<1>6. AppliedOnceInOrder'
  BY <1>1, <1>2 DEF SessionInv, AppliedOnceInOrder, Leaves
<1>7. Applying'
  BY <1>1 DEF Applying
<1>8. /\ applying' \in [event : 0..Len(fired'), value : Seq(Positions'), steps : Seq({"set", "call"})]
      /\ state' \in Seq(Positions')
      /\ evaluation \in [phase : {"none", "queued", "posted"}, event : 0..Len(fired'), input : Seq(Positions')]
  BY <1>1, <1>2 DEF SessionInv, SessionTypes
<1> HIDE DEF q
<1>9. CASE running
  <2>1. queue' = q /\ running' /\ UNCHANGED evaluation
    BY <1>9, <1>1, <1>3 DEF Drain, SessionInv, SessionTypes
  <2>2. Taken' = Taken
    BY <1>2, <1>3, <2>1 DEF Taken
  <2>3. SessionTypes'
    BY <1>1, <1>3, <1>4, <1>8, <2>1 DEF SessionInv, SessionTypes
  <2>4. QueueInOrder'
    <3>1. DOMAIN q = 1..Len(q)
      BY <1>3, LenProperties
    <3> QED
      BY <1>2, <1>3, <2>1, <2>2, <3>1 DEF QueueInOrder
  <2>5. Evaluating'
    BY <1>1, <1>2, <2>1, <2>2 DEF SessionInv, Evaluating, Leaves, Positions
  <2>6. Resting'
    BY <2>1 DEF Resting
  <2> QED
    BY <1>6, <1>7, <2>3, <2>4, <2>5, <2>6 DEF SessionInv
<1>10. CASE ~running
  <2>1. /\ queue' = Tail(q) /\ running'
        /\ evaluation' = IF current THEN [phase |-> "queued", event |-> Head(q), input |-> state] ELSE evaluation
    BY <1>10, <1>1, <1>3 DEF Drain
  <2>2. Head(q) = Taken + 1 /\ Head(q) \in Positions'
    BY <1>2, <1>3, <1>5 DEF Positions
  <2>3. /\ queue' \in Seq(Positions') /\ Len(queue') = Len(q) - 1
        /\ \A i \in 1..Len(queue') : queue'[i] = q[i + 1]
    BY <1>3, <2>1, HeadTailProperties, LenProperties
  <2>4. Taken' = Taken + 1
    BY <1>2, <1>3, <2>3 DEF Taken
  <2>5. SessionTypes'
    BY <1>1, <1>3, <1>4, <1>8, <2>1, <2>2, <2>3 DEF SessionInv, SessionTypes, Positions
  <2>6. QueueInOrder'
    <3>1. DOMAIN queue' = 1..Len(queue')
      BY <2>3, LenProperties
    <3>2. Len(queue') <= Len(fired')
      <4>1. Len(fired') = Len(fired) + 1 /\ Len(fired) \in Nat
        BY <1>2
      <4> QED
        BY <1>3, <2>3, <4>1
    <3>3. ASSUME NEW i \in 1..Len(queue') PROVE queue'[i] = Taken' + i
      <4>1. i + 1 \in 1..Len(q) /\ i \in Nat
        BY <1>3, <2>3
      <4>2. q[i + 1] = Taken + (i + 1)
        BY <1>3, <4>1
      <4>3. queue'[i] = q[i + 1] /\ Taken \in Int
        BY <1>2, <1>5, <2>3
      <4> QED
        BY <2>4, <4>1, <4>2, <4>3
    <3> QED
      BY <3>1, <3>2, <3>3 DEF QueueInOrder
  <2>7. evaluation.phase = "none" /\ Leaves(Taken, state)
    BY <1>1, <1>10 DEF SessionInv, Evaluating, Resting
  <2>8. Evaluating'
    BY <1>1, <1>2, <1>5, <2>1, <2>2, <2>4, <2>7 DEF Evaluating, Leaves
  <2>9. Resting'
    BY <2>1 DEF Resting
  <2> QED
    BY <1>6, <1>7, <2>5, <2>6, <2>8, <2>9 DEF SessionInv
<1> QED
  BY <1>9, <1>10 DEF SessionInv, SessionTypes

LEMMA ToSetHeadTail ==
  ASSUME NEW S, NEW s \in Seq(S), s # <<>>
  PROVE  /\ Tail(s) \in Seq(S)
         /\ \A x : x \in ToSet(s) <=> x = Head(s) \/ x \in ToSet(Tail(s))
<1>1. /\ Len(s) \in Nat /\ DOMAIN s = 1..Len(s) /\ Len(s) >= 1 /\ s[1] = Head(s)
      /\ Tail(s) \in Seq(S) /\ Len(Tail(s)) = Len(s) - 1
      /\ DOMAIN Tail(s) = 1..(Len(s) - 1)
      /\ \A i \in 1..(Len(s) - 1) : Tail(s)[i] = s[i + 1]
  BY HeadTailProperties, LenProperties, EmptySeq
<1>2. \A x : x \in ToSet(s) <=> \E i \in 1..Len(s) : x = s[i]
  BY <1>1 DEF ToSet
<1>3. \A x : x \in ToSet(Tail(s)) <=> \E i \in 1..(Len(s) - 1) : x = s[i + 1]
  BY <1>1 DEF ToSet
<1> SUFFICES ASSUME NEW x PROVE x \in ToSet(s) <=> x = Head(s) \/ x \in ToSet(Tail(s))
  BY <1>1
<1>4. ASSUME NEW i \in 1..Len(s), x = s[i], i # 1
      PROVE  x \in ToSet(Tail(s))
  <2>1. i - 1 \in 1..(Len(s) - 1) /\ x = s[(i - 1) + 1]
    BY <1>1, <1>4
  <2> QED
    BY <1>3, <2>1
<1>5. ASSUME NEW i \in 1..(Len(s) - 1), x = s[i + 1]
      PROVE  x \in ToSet(s)
  <2>1. i + 1 \in 1..Len(s)
    BY <1>1
  <2> QED
    BY <1>2, <1>5, <2>1
<1> QED
  BY <1>1, <1>2, <1>3, <1>4, <1>5

LEMMA DoneHolds ==
  ASSUME SessionInv, Done
  PROVE  SessionInv'
<1>1. /\ applying = NoAction /\ evaluation.phase = "posted" /\ evaluation' = NoEvaluation
      /\ running' = (running /\ ~current)
      /\ queue' = IF current /\ ~active THEN <<>> ELSE queue
      /\ UNCHANGED <<fired, active, current, failed, state>>
  BY DEF Done, MainIdle
<1>2. /\ evaluation.event \in Positions /\ Leaves(evaluation.event - 1, evaluation.input)
      /\ active => running /\ evaluation.event = Taken /\ Leaves(evaluation.event - 1, state)
      /\ evaluation.input \in Seq(Positions)
  BY <1>1 DEF SessionInv, Evaluating, SessionTypes
<1>3. evaluation'.phase = "none" /\ evaluation' \in [phase : {"none", "queued", "posted"}, event : 0..Len(fired'), input : Seq(Positions')]
  <2>1. <<>> \in Seq(Positions') /\ Len(fired') \in Nat
    BY <1>1, EmptySeq, LenProperties DEF SessionInv, SessionTypes
  <2> QED
    BY <1>1, <2>1 DEF NoEvaluation
<1>4. Evaluating'
  BY <1>3 DEF Evaluating
<1>5. queue' \in Seq(Positions') /\ (active => queue' = queue) /\ Positions' = Positions
  BY <1>1, EmptySeq DEF SessionInv, SessionTypes, Positions
<1>6. QueueInOrder' /\ (active => Taken' = Taken)
  BY <1>1, <1>5 DEF SessionInv, QueueInOrder, Taken
<1>7. AppliedOnceInOrder' /\ \A n, s : Leaves(n, s)' <=> Leaves(n, s)
  BY <1>1 DEF SessionInv, AppliedOnceInOrder, Leaves, Setters
<1>8. \A n : Setters(n)' = Setters(n)
  BY <1>1 DEF Setters
<1>9. CASE current /\ active
  <2> DEFINE value == Append(evaluation.input, evaluation.event)
  <2>1. /\ applying' = [event |-> evaluation.event, value |-> value, steps |-> fired[evaluation.event]]
        /\ ~running'
    BY <1>1, <1>9 DEF Done
  <2>2. fired[Taken] \in Actions /\ Taken \in Positions
    BY <1>2, <1>9, ElementOfSeq DEF SessionInv, SessionTypes, Positions
  <2>3. fired[Taken] \in Seq({"set", "call"})
    BY <2>2, SessionAssumption
  <2>4. value \in Seq(Positions)
    BY <1>2, AppendProperties
  <2> HIDE DEF value
  <2>5. applying'.event = Taken /\ applying'.value = value /\ applying'.steps = fired[Taken]
    BY <1>2, <1>9, <2>1
  <2>6. applying' \in [event : 0..Len(fired'), value : Seq(Positions'), steps : Seq({"set", "call"})]
    BY <1>1, <1>2, <1>5, <1>9, <2>1, <2>3, <2>4 DEF Positions
  <2>7. Taken \in Nat \ {0} /\ evaluation.input \in Seq(Nat)
    BY <1>2, <2>2 DEF Positions
  <2>8. "set" \in ToSet(fired[Taken]) => Leaves(Taken, value)
    BY <1>2, <1>9, <2>7, SetterLeaves DEF value
  <2>9. "set" \notin ToSet(fired[Taken]) => Leaves(Taken, state)
    BY <1>2, <1>9, <2>7, OtherLeaves
  <2>10. Applying'
    <3>1. active' /\ ~running' /\ applying'.event = Taken' /\ Taken' \in Positions'
      BY <1>1, <1>5, <1>6, <1>9, <2>1, <2>2, <2>5
    <3>2. fired'[Taken'] = fired[Taken] /\ Taken' = Taken
      BY <1>1, <1>6, <1>9
    <3>3. "set" \in ToSet(fired'[Taken']) => Leaves(Taken, applying.value)'
      BY <1>6, <1>8, <1>9, <2>5, <2>8, <3>2 DEF Leaves
    <3>4. "set" \notin ToSet(fired'[Taken']) => Leaves(Taken, state)'
      BY <1>1, <1>6, <1>8, <1>9, <2>9, <3>2 DEF Leaves
    <3> QED
      BY <2>5, <3>1, <3>2, <3>3, <3>4 DEF Applying
  <2>11. Resting'
    <3>1. applying' # NoAction
      BY <2>2, <2>5 DEF NoAction, Positions
    <3> QED
      BY <3>1 DEF Resting
  <2> QED
    BY <1>1, <1>3, <1>4, <1>5, <1>6, <1>7, <2>6, <2>10, <2>11 DEF SessionInv, SessionTypes
<1>10. CASE ~(current /\ active)
  <2>1. applying' = NoAction
    BY <1>1, <1>10 DEF Done
  <2>2. active => running'
    BY <1>1, <1>2, <1>10
  <2>3. applying' \in [event : 0..Len(fired'), value : Seq(Positions'), steps : Seq({"set", "call"})]
    BY <1>1, <1>5, <2>1 DEF SessionInv, SessionTypes
  <2>4. Applying' /\ Resting'
    BY <1>1, <2>1, <2>2 DEF Applying, Resting
  <2> QED
    BY <1>1, <1>3, <1>4, <1>5, <1>6, <1>7, <2>3, <2>4 DEF SessionInv, SessionTypes
<1> QED
  BY <1>9, <1>10

\* A step of the action being applied, which has one step less to do.
LEMMA StepApplied ==
  ASSUME SessionTypes, applying.steps # <<>>, applying' = [applying EXCEPT !.steps = Tail(@)],
         UNCHANGED fired
  PROVE  /\ applying' \in [event : 0..Len(fired'), value : Seq(Positions'), steps : Seq({"set", "call"})]
         /\ applying'.event = applying.event /\ applying'.value = applying.value
         /\ applying # NoAction
         /\ \A x : x \in ToSet(applying.steps) <=> x = Head(applying.steps) \/ x \in ToSet(applying'.steps)
<1>1. applying.steps \in Seq({"set", "call"}) /\ Positions' = Positions
  BY DEF SessionTypes, Positions
<1>2. applying'.steps = Tail(applying.steps)
  BY DEF SessionTypes
<1>3. /\ Tail(applying.steps) \in Seq({"set", "call"})
      /\ \A x : x \in ToSet(applying.steps) <=> x = Head(applying.steps) \/ x \in ToSet(applying'.steps)
  BY <1>1, <1>2, ToSetHeadTail
<1>4. applying # NoAction
  BY DEF NoAction
<1>5. /\ applying' \in [event : 0..Len(fired'), value : Seq(Positions'), steps : Seq({"set", "call"})]
      /\ applying'.event = applying.event /\ applying'.value = applying.value
  BY <1>1, <1>3 DEF SessionTypes
<1> QED
  BY <1>3, <1>4, <1>5

LEMMA ApplySetHolds ==
  ASSUME SessionInv, ApplySet
  PROVE  SessionInv'
<1>1. /\ applying.steps # <<>> /\ Head(applying.steps) = "set" /\ state' = applying.value
      /\ applying' = [applying EXCEPT !.steps = Tail(@)]
      /\ UNCHANGED <<fired, queue, running, active, current, failed, evaluation>>
  BY DEF ApplySet
<1>2. /\ applying' \in [event : 0..Len(fired'), value : Seq(Positions'), steps : Seq({"set", "call"})]
      /\ applying'.event = applying.event /\ applying'.value = applying.value
      /\ applying # NoAction
      /\ \A x : x \in ToSet(applying.steps) <=> x = Head(applying.steps) \/ x \in ToSet(applying'.steps)
  BY <1>1, StepApplied DEF SessionInv
<1>3. /\ active /\ ~running /\ applying.event = Taken /\ Taken \in Positions
      /\ "set" \in ToSet(fired[Taken]) /\ Leaves(Taken, applying.value)
  BY <1>1, <1>2 DEF SessionInv, Applying
<1>4. Taken' = Taken /\ Positions' = Positions /\ \A n : Setters(n)' = Setters(n)
  BY <1>1 DEF Taken, Positions, Setters
<1>5. Leaves(Taken, state)'
  BY <1>1, <1>3, <1>4 DEF Leaves
<1>6. SessionTypes' /\ QueueInOrder'
  BY <1>1, <1>2, <1>4 DEF SessionInv, SessionTypes, QueueInOrder
<1>7. Evaluating'
  BY <1>1, <1>2, <1>3 DEF SessionInv, Evaluating
<1>8. Applying'
  BY <1>1, <1>2, <1>3, <1>4, <1>5 DEF Applying, Leaves
<1>9. Resting' /\ AppliedOnceInOrder'
  <2>1. Taken \in 0..Len(fired')
    BY <1>1, <1>3 DEF Positions
  <2> QED
    BY <1>4, <1>5, <2>1 DEF Resting, AppliedOnceInOrder, Leaves
<1> QED
  BY <1>6, <1>7, <1>8, <1>9 DEF SessionInv

LEMMA ApplyCallHolds ==
  ASSUME SessionInv, ApplyCall
  PROVE  SessionInv'
<1>1. /\ applying.steps # <<>> /\ Head(applying.steps) = "call"
      /\ applying' = [applying EXCEPT !.steps = Tail(@)]
      /\ UNCHANGED <<fired, queue, running, active, current, failed, evaluation, state>>
  BY DEF ApplyCall, InCallback
<1>2. /\ applying' \in [event : 0..Len(fired'), value : Seq(Positions'), steps : Seq({"set", "call"})]
      /\ applying'.event = applying.event /\ applying'.value = applying.value
      /\ applying # NoAction
      /\ \A x : x \in ToSet(applying.steps) <=> x = Head(applying.steps) \/ x \in ToSet(applying'.steps)
  BY <1>1, StepApplied DEF SessionInv
<1>3. "set" \in ToSet(applying'.steps) <=> "set" \in ToSet(applying.steps)
  BY <1>1, <1>2
<1>4. Taken' = Taken /\ Positions' = Positions /\ \A n : Setters(n)' = Setters(n)
  BY <1>1 DEF Taken, Positions, Setters
<1>5. SessionTypes' /\ QueueInOrder'
  BY <1>1, <1>2, <1>4 DEF SessionInv, SessionTypes, QueueInOrder
<1>6. Evaluating'
  BY <1>1, <1>2 DEF SessionInv, Evaluating, Applying
<1>7. Applying'
  BY <1>1, <1>2, <1>3, <1>4 DEF SessionInv, Applying, Leaves
<1>8. Taken \in Positions /\ ~running /\ active
  BY <1>2 DEF SessionInv, Applying
<1>9. Resting'
  <2>1. applying' # NoAction
    BY <1>2, <1>8 DEF SessionInv, Applying, NoAction, Positions
  <2> QED
    BY <2>1 DEF Resting
<1>10. AppliedOnceInOrder'
  BY <1>1, <1>4 DEF SessionInv, AppliedOnceInOrder, Leaves
<1> QED
  BY <1>5, <1>6, <1>7, <1>9, <1>10 DEF SessionInv

LEMMA ApplyEndHolds ==
  ASSUME SessionInv, ApplyEnd
  PROVE  SessionInv'
<1>1. /\ applying # NoAction /\ applying.steps = <<>> /\ applying' = NoAction
      /\ Drain(queue, running)
      /\ UNCHANGED <<fired, active, current, failed, state>>
  BY DEF ApplyEnd
<1>2. /\ active /\ ~running /\ evaluation.phase = "none"
      /\ Taken \in Positions
  BY <1>1 DEF SessionInv, Applying, Evaluating
<1>3. Leaves(Taken, state)
  <2>1. "set" \notin ToSet(applying.steps)
    BY <1>1 DEF ToSet
  <2> QED
    BY <1>1, <2>1 DEF SessionInv, Applying
<1>4. Positions' = Positions /\ \A n : Setters(n)' = Setters(n)
  BY <1>1 DEF Positions, Setters
<1>5. Applying' /\ AppliedOnceInOrder'
  BY <1>1, <1>4 DEF SessionInv, Applying, AppliedOnceInOrder, Leaves
<1>6. applying' \in [event : 0..Len(fired'), value : Seq(Positions'), steps : Seq({"set", "call"})]
  <2>1. <<>> \in Seq(Positions') /\ <<>> \in Seq({"set", "call"}) /\ Len(fired') \in Nat
    BY <1>1, EmptySeq, LenProperties DEF SessionInv, SessionTypes
  <2> QED
    BY <1>1, <2>1 DEF NoAction
<1>7. CASE queue = <<>>
  <2>1. queue' = queue /\ running' = running /\ UNCHANGED evaluation
    BY <1>1, <1>7 DEF Drain
  <2>2. Taken' = Taken
    BY <1>1, <2>1 DEF Taken
  <2>3. SessionTypes' /\ QueueInOrder' /\ Evaluating'
    BY <1>1, <1>2, <1>4, <1>6, <2>1, <2>2 DEF SessionInv, SessionTypes, QueueInOrder, Evaluating
  <2>4. Resting'
    BY <1>1, <1>3, <1>4, <2>2 DEF Resting, Leaves
  <2> QED
    BY <1>5, <2>3, <2>4 DEF SessionInv
<1>8. CASE queue # <<>>
  <2>1. /\ queue' = Tail(queue) /\ running' = TRUE
        /\ evaluation' = IF current THEN [phase |-> "queued", event |-> Head(queue), input |-> state] ELSE evaluation
    BY <1>1, <1>2, <1>8 DEF Drain
  <2>2. /\ queue' \in Seq(Positions') /\ Len(queue') = Len(queue) - 1 /\ Len(queue) \in Nat
        /\ DOMAIN queue' = 1..Len(queue') /\ DOMAIN queue = 1..Len(queue)
        /\ \A i \in 1..Len(queue') : queue'[i] = queue[i + 1]
        /\ Head(queue) = queue[1] /\ Len(queue) > 0
    BY <1>4, <1>8, <2>1, HeadTailProperties, LenProperties, EmptySeq DEF SessionInv, SessionTypes
  <2>3. Len(queue) <= Len(fired) /\ \A i \in 1..Len(queue) : queue[i] = Taken + i
    BY <1>2, <2>2 DEF SessionInv, QueueInOrder
  <2>4. Len(fired) \in Nat /\ Taken \in Nat /\ Taken' = Taken + 1
    BY <1>1, <2>2, <2>3, LenProperties DEF Taken, SessionInv, SessionTypes
  <2>5. Head(queue) = Taken + 1 /\ Head(queue) \in Positions
    BY <2>2, <2>3, <2>4 DEF Positions, Taken
  <2>6. QueueInOrder'
    BY <1>1, <2>2, <2>3, <2>4 DEF QueueInOrder
  <2>7. evaluation' \in [phase : {"none", "queued", "posted"}, event : 0..Len(fired'), input : Seq(Positions')]
    BY <1>1, <1>4, <2>1, <2>5 DEF SessionInv, SessionTypes, Positions
  <2>8. SessionTypes'
    BY <1>1, <1>4, <1>6, <2>1, <2>2, <2>7 DEF SessionInv, SessionTypes
  <2>9. Evaluating'
    BY <1>1, <1>2, <1>3, <1>4, <2>1, <2>4, <2>5 DEF Evaluating, Leaves
  <2>10. Resting'
    BY <2>1 DEF Resting
  <2> QED
    BY <1>5, <2>6, <2>8, <2>9, <2>10 DEF SessionInv
<1> QED
  BY <1>7, <1>8

\* The call site leaves or its update goes: what it has accepted stays as it is.
LEMMA EndsHolds ==
  ASSUME ~Reentrant, SessionInv, FireMistyped \/ Dispose \/ Refuse
  PROVE  SessionInv'
<1>1. /\ applying = NoAction /\ active' \in BOOLEAN /\ current' \in BOOLEAN /\ (active' => active)
      /\ UNCHANGED <<fired, queue, running, failed, evaluation, applying, state>>
  <2>1. CASE FireMistyped
    BY <2>1 DEF FireMistyped, MainIdle
  <2>2. CASE Dispose
    BY <2>2 DEF Dispose, MainIdle, SessionInv, SessionTypes
  <2>3. CASE Refuse
    BY <2>3 DEF Refuse, MainIdle, SessionInv, SessionTypes
  <2> QED
    BY <2>1, <2>2, <2>3
<1>2. Taken' = Taken /\ Positions' = Positions /\ \A n : Setters(n)' = Setters(n)
  BY <1>1 DEF Taken, Positions, Setters
<1>3. SessionTypes' /\ QueueInOrder'
  BY <1>1, <1>2 DEF SessionInv, SessionTypes, QueueInOrder
<1>4. Evaluating' /\ Applying' /\ Resting' /\ AppliedOnceInOrder'
  BY <1>1, <1>2 DEF SessionInv, Evaluating, Applying, Resting, AppliedOnceInOrder, Leaves
<1> QED
  BY <1>3, <1>4 DEF SessionInv

LEMMA WorkerHolds ==
  ASSUME SessionInv, Evaluate \/ EvaluationEnds
  PROVE  SessionInv'
<1>1. /\ evaluation.phase = "queued"
      /\ \/ evaluation' = [evaluation EXCEPT !.phase = "posted"]
         \/ evaluation' = NoEvaluation
      /\ failed' \in BOOLEAN
      /\ UNCHANGED <<fired, queue, running, active, current, applying, state>>
  BY DEF Evaluate, EvaluationEnds, SessionInv, SessionTypes
<1>2. Taken' = Taken /\ Positions' = Positions /\ \A n : Setters(n)' = Setters(n)
  BY <1>1 DEF Taken, Positions, Setters
<1>3. evaluation' \in [phase : {"none", "queued", "posted"}, event : 0..Len(fired'), input : Seq(Positions')]
  <2>1. <<>> \in Seq(Positions') /\ Len(fired') \in Nat
    BY <1>1, EmptySeq, LenProperties DEF SessionInv, SessionTypes
  <2>2. NoEvaluation \in [phase : {"none", "queued", "posted"}, event : 0..Len(fired'), input : Seq(Positions')]
    BY <2>1 DEF NoEvaluation
  <2>3. CASE evaluation' = [evaluation EXCEPT !.phase = "posted"]
    BY <1>1, <1>2, <2>3 DEF SessionInv, SessionTypes
  <2> QED
    BY <1>1, <2>2, <2>3
<1>4. SessionTypes' /\ QueueInOrder'
  BY <1>1, <1>2, <1>3 DEF SessionInv, SessionTypes, QueueInOrder
<1>5. evaluation'.phase # "none" => evaluation'.event = evaluation.event /\ evaluation'.input = evaluation.input
  BY <1>1 DEF NoEvaluation, SessionInv, SessionTypes
<1>6. Evaluating'
  BY <1>1, <1>2, <1>5 DEF SessionInv, Evaluating, Leaves
<1>7. Applying' /\ Resting' /\ AppliedOnceInOrder'
  BY <1>1, <1>2 DEF SessionInv, Applying, Resting, AppliedOnceInOrder, Leaves
<1> QED
  BY <1>4, <1>6, <1>7 DEF SessionInv

LEMMA SessionStutter == SessionInv /\ UNCHANGED sessionVars => SessionInv'
<1> SUFFICES ASSUME SessionInv, UNCHANGED sessionVars PROVE SessionInv'
  OBVIOUS
<1>1. UNCHANGED <<fired, queue, running, active, current, failed, evaluation, applying, state>>
  BY DEF sessionVars
<1>2. Taken' = Taken /\ Positions' = Positions /\ \A n : Setters(n)' = Setters(n)
  BY <1>1 DEF Taken, Positions, Setters
<1> QED
  BY <1>1, <1>2 DEF SessionInv, SessionTypes, QueueInOrder, Evaluating, Applying, Resting, AppliedOnceInOrder,
     Leaves

LEMMA SessionStep ==
  ASSUME ~Reentrant, SessionInv, [SessionNext]_sessionVars
  PROVE  SessionInv'
BY FireHolds, DoneHolds, ApplySetHolds, ApplyCallHolds, ApplyEndHolds, EndsHolds, WorkerHolds, SessionStutter
   DEF SessionNext, Main

-----------------------------------------------------------------------------
(* What is promised of the session, while no installed callback delivers an event before it returns *)

\* The inductive invariant holds throughout.
THEOREM SessionInvariance ==
  ASSUME ~Reentrant
  PROVE  SessionSpec => []SessionInv
BY InitSession, SessionStep, PTL DEF SessionSpec

\* Each event's action is evaluated on the state that exactly the events before it have left
\* (PortableOverride.kt, drain).
THEOREM ReadsInTurn ==
  ASSUME ~Reentrant
  PROVE  SessionSpec => []ReadsStateAtItsTurn
<1>1. SessionInv => ReadsStateAtItsTurn
  BY DEF SessionInv, Evaluating, ReadsStateAtItsTurn
<1> QED
  BY <1>1, SessionInvariance, PTL

\* No event's assignments are lost, doubled or put out of order (PortableOverride.kt, apply).
THEOREM AppliesInOrder ==
  ASSUME ~Reentrant
  PROVE  SessionSpec => []AppliedOnceInOrder
<1>1. SessionInv => AppliedOnceInOrder
  BY DEF SessionInv
<1> QED
  BY <1>1, SessionInvariance, PTL

\* A call site that is gone changes no state and calls nothing back (PortableOverride.kt, done).
THEOREM DisposalFinal ==
  ASSUME ~Reentrant
  PROVE  SessionSpec => NothingAfterDisposal
<1>1. ASSUME SessionInv, [SessionNext]_sessionVars, ~active
      PROVE  state' = state /\ (applying' = applying \/ applying' = NoAction)
  <2>1. applying = NoAction
    BY <1>1 DEF SessionInv, Applying
  <2>2. applying.steps = <<>>
    BY <2>1 DEF NoAction
  <2> QED
    BY <1>1, <2>1, <2>2 DEF SessionNext, Main, Fire, FireMistyped, Done, ApplySet, ApplyCall, InCallback, ApplyEnd,
       Dispose, Refuse, Evaluate, EvaluationEnds, sessionVars
<1> QED
  BY <1>1, SessionInvariance, PTL DEF SessionSpec, NothingAfterDisposal

-----------------------------------------------------------------------------
(* Telemetry *)

Job == [do: {"emit", "selected", "rollback"}, type: Types, update: Updates \union {None}]

TelemetryTypes ==
  /\ installed \in Embedded
  /\ prefs \in Preferences /\ Len(prefs.queue) <= QueueMax
  /\ disk \in Preferences /\ Len(disk.queue) <= QueueMax
  /\ jobs \in Seq(Job)
  /\ flush \in [stage: {"idle", "sent", "accepted", "refused"}, batch: Seq(Event), credential: Nat]
  /\ named \in Nat /\ directives \in Nat /\ live \in Nat

\* The batch under way is what the queue begins with, and an accepted one is counted.
SentIsFirst ==
  /\ ~up => flush = Idle
  /\ flush.stage \in {"sent", "accepted"} =>
       /\ Len(flush.batch) <= Len(prefs.queue)
       /\ \A i \in 1..Len(flush.batch) :
            flush.batch[i] = prefs.queue[i] /\ (flush.stage = "accepted" => flush.batch[i] \in events)

Places(s, M) == {i \in DOMAIN s : s[i] \in M}
Count(s, M) == Cardinality(Places(s, M))
Flag(b) == IF b THEN 1 ELSE 0

\* The events that report a rollback, and the jobs that come to one.
Reporting == {e \in Event : e.type = "rollback_applied"}
Answering == {j \in Job : j.do = "rollback" \/ j.type = "rollback_applied"}

\* The reports made, posted or intended by a process with these preferences and jobs.
Owed(p, s) == Count(p.queue, Reporting) + Count(s, Answering) + Flag(p.rollback)

\* Each answers a directive of its own, in the process and after its death.
RollbacksCounted == Owed(prefs, jobs) <= directives /\ Owed(disk, <<>>) <= directives

TelemetryInv == TelemetryTypes /\ SentIsFirst /\ RollbacksCounted

-----------------------------------------------------------------------------
(* Counting in a sequence *)

LEMMA CountType ==
  ASSUME NEW S, NEW s \in Seq(S), NEW M
  PROVE  IsFiniteSet(Places(s, M)) /\ Count(s, M) \in Nat
<1>1. Places(s, M) \in SUBSET (1..Len(s)) /\ Len(s) \in Nat
  BY LenProperties DEF Places
<1>2. IsFiniteSet(1..Len(s))
  BY <1>1, FS_Interval
<1>3. IsFiniteSet(Places(s, M))
  BY <1>1, <1>2, FS_Subset
<1> QED
  BY <1>3, FS_CardinalityType DEF Count

LEMMA CountEmpty ==
  ASSUME NEW M
  PROVE  Count(<<>>, M) = 0
<1>1. Places(<<>>, M) = {}
  BY DEF Places
<1> QED
  BY <1>1, FS_EmptySet DEF Count

LEMMA CountAppend ==
  ASSUME NEW S, NEW s \in Seq(S), NEW e \in S, NEW M
  PROVE  Count(Append(s, e), M) = Count(s, M) + Flag(e \in M)
<1> DEFINE n == Len(s) + 1
<1>1. /\ Len(s) \in Nat /\ DOMAIN s = 1..Len(s) /\ DOMAIN Append(s, e) = 1..n
      /\ \A i \in 1..Len(s) : Append(s, e)[i] = s[i]
      /\ Append(s, e)[n] = e
  BY AppendProperties, LenProperties
<1>2. 1..n = 1..Len(s) \union {n} /\ n \notin 1..Len(s)
  BY <1>1
<1> HIDE DEF n
<1>3. IsFiniteSet(Places(s, M)) /\ n \notin Places(s, M) /\ Count(s, M) \in Nat
  BY <1>1, <1>2, CountType DEF Places
<1>4. Places(Append(s, e), M) = Places(s, M) \union (IF e \in M THEN {n} ELSE {})
  BY <1>1, <1>2 DEF Places
<1>5. CASE e \in M
  <2>1. Places(Append(s, e), M) = Places(s, M) \union {n}
    BY <1>4, <1>5
  <2>2. Cardinality(Places(s, M) \union {n}) = Cardinality(Places(s, M)) + 1
    BY <1>3, FS_AddElement
  <2> QED
    BY <1>5, <2>1, <2>2 DEF Count, Flag
<1>6. CASE e \notin M
  <2>1. Places(Append(s, e), M) = Places(s, M)
    BY <1>4, <1>6
  <2> QED
    BY <1>3, <1>6, <2>1 DEF Count, Flag
<1> QED
  BY <1>5, <1>6

\* Whoever leaves at the front, the others keep their order: there are at most as many.
LEMMA CountDrop ==
  ASSUME NEW S, NEW s \in Seq(S), NEW n \in 0..Len(s), NEW M
  PROVE  /\ SubSeq(s, n + 1, Len(s)) \in Seq(S)
         /\ Count(SubSeq(s, n + 1, Len(s)), M) <= Count(s, M)
<1> DEFINE t == SubSeq(s, n + 1, Len(s))
<1>1. Len(s) \in Nat /\ n \in Int /\ DOMAIN s = 1..Len(s) /\ \A i \in 1..Len(s) : s[i] \in S
  BY LenProperties
<1>2. t \in Seq(S) /\ Len(t) = Len(s) - n /\ \A i \in 1..Len(s) - n : t[i] = s[n + i]
  <2>1. \A i \in n + 1 .. Len(s) : s[i] \in S
    BY <1>1
  <2>2. /\ t \in Seq(S)
        /\ Len(t) = IF n + 1 <= Len(s) THEN Len(s) - (n + 1) + 1 ELSE 0
        /\ \A i \in 1 .. Len(s) - (n + 1) + 1 : t[i] = s[n + 1 + i - 1]
    BY <1>1, <2>1, SubSeqProperties
  <2> HIDE DEF t
  <2>3. Len(t) = Len(s) - n
    <3>1. n \in Nat /\ n <= Len(s) /\ Len(s) \in Nat
      BY <1>1
    <3>2. CASE n + 1 <= Len(s)
      BY <2>2, <3>1, <3>2
    <3>3. CASE n = Len(s)
      BY <2>2, <3>1, <3>3
    <3> QED
      BY <3>1, <3>2, <3>3
  <2>4. \A i \in 1..Len(s) - n : i \in 1 .. Len(s) - (n + 1) + 1 /\ n + 1 + i - 1 = n + i
    BY <1>1
  <2>5. ASSUME NEW i \in 1..Len(s) - n
        PROVE  t[i] = s[n + i]
    BY <2>2, <2>4
  <2> QED
    BY <2>2, <2>3, <2>5
<1>3. DOMAIN t = 1..Len(s) - n
  BY <1>2, LenProperties
<1> HIDE DEF t
<1> DEFINE f == [i \in Places(t, M) |-> n + i]
<1>4. \A i \in Places(t, M) : i \in 1..Len(s) - n /\ n + i \in Places(s, M)
  BY <1>1, <1>2, <1>3 DEF Places
<1>5. f \in [Places(t, M) -> Places(s, M)]
  BY <1>4
<1>6. \A i, j \in Places(t, M) : f[i] = f[j] => i = j
  BY <1>1, <1>4
<1>7. f \in Injection(Places(t, M), Places(s, M))
  BY <1>5, <1>6 DEF Injection, IsInjective
<1>8. IsFiniteSet(Places(s, M))
  BY CountType
<1>9. Cardinality(Places(t, M)) <= Cardinality(Places(s, M))
  BY <1>7, <1>8, FS_Injection
<1> QED
  BY <1>2, <1>9 DEF Count, t

\* What the head is counts once.
LEMMA CountTail ==
  ASSUME NEW S, NEW s \in Seq(S), s # <<>>, NEW M
  PROVE  /\ Tail(s) \in Seq(S)
         /\ Count(Tail(s), M) + Flag(Head(s) \in M) <= Count(s, M)
<1>1. /\ Len(s) \in Nat \ {0} /\ DOMAIN s = 1..Len(s)
      /\ Tail(s) \in Seq(S) /\ Len(Tail(s)) = Len(s) - 1
      /\ DOMAIN Tail(s) = 1..Len(s) - 1
      /\ \A i \in 1..Len(s) - 1 : Tail(s)[i] = s[i + 1]
      /\ Head(s) = s[1]
  BY HeadTailProperties, LenProperties, EmptySeq
<1> DEFINE old == Places(s, M) \ {1}
           new == Places(Tail(s), M)
           f == [i \in new |-> i + 1]
<1>2. \A i \in new : i \in 1..Len(s) - 1 /\ i + 1 \in old
  BY <1>1 DEF Places
<1>3. f \in [new -> old]
  BY <1>2
<1>4. \A i, j \in new : f[i] = f[j] => i = j
  BY <1>2
<1>5. f \in Injection(new, old)
  BY <1>3, <1>4 DEF Injection, IsInjective
<1>6. IsFiniteSet(Places(s, M)) /\ Count(s, M) \in Nat /\ Count(Tail(s), M) \in Nat
  BY <1>1, CountType
<1>7. IsFiniteSet(old)
      /\ Cardinality(old) = IF 1 \in Places(s, M) THEN Count(s, M) - 1 ELSE Count(s, M)
  BY <1>6, FS_RemoveElement DEF Count
<1>8. Cardinality(new) <= Cardinality(old)
  BY <1>5, <1>7, FS_Injection
<1>9. 1 \in Places(s, M) <=> Head(s) \in M
  BY <1>1 DEF Places
<1> QED
  BY <1>1, <1>6, <1>7, <1>8, <1>9 DEF Count, Flag

-----------------------------------------------------------------------------
LEMMA InitTelemetry == Init => TelemetryInv
<1> SUFFICES ASSUME Init PROVE TelemetryInv
  OBVIOUS
<1>1. NoPreferences \in Preferences /\ Len(NoPreferences.queue) <= QueueMax
  BY TelemetryAssumption DEF NoPreferences, Preferences
<1>2. Idle \in [stage: {"idle", "sent", "accepted", "refused"}, batch: Seq(Event), credential: Nat]
  BY DEF Idle
<1>3. TelemetryTypes
  BY <1>1, <1>2 DEF Init, TelemetryTypes
<1>4. SentIsFirst
  BY DEF Init, SentIsFirst, Idle
<1>5. RollbacksCounted
  BY CountEmpty DEF Init, RollbacksCounted, Owed, NoPreferences, Flag
<1> QED
  BY <1>3, <1>4, <1>5 DEF TelemetryInv

LEMMA EnqueueKeeps ==
  ASSUME NEW q \in Seq(Event), Len(q) <= QueueMax, NEW e \in Event
  PROVE  /\ Enqueue(q, e) \in Seq(Event) /\ Len(Enqueue(q, e)) <= QueueMax
         /\ Count(Enqueue(q, e), Reporting) <= Count(q, Reporting) + Flag(e \in Reporting)
         /\ \A o \in ToSet(q) \ ToSet(Enqueue(q, e)) : o = Head(q) /\ Len(q) = QueueMax
<1>1. Len(q) \in Nat /\ QueueMax \in Nat \ {0} /\ DOMAIN q = 1..Len(q)
  BY TelemetryAssumption, LenProperties
<1>2. CASE Len(q) >= QueueMax
  <2> DEFINE t == Tail(q)
  <2>1. q # <<>> /\ Len(q) = QueueMax
    <3>1. Len(q) = QueueMax
      <4> DEFINE n == Len(q)
      <4>1. n \in Nat /\ QueueMax \in Nat /\ n <= QueueMax /\ n >= QueueMax
        BY <1>1, <1>2
      <4> HIDE DEF n
      <4>2. n = QueueMax
        BY <4>1
      <4> QED
        BY <4>2 DEF n
    <3>2. Len(q) # 0
      BY <1>1, <3>1
    <3>3. Len(<<>>) = 0
      BY EmptySeq
    <3> QED
      BY <3>1, <3>2, <3>3
  <2>2. /\ t \in Seq(Event) /\ Len(t) = Len(q) - 1 /\ Head(q) = q[1]
        /\ \A i \in 1..Len(q) - 1 : t[i] = q[i + 1]
    BY <1>1, <2>1, HeadTailProperties
  <2>3. Count(t, Reporting) + Flag(Head(q) \in Reporting) <= Count(q, Reporting)
    BY <2>1, CountTail
  <2>4. Enqueue(q, e) = Append(t, e)
    BY <1>2 DEF Enqueue
  <2> HIDE DEF t
  <2>5. /\ Append(t, e) \in Seq(Event) /\ Len(Append(t, e)) = Len(q)
        /\ DOMAIN Append(t, e) = 1..Len(q)
        /\ \A i \in 1..Len(q) - 1 : Append(t, e)[i] = q[i + 1]
    <3>1. /\ Append(t, e) \in Seq(Event) /\ Len(Append(t, e)) = Len(t) + 1
          /\ \A i \in 1..Len(t) : Append(t, e)[i] = t[i]
      BY <2>2, AppendProperties
    <3>2. Len(Append(t, e)) = Len(q)
      BY <1>1, <2>2, <3>1
    <3>3. DOMAIN Append(t, e) = 1..Len(q)
      BY <3>1, <3>2, LenProperties
    <3> QED
      BY <2>2, <3>1, <3>2, <3>3
  <2>6. Count(Append(t, e), Reporting) = Count(t, Reporting) + Flag(e \in Reporting)
    BY <2>2, CountAppend
  <2>7. Count(t, Reporting) \in Nat /\ Count(q, Reporting) \in Nat
    BY <2>2, CountType
  <2>8. Count(Append(t, e), Reporting) <= Count(q, Reporting) + Flag(e \in Reporting)
    BY <2>3, <2>6, <2>7 DEF Flag
  <2>9. ASSUME NEW o \in ToSet(q), o \notin ToSet(Append(t, e))
        PROVE  o = Head(q)
    <3>1. PICK i \in 1..Len(q) : o = q[i]
      BY <1>1 DEF ToSet
    <3>2. CASE i # 1
      <4>1. i - 1 \in 1..Len(q) - 1 /\ i - 1 \in 1..Len(q) /\ (i - 1) + 1 = i
        BY <1>1, <3>2
      <4>2. Append(t, e)[i - 1] = o
        BY <2>5, <3>1, <4>1
      <4> QED
        BY <2>5, <2>9, <4>1, <4>2 DEF ToSet
    <3> QED
      BY <2>2, <3>1, <3>2
  <2> QED
    BY <1>1, <2>1, <2>4, <2>5, <2>8, <2>9
<1>3. CASE ~(Len(q) >= QueueMax)
  <2>1. Enqueue(q, e) = Append(q, e)
    BY <1>3 DEF Enqueue
  <2>2. /\ Append(q, e) \in Seq(Event) /\ Len(Append(q, e)) = Len(q) + 1
        /\ DOMAIN Append(q, e) = 1..Len(q) + 1
        /\ \A i \in 1..Len(q) : Append(q, e)[i] = q[i]
    BY <1>1, AppendProperties, LenProperties
  <2>3. ToSet(q) \subseteq ToSet(Append(q, e))
    BY <1>1, <2>2 DEF ToSet
  <2>4. Count(Append(q, e), Reporting) = Count(q, Reporting) + Flag(e \in Reporting)
        /\ Count(q, Reporting) \in Nat
    BY CountAppend, CountType
  <2>5. Flag(e \in Reporting) \in Nat
    BY DEF Flag
  <2>6. Len(Append(q, e)) <= QueueMax
    BY <1>1, <1>3, <2>2
  <2>7. Count(Append(q, e), Reporting) <= Count(q, Reporting) + Flag(e \in Reporting)
    BY <2>4, <2>5
  <2> QED
    BY <2>1, <2>2, <2>3, <2>6, <2>7
<1> QED
  BY <1>2, <1>3

\* A step that leaves the device's queue and jobs alone, and of the server takes nothing.
LEMMA DeviceRests ==
  ASSUME TelemetryInv, UNCHANGED <<up, installed, prefs, disk, jobs, flush, named, directives>>,
         live' \in Nat, events \subseteq events'
  PROVE  TelemetryInv'
<1>1. TelemetryTypes' /\ RollbacksCounted'
  BY DEF TelemetryInv, TelemetryTypes, RollbacksCounted, Owed
<1>2. SentIsFirst'
  BY DEF TelemetryInv, SentIsFirst
<1> QED
  BY <1>1, <1>2 DEF TelemetryInv

LEMMA OwedType ==
  ASSUME NEW p \in Preferences, NEW s \in Seq(Job)
  PROVE  /\ Count(p.queue, Reporting) \in Nat /\ Count(s, Answering) \in Nat
         /\ Flag(p.rollback) \in Nat /\ Owed(p, s) \in Nat
         /\ Owed(p, <<>>) <= Owed(p, s)
<1>1. p.queue \in Seq(Event) /\ p.rollback \in BOOLEAN
  BY DEF Preferences
<1>2. Count(p.queue, Reporting) \in Nat /\ Count(s, Answering) \in Nat
  BY <1>1, CountType
<1>3. Flag(p.rollback) \in Nat
  BY DEF Flag
<1> QED
  BY <1>2, <1>3, CountEmpty DEF Owed

LEMMA BootHolds ==
  ASSUME TelemetryInv, NEW u \in Releases \union {installed}, Boot(u)
  PROVE  TelemetryInv'
<1>1. /\ ~up /\ up' /\ prefs' = disk
      /\ jobs' = <<Emit("update_activated", u), Selected(u)>> \/ jobs' = Rejection(u)
      /\ UNCHANGED <<installed, disk, flush, named, directives, live>>
  BY DEF Boot, server
<1>2. u \in Updates
  BY DEF TelemetryInv, TelemetryTypes, Updates
<1>3. PICK emit \in Job \ Answering, selected \in Job \ Answering : jobs' = <<emit, selected>>
  <2>1. /\ Emit("update_activated", u) \in Job \ Answering /\ Selected(u) \in Job \ Answering
        /\ Emit("update_rejected", u) \in Job \ Answering /\ Emit("other", u) \in Job \ Answering
    BY <1>2 DEF Emit, Selected, Job, Answering, Types
  <2>2. CASE jobs' = <<Emit("update_activated", u), Selected(u)>>
    BY <2>1, <2>2
  <2>3. CASE jobs' = Rejection(u)
    BY <2>1, <2>3 DEF Rejection
  <2> QED
    BY <1>1, <2>2, <2>3
<1>4. jobs' \in Seq(Job)
  BY <1>3
<1>5. Count(jobs', Answering) = 0
  <2>1. emit \in Job /\ selected \in Job /\ Flag(emit \in Answering) = 0 /\ Flag(selected \in Answering) = 0
    BY <1>3 DEF Flag
  <2>2. jobs' = <<emit, selected>>
    BY <1>3
  <2>3. <<>> \in Seq(Job) /\ <<emit>> \in Seq(Job)
    BY <2>1
  <2>4. <<emit>> = Append(<<>>, emit)
    BY <2>1, <2>3, AppendIsConcat, ConcatEmptySeq
  <2>5. <<emit, selected>> = Append(<<emit>>, selected)
    BY <2>1, <2>3
  <2>6. Count(Append(<<>>, emit), Answering) = Count(<<>>, Answering) + Flag(emit \in Answering)
    BY <2>1, <2>3, CountAppend
  <2>7. Count(Append(<<emit>>, selected), Answering) = Count(<<emit>>, Answering) + Flag(selected \in Answering)
    BY <2>1, <2>3, CountAppend
  <2>8. Count(<<>>, Answering) = 0
    BY CountEmpty
  <2> DEFINE none == Flag(emit \in Answering)
             more == Flag(selected \in Answering)
  <2>9. none = 0 /\ more = 0
    BY <2>1
  <2> HIDE DEF none, more
  <2>10. Count(<<emit>>, Answering) = 0 + none
    BY <2>4, <2>6, <2>8 DEF none
  <2>11. Count(<<emit, selected>>, Answering) = 0 + none + more
    BY <2>5, <2>7, <2>10 DEF more
  <2> QED
    BY <2>2, <2>9, <2>11
<1>6. TelemetryTypes'
  BY <1>1, <1>4 DEF TelemetryInv, TelemetryTypes
<1>7. SentIsFirst'
  BY <1>1 DEF TelemetryInv, SentIsFirst, Idle
<1>8. RollbacksCounted'
  BY <1>1, <1>5, CountEmpty DEF TelemetryInv, RollbacksCounted, Owed
<1> QED
  BY <1>6, <1>7, <1>8 DEF TelemetryInv

\* One more job is posted.
LEMMA PostHolds ==
  ASSUME TelemetryInv, NEW j \in Job, jobs' = Append(jobs, j),
         directives' \in Nat, directives' >= directives + Flag(j \in Answering),
         UNCHANGED <<up, installed, prefs, disk, flush, named, live, events>>
  PROVE  TelemetryInv'
<1>1. jobs \in Seq(Job) /\ prefs \in Preferences /\ disk \in Preferences /\ directives \in Nat
  BY DEF TelemetryInv, TelemetryTypes
<1>2. jobs' \in Seq(Job) /\ Count(jobs', Answering) = Count(jobs, Answering) + Flag(j \in Answering)
  BY <1>1, AppendProperties, CountAppend
<1>3. Owed(prefs, jobs) <= directives /\ Owed(disk, <<>>) <= directives
  BY DEF TelemetryInv, RollbacksCounted
<1>4. Owed(prefs, jobs') <= directives' /\ Owed(disk, <<>>) <= directives'
  <2>1. Flag(j \in Answering) \in Nat
    BY DEF Flag
  <2>2. Owed(disk, <<>>) \in Nat
    BY <1>1, OwedType, EmptySeq
  <2>3. Owed(prefs, jobs') = Owed(prefs, jobs) + Flag(j \in Answering)
    <3> DEFINE f == Flag(j \in Answering)
    <3>1. Count(prefs.queue, Reporting) \in Nat /\ Count(jobs, Answering) \in Nat /\ Flag(prefs.rollback) \in Nat
      BY <1>1, OwedType
    <3>2. f \in Nat /\ Count(jobs', Answering) = Count(jobs, Answering) + f
      BY <1>2, <2>1
    <3> HIDE DEF f
    <3>3. Owed(prefs, jobs') = Owed(prefs, jobs) + f
      BY <3>1, <3>2 DEF Owed
    <3> QED
      BY <3>3 DEF f
  <2> QED
    BY <1>1, <1>3, <2>1, <2>2, <2>3, OwedType
<1>5. RollbacksCounted'
  BY <1>4 DEF RollbacksCounted, Owed
<1>6. TelemetryTypes'
  BY <1>2 DEF TelemetryInv, TelemetryTypes
<1>7. SentIsFirst'
  BY DEF TelemetryInv, SentIsFirst
<1> QED
  BY <1>5, <1>6, <1>7 DEF TelemetryInv

LEMMA PostingHolds ==
  ASSUME TelemetryInv, (\E u \in Releases \union {installed, None} : Notice(u)) \/ SeeRollback
  PROVE  TelemetryInv'
<1>1. ASSUME NEW u \in Releases \union {installed, None}, Notice(u)
      PROVE  TelemetryInv'
  <2>1. Emit("other", u) \in Job \ Answering
    BY DEF TelemetryInv, TelemetryTypes, Updates, Emit, Job, Answering, Types
  <2>2. jobs' = Append(jobs, Emit("other", u)) /\ directives' = directives
        /\ UNCHANGED <<up, installed, prefs, disk, flush, named, live, events>>
    BY <1>1 DEF Notice, server
  <2>3. directives \in Nat
    BY DEF TelemetryInv, TelemetryTypes
  <2> QED
    BY <2>1, <2>2, <2>3, PostHolds DEF Flag
<1>2. CASE SeeRollback
  <2>1. RollbackSeen \in Job
    BY DEF RollbackSeen, Job, Types
  <2>2. jobs' = Append(jobs, RollbackSeen) /\ directives' = directives + 1
        /\ UNCHANGED <<up, installed, prefs, disk, flush, named, live, events>>
    BY <1>2 DEF SeeRollback, server
  <2>3. directives \in Nat
    BY DEF TelemetryInv, TelemetryTypes
  <2> QED
    BY <2>1, <2>2, <2>3, PostHolds DEF Flag
<1> QED
  BY <1>1, <1>2

-----------------------------------------------------------------------------
\* The executor runs a job: the first is gone.
LEMMA FirstJob ==
  ASSUME TelemetryInv, jobs # <<>>
  PROVE  /\ Head(jobs) \in Job /\ Tail(jobs) \in Seq(Job)
         /\ Count(Tail(jobs), Answering) \in Nat /\ Count(jobs, Answering) \in Nat
         /\ Count(Tail(jobs), Answering) + Flag(Head(jobs) \in Answering) <= Count(jobs, Answering)
<1>1. jobs \in Seq(Job)
  BY DEF TelemetryInv, TelemetryTypes
<1>2. Head(jobs) \in Job /\ Tail(jobs) \in Seq(Job)
  BY <1>1, HeadTailProperties
<1> QED
  BY <1>1, <1>2, CountTail, CountType

\* What it makes of preferences and jobs answers no more than before.
LEMMA RunsJob ==
  ASSUME TelemetryInv, ExecutorFree, prefs' \in Preferences, Len(prefs'.queue) <= QueueMax,
         jobs' \in Seq(Job), Owed(prefs', jobs') <= Owed(prefs, jobs), named' \in Nat,
         UNCHANGED <<up, installed, disk, flush, directives, live, events>>
  PROVE  TelemetryInv'
<1>1. TelemetryTypes'
  BY DEF TelemetryInv, TelemetryTypes
<1>2. SentIsFirst'
  BY DEF ExecutorFree, SentIsFirst, Idle
<1>3. directives \in Nat /\ Owed(prefs, jobs) \in Nat /\ Owed(prefs', jobs') \in Nat
  BY OwedType DEF TelemetryInv, TelemetryTypes
<1>4. Owed(prefs', jobs') <= directives
  BY <1>3 DEF TelemetryInv, RollbacksCounted
<1>5. RollbacksCounted'
  BY <1>4 DEF TelemetryInv, RollbacksCounted, Owed
<1> QED
  BY <1>1, <1>2, <1>5 DEF TelemetryInv

\* The clock gives every event one of its times.
LEMMA TimesOfType == \A type : TimesOf(type) \subseteq Times
<1>1. (CHOOSE t \in Times : TRUE) \in Times
  BY TelemetryAssumption
<1> QED
  BY <1>1 DEF TimesOf

LEMMA RunEmitHolds ==
  ASSUME TelemetryInv, RunEmit
  PROVE  TelemetryInv'
<1>1. /\ ExecutorFree /\ jobs # <<>> /\ Head(jobs).do = "emit" /\ jobs' = Tail(jobs)
      /\ named' = named + 1
      /\ UNCHANGED <<up, installed, disk, flush, directives, live, events>>
  BY DEF RunEmit, server
<1>2. prefs \in Preferences /\ Len(prefs.queue) <= QueueMax /\ named \in Nat
  BY DEF TelemetryInv, TelemetryTypes
<1> DEFINE e(t) == [id |-> named + 1, type |-> Head(jobs).type, update |-> Head(jobs).update, time |-> t]
<1>3. PICK t \in Times : prefs' = [prefs EXCEPT !.queue = Enqueue(@, e(t))]
  BY TimesOfType DEF RunEmit
<1>4. Head(jobs) \in Job /\ e(t) \in Event
  BY <1>1, <1>2, FirstJob, TelemetryAssumption DEF Job, Event
<1>5. e(t) \in Reporting <=> Head(jobs) \in Answering
  BY <1>1, <1>4 DEF Reporting, Answering
<1> HIDE DEF e
<1>6. prefs.queue \in Seq(Event)
  BY <1>2 DEF Preferences
<1> DEFINE q == Enqueue(prefs.queue, e(t))
<1>7. /\ q \in Seq(Event) /\ Len(q) <= QueueMax
      /\ Count(q, Reporting) <= Count(prefs.queue, Reporting) + Flag(e(t) \in Reporting)
  BY <1>2, <1>4, <1>6, EnqueueKeeps
<1> HIDE DEF q
<1>8. prefs' = [prefs EXCEPT !.queue = q]
  BY <1>3 DEF q
<1>9. prefs' \in Preferences /\ prefs'.queue = q /\ prefs'.rollback = prefs.rollback
  BY <1>2, <1>7, <1>8 DEF Preferences
<1>10. Flag(e(t) \in Reporting) = Flag(Head(jobs) \in Answering)
  BY <1>5 DEF Flag
<1>11. Count(q, Reporting) + Count(Tail(jobs), Answering)
         <= Count(prefs.queue, Reporting) + Count(jobs, Answering)
  <2>1. Count(q, Reporting) \in Nat /\ Count(prefs.queue, Reporting) \in Nat
    BY <1>6, <1>7, CountType
  <2>2. Flag(Head(jobs) \in Answering) \in Nat
    BY DEF Flag
  <2> QED
    BY <1>1, <1>7, <1>10, <2>1, <2>2, FirstJob
<1>12. Owed(prefs', jobs') <= Owed(prefs, jobs)
  <2>1. Count(q, Reporting) \in Nat /\ Count(prefs.queue, Reporting) \in Nat
        /\ Count(Tail(jobs), Answering) \in Nat /\ Count(jobs, Answering) \in Nat
        /\ Flag(prefs.rollback) \in Nat
    BY <1>1, <1>6, <1>7, CountType, FirstJob DEF Flag
  <2> QED
    BY <1>1, <1>9, <1>11, <2>1 DEF Owed
<1> QED
  BY <1>1, <1>2, <1>7, <1>9, <1>12, FirstJob, RunsJob

LEMMA RunSelectedHolds ==
  ASSUME TelemetryInv, RunSelected
  PROVE  TelemetryInv'
<1> DEFINE u == Head(jobs).update
           report == Emit("rollback_applied", prefs.lastRemote)
<1>1. /\ ExecutorFree /\ jobs # <<>> /\ AfterSelection(u)
      /\ UNCHANGED <<up, installed, disk, flush, named, directives, live, events>>
  BY DEF RunSelected, server
<1>2. prefs \in Preferences /\ Len(prefs.queue) <= QueueMax /\ named \in Nat
  BY DEF TelemetryInv, TelemetryTypes
<1>3. prefs.lastRemote \in Releases \union {None} /\ prefs.queue \in Seq(Event) /\ prefs.rollback \in BOOLEAN
  BY <1>2 DEF Preferences
<1>4. report \in Job
  BY <1>3 DEF Emit, Job, Types, Updates
<1>5. /\ Tail(jobs) \in Seq(Job)
      /\ Count(Tail(jobs), Answering) \in Nat /\ Count(jobs, Answering) \in Nat
      /\ Count(Tail(jobs), Answering) <= Count(jobs, Answering)
  BY <1>1, FirstJob DEF Flag
<1>6. Count(prefs.queue, Reporting) \in Nat
  BY <1>3, CountType
<1>7. CASE u \in Embedded /\ prefs.rollback
  <2>1. /\ jobs' = Tail(jobs) \o <<report>>
        /\ prefs' = [prefs EXCEPT !.rollback = FALSE, !.lastRemote = None]
    BY <1>1, <1>3, <1>7 DEF AfterSelection
  <2>2. jobs' = Append(Tail(jobs), report)
    BY <1>4, <1>5, <2>1, AppendIsConcat
  <2>3. jobs' \in Seq(Job) /\ Count(jobs', Answering) <= Count(Tail(jobs), Answering) + 1
    <3>1. Flag(report \in Answering) \in {0, 1}
      BY DEF Flag
    <3> HIDE DEF report
    <3>2. Count(Append(Tail(jobs), report), Answering) = Count(Tail(jobs), Answering) + Flag(report \in Answering)
      BY <1>4, <1>5, CountAppend
    <3>3. Append(Tail(jobs), report) \in Seq(Job)
      BY <1>4, <1>5, AppendProperties
    <3> QED
      BY <1>5, <2>2, <3>1, <3>2, <3>3
  <2>4. Count(jobs', Answering) \in Nat
    BY <2>3, CountType
  <2>5. prefs' \in Preferences /\ prefs'.queue = prefs.queue /\ prefs'.rollback = FALSE
    BY <1>2, <2>1 DEF Preferences
  <2>6. Owed(prefs', jobs') <= Owed(prefs, jobs)
    BY <1>5, <1>6, <1>7, <2>3, <2>4, <2>5 DEF Owed, Flag
  <2> QED
    BY <1>1, <1>2, <2>3, <2>5, <2>6, RunsJob
<1>8. CASE ~(u \in Embedded /\ prefs.rollback)
  <2>1. /\ jobs' = Tail(jobs) \o <<>>
        /\ prefs' = [prefs EXCEPT !.rollback = prefs.rollback,
                                  !.lastRemote = IF u \in Releases THEN u ELSE prefs.lastRemote]
    BY <1>1, <1>3, <1>8 DEF AfterSelection
  <2>2. jobs' = Tail(jobs)
    BY <1>5, <2>1, ConcatEmptySeq
  <2>3. prefs' \in Preferences /\ prefs'.queue = prefs.queue /\ prefs'.rollback = prefs.rollback
    BY <1>2, <1>3, <2>1 DEF Preferences
  <2>4. Owed(prefs', jobs') <= Owed(prefs, jobs)
    BY <1>5, <1>6, <2>2, <2>3 DEF Owed, Flag
  <2> QED
    BY <1>1, <1>2, <1>5, <2>2, <2>3, <2>4, RunsJob
<1> QED
  BY <1>7, <1>8

LEMMA RunRollbackSeenHolds ==
  ASSUME TelemetryInv, RunRollbackSeen
  PROVE  TelemetryInv'
<1>1. /\ ExecutorFree /\ jobs # <<>> /\ Head(jobs).do = "rollback" /\ jobs' = Tail(jobs)
      /\ prefs' = [prefs EXCEPT !.rollback = TRUE]
      /\ UNCHANGED <<up, installed, disk, flush, named, directives, live, events>>
  BY DEF RunRollbackSeen, server
<1>2. prefs \in Preferences /\ Len(prefs.queue) <= QueueMax /\ named \in Nat
  BY DEF TelemetryInv, TelemetryTypes
<1>3. prefs' \in Preferences /\ prefs'.queue = prefs.queue /\ prefs'.rollback = TRUE
  BY <1>1, <1>2 DEF Preferences
<1>4. Head(jobs) \in Answering
  BY <1>1, FirstJob DEF Answering
<1>5. /\ Tail(jobs) \in Seq(Job)
      /\ Count(Tail(jobs), Answering) \in Nat /\ Count(jobs, Answering) \in Nat
      /\ Count(Tail(jobs), Answering) + 1 <= Count(jobs, Answering)
  BY <1>1, <1>4, FirstJob DEF Flag
<1>6. Count(prefs.queue, Reporting) \in Nat
  BY <1>2, CountType DEF Preferences
<1>7. Owed(prefs', jobs') <= Owed(prefs, jobs)
  BY <1>1, <1>3, <1>5, <1>6 DEF Owed, Flag
<1> QED
  BY <1>1, <1>2, <1>3, <1>5, <1>7, RunsJob

-----------------------------------------------------------------------------
LEMMA WriteDiskHolds ==
  ASSUME TelemetryInv, WriteDisk
  PROVE  TelemetryInv'
<1>1. disk' = prefs /\ UNCHANGED <<up, installed, prefs, jobs, flush, named, directives, live, events>>
  BY DEF WriteDisk, server
<1>2. prefs \in Preferences /\ jobs \in Seq(Job) /\ directives \in Nat
  BY DEF TelemetryInv, TelemetryTypes
<1>3. Owed(prefs, jobs) <= directives
  BY DEF TelemetryInv, RollbacksCounted
<1>4. Owed(prefs, jobs) \in Nat /\ Owed(prefs, <<>>) \in Nat /\ Owed(prefs, <<>>) <= Owed(prefs, jobs)
  BY <1>2, OwedType, EmptySeq
<1>5. Owed(prefs, <<>>) <= directives
  BY <1>2, <1>3, <1>4
<1>6. RollbacksCounted'
  BY <1>1, <1>3, <1>5 DEF RollbacksCounted, Owed
<1>7. TelemetryTypes' /\ SentIsFirst'
  BY <1>1 DEF TelemetryInv, TelemetryTypes, SentIsFirst
<1> QED
  BY <1>6, <1>7 DEF TelemetryInv

\* The flush goes on, and the preferences stay.
LEMMA FlushGoesOn ==
  ASSUME TelemetryInv, UNCHANGED <<up, installed, prefs, disk, jobs, named, directives, live>>,
         flush' \in [stage: {"idle", "sent", "accepted", "refused"}, batch: Seq(Event), credential: Nat],
         SentIsFirst'
  PROVE  TelemetryInv'
<1>1. TelemetryTypes' /\ RollbacksCounted'
  BY DEF TelemetryInv, TelemetryTypes, RollbacksCounted, Owed
<1> QED
  BY <1>1 DEF TelemetryInv

LEMMA FlushEnds ==
  ASSUME TelemetryInv, UNCHANGED <<up, installed, prefs, disk, jobs, named, directives, live>>, flush' = Idle
  PROVE  TelemetryInv'
BY FlushGoesOn DEF Idle, SentIsFirst

LEMMA StartFlushHolds ==
  ASSUME TelemetryInv, StartFlush
  PROVE  TelemetryInv'
<1> DEFINE q == prefs.queue
           n == IF Len(q) < BatchMax THEN Len(q) ELSE BatchMax
           b == SubSeq(q, 1, n)
<1>1. /\ up /\ UNCHANGED <<up, installed, prefs, disk, jobs, named, directives, live, events>>
      /\ flush' = [stage |-> "sent", batch |-> b, credential |-> prefs.credential]
  BY DEF StartFlush, ExecutorFree, server
<1>2. q \in Seq(Event) /\ prefs.credential \in Nat
  BY DEF TelemetryInv, TelemetryTypes, Preferences
<1>3. Len(q) \in Nat /\ \A i \in 1..Len(q) : q[i] \in Event
  BY <1>2, LenProperties
<1>4. n \in Nat /\ n <= Len(q)
  BY <1>3, TelemetryAssumption
<1> HIDE DEF n, q
<1>5. \A i \in 1..n : q[i] \in Event
  BY <1>3, <1>4
<1>6. /\ b \in Seq(Event)
      /\ Len(b) = IF 1 <= n THEN n - 1 + 1 ELSE 0
      /\ \A i \in 1 .. n - 1 + 1 : b[i] = q[1 + i - 1]
  BY <1>4, <1>5, SubSeqProperties
<1> HIDE DEF b
<1>7. Len(b) = n
  BY <1>4, <1>6
<1>8. ASSUME NEW i \in 1..n
      PROVE  b[i] = q[i]
  <2>1. i \in 1 .. n - 1 + 1 /\ 1 + i - 1 = i
    BY <1>4
  <2> QED
    BY <1>6, <2>1
<1>9. SentIsFirst'
  BY <1>1, <1>4, <1>7, <1>8 DEF SentIsFirst, q
<1> QED
  BY <1>1, <1>2, <1>6, <1>9, FlushGoesOn

\* What a flush takes from the queue is what it has sent.
LEMMA FinishTakes ==
  ASSUME TelemetryInv, FinishFlush
  PROVE  /\ TelemetryInv'
         /\ \A e \in ToSet(prefs.queue) \ ToSet(prefs'.queue) : e \in events
<1> DEFINE q == prefs.queue
           n == Len(flush.batch)
           rest == SubSeq(q, n + 1, Len(q))
<1>1. /\ up /\ flush.stage = "accepted" /\ flush' = Idle
      /\ prefs' = [prefs EXCEPT !.queue = rest]
      /\ UNCHANGED <<up, installed, disk, jobs, named, directives, live, events>>
  BY DEF FinishFlush, server
<1>2. /\ prefs \in Preferences /\ q \in Seq(Event) /\ Len(q) <= QueueMax /\ jobs \in Seq(Job)
      /\ flush.batch \in Seq(Event) /\ directives \in Nat
  BY DEF TelemetryInv, TelemetryTypes, Preferences
<1>3. /\ n \in Nat /\ Len(q) \in Nat /\ n <= Len(q) /\ DOMAIN q = 1..Len(q)
      /\ \A i \in 1..n : q[i] \in events
  <2>1. n \in Nat /\ Len(q) \in Nat /\ DOMAIN q = 1..Len(q)
    BY <1>2, LenProperties
  <2>2. n <= Len(q) /\ \A i \in 1..n : q[i] \in events
    BY <1>1 DEF TelemetryInv, SentIsFirst
  <2> QED
    BY <2>1, <2>2
<1> HIDE DEF q, n
<1>4. rest \in Seq(Event) /\ Count(rest, Reporting) <= Count(q, Reporting)
  BY <1>2, <1>3, CountDrop
<1>5. Len(rest) = Len(q) - n /\ \A i \in 1..Len(q) - n : rest[i] = q[n + i]
  <2>1. \A i \in n + 1 .. Len(q) : q[i] \in Event
    BY <1>2, <1>3, LenProperties
  <2>2. /\ Len(rest) = IF n + 1 <= Len(q) THEN Len(q) - (n + 1) + 1 ELSE 0
        /\ \A i \in 1 .. Len(q) - (n + 1) + 1 : rest[i] = q[n + 1 + i - 1]
    BY <1>3, <2>1, SubSeqProperties
  <2> HIDE DEF rest
  <2> DEFINE m == Len(q)
  <2>3. Len(rest) = m - n
    <3>1. m \in Nat /\ n \in Nat /\ n <= m /\ Len(rest) = IF n + 1 <= m THEN m - (n + 1) + 1 ELSE 0
      BY <1>3, <2>2
    <3> HIDE DEF m
    <3> QED
      BY <3>1
  <2>4. \A i \in 1..m - n : i \in 1 .. m - (n + 1) + 1 /\ n + 1 + i - 1 = n + i
    BY <1>3
  <2> QED
    BY <2>2, <2>3, <2>4
<1> HIDE DEF rest
<1>6. Len(rest) <= QueueMax
  <2> DEFINE m == Len(q)
  <2>1. m \in Nat /\ n \in Nat /\ m <= QueueMax /\ Len(rest) = m - n
    BY <1>2, <1>3, <1>5
  <2> HIDE DEF m
  <2> QED
    BY <2>1, TelemetryAssumption
<1>7. prefs' \in Preferences /\ prefs'.queue = rest /\ prefs'.rollback = prefs.rollback
  BY <1>1, <1>2, <1>4 DEF Preferences
<1>8. TelemetryTypes'
  BY <1>1, <1>6, <1>7 DEF TelemetryInv, TelemetryTypes, Idle
<1>9. SentIsFirst'
  BY <1>1 DEF SentIsFirst, Idle
<1>10. RollbacksCounted'
  <2>1. /\ Count(rest, Reporting) \in Nat /\ Count(q, Reporting) \in Nat
        /\ Count(jobs, Answering) \in Nat /\ Flag(prefs.rollback) \in Nat
    BY <1>2, <1>4, CountType DEF Flag
  <2>2. Count(q, Reporting) + Count(jobs, Answering) + Flag(prefs.rollback) <= directives
    BY DEF TelemetryInv, RollbacksCounted, Owed, q
  <2>3. Count(rest, Reporting) + Count(jobs, Answering) + Flag(prefs.rollback) <= directives
    BY <1>2, <1>4, <2>1, <2>2
  <2> QED
    BY <1>1, <1>7, <2>3 DEF TelemetryInv, RollbacksCounted, Owed
<1>11. ASSUME NEW e \in ToSet(q), e \notin ToSet(rest)
       PROVE  e \in events
  <2>1. PICK i \in 1..Len(q) : e = q[i]
    BY <1>3 DEF ToSet
  <2>2. CASE i <= n
    BY <1>3, <2>1, <2>2
  <2>3. CASE i > n
    <3>1. i - n \in 1..Len(q) - n /\ n + (i - n) = i
      BY <1>3, <2>3
    <3>2. rest[i - n] = e
      BY <1>5, <2>1, <3>1
    <3>3. DOMAIN rest = 1..Len(q) - n
      BY <1>4, <1>5, LenProperties
    <3> QED
      BY <1>11, <3>1, <3>2, <3>3 DEF ToSet
  <2> QED
    BY <1>3, <2>1, <2>2, <2>3
<1> QED
  BY <1>7, <1>8, <1>9, <1>10, <1>11 DEF TelemetryInv, q

LEMMA DieHolds ==
  ASSUME TelemetryInv, Die, installed' \in Embedded
  PROVE  TelemetryInv'
<1>1. /\ ~up' /\ prefs' = NoPreferences /\ jobs' = <<>> /\ flush' = Idle
      /\ UNCHANGED <<disk, named, directives, live>>
  BY DEF Die, server
<1>2. NoPreferences \in Preferences /\ Len(NoPreferences.queue) <= QueueMax
  BY TelemetryAssumption DEF NoPreferences, Preferences
<1>3. Idle \in [stage: {"idle", "sent", "accepted", "refused"}, batch: Seq(Event), credential: Nat]
  BY DEF Idle
<1>4. TelemetryTypes'
  BY <1>1, <1>2, <1>3 DEF TelemetryInv, TelemetryTypes
<1>5. SentIsFirst'
  BY <1>1 DEF SentIsFirst, Idle
<1>6. Owed(NoPreferences, <<>>) = 0
  BY CountEmpty DEF Owed, NoPreferences, Flag
<1>7. RollbacksCounted'
  BY <1>1, <1>6 DEF TelemetryInv, TelemetryTypes, RollbacksCounted, Owed
<1> QED
  BY <1>4, <1>5, <1>7 DEF TelemetryInv

LEMMA EnrollHolds ==
  ASSUME TelemetryInv, Enroll
  PROVE  TelemetryInv' /\ prefs'.queue = prefs.queue
<1>1. /\ ExecutorFree /\ live' = live + 1
      /\ UNCHANGED <<up, installed, jobs, flush, named, directives, events>>
      /\ \/ prefs' = [prefs EXCEPT !.credential = live + 1] /\ disk' = prefs'
         \/ UNCHANGED <<prefs, disk>>
  BY DEF Enroll
<1>2. prefs \in Preferences /\ live \in Nat /\ jobs \in Seq(Job) /\ directives \in Nat
  BY DEF TelemetryInv, TelemetryTypes
<1>3. CASE UNCHANGED <<prefs, disk>>
  <2>1. live' \in Nat
    BY <1>1, <1>2
  <2> QED
    BY <1>1, <1>3, <2>1, DeviceRests
<1>4. CASE prefs' = [prefs EXCEPT !.credential = live + 1] /\ disk' = prefs'
  <2>1. prefs' \in Preferences /\ prefs'.queue = prefs.queue /\ prefs'.rollback = prefs.rollback
    BY <1>2, <1>4 DEF Preferences
  <2>2. TelemetryTypes'
    BY <1>1, <1>2, <1>4, <2>1 DEF TelemetryInv, TelemetryTypes
  <2>3. SentIsFirst'
    BY <1>1 DEF ExecutorFree, SentIsFirst, Idle
  <2>4. Owed(prefs, jobs) <= directives
    BY DEF TelemetryInv, RollbacksCounted
  <2>5. Owed(prefs, jobs) \in Nat /\ Owed(prefs, <<>>) \in Nat /\ Owed(prefs, <<>>) <= Owed(prefs, jobs)
    BY <1>2, OwedType, EmptySeq
  <2>6. Owed(prefs, <<>>) <= directives
    BY <1>2, <2>4, <2>5
  <2>7. RollbacksCounted'
    BY <1>1, <1>4, <2>1, <2>4, <2>6 DEF RollbacksCounted, Owed
  <2> QED
    BY <2>1, <2>2, <2>3, <2>7 DEF TelemetryInv
<1> QED
  BY <1>1, <1>3, <1>4

LEMMA AcceptHolds ==
  ASSUME TelemetryInv, AcceptBatch
  PROVE  TelemetryInv'
<1>1. /\ flush.stage = "sent" /\ flush' = [flush EXCEPT !.stage = "accepted"]
      /\ events' = events \union ToSet(flush.batch)
      /\ UNCHANGED <<up, installed, prefs, disk, jobs, named, directives, live>>
  BY DEF AcceptBatch, Ingest
<1>2. flush \in [stage: {"idle", "sent", "accepted", "refused"}, batch: Seq(Event), credential: Nat]
  BY DEF TelemetryInv, TelemetryTypes
<1>3. /\ flush' \in [stage: {"idle", "sent", "accepted", "refused"}, batch: Seq(Event), credential: Nat]
      /\ flush'.batch = flush.batch
  BY <1>1, <1>2
<1>4. \A i \in 1..Len(flush.batch) : flush.batch[i] \in events'
  BY <1>1, <1>2, LenProperties DEF ToSet
<1>5. up
  BY <1>1 DEF TelemetryInv, SentIsFirst, Idle
<1>6. SentIsFirst'
  BY <1>1, <1>3, <1>4, <1>5 DEF TelemetryInv, SentIsFirst
<1> QED
  BY <1>1, <1>3, <1>6, FlushGoesOn

LEMMA RefuseHolds ==
  ASSUME TelemetryInv, RefuseBatch
  PROVE  TelemetryInv'
<1>1. /\ flush.stage = "sent" /\ flush' = [flush EXCEPT !.stage = "refused"]
      /\ UNCHANGED <<up, installed, prefs, disk, jobs, named, directives, live>>
  BY DEF RefuseBatch, server
<1>2. flush \in [stage: {"idle", "sent", "accepted", "refused"}, batch: Seq(Event), credential: Nat]
  BY DEF TelemetryInv, TelemetryTypes
<1>3. /\ flush' \in [stage: {"idle", "sent", "accepted", "refused"}, batch: Seq(Event), credential: Nat]
      /\ flush'.stage = "refused"
  BY <1>1, <1>2
<1>4. up
  BY <1>1 DEF TelemetryInv, SentIsFirst, Idle
<1>5. SentIsFirst'
  BY <1>1, <1>3, <1>4 DEF SentIsFirst
<1> QED
  BY <1>1, <1>3, <1>5, FlushGoesOn

LEMMA LateHolds ==
  ASSUME TelemetryInv, NEW r \in late, ServeLate(r)
  PROVE  TelemetryInv' /\ UNCHANGED prefs
<1>1. UNCHANGED <<up, installed, prefs, disk, jobs, flush, named, directives, live>> /\ events \subseteq events'
  BY DEF ServeLate, Ingest, device, server
<1>2. live' \in Nat
  BY <1>1 DEF TelemetryInv, TelemetryTypes
<1> QED
  BY <1>1, <1>2, DeviceRests

LEMMA TelemetryStep ==
  ASSUME TelemetryInv, [Next]_vars
  PROVE  TelemetryInv'
<1>1. CASE \E u \in Releases \union {installed} : Boot(u)
  BY <1>1, BootHolds
<1>2. CASE (\E u \in Releases \union {installed, None} : Notice(u)) \/ SeeRollback
  BY <1>2, PostingHolds
<1>3. CASE RunEmit \/ RunSelected \/ RunRollbackSeen
  BY <1>3, RunEmitHolds, RunSelectedHolds, RunRollbackSeenHolds
<1>4. CASE StartFlush \/ FinishFlush \/ WriteDisk
  BY <1>4, StartFlushHolds, FinishTakes, WriteDiskHolds
<1>5. CASE RetryLater \/ Timeout
  BY <1>5, FlushEnds DEF RetryLater, Timeout, server
<1>6. CASE Kill \/ \E u \in Embedded : Upgrade(u)
  BY <1>6, DieHolds DEF Kill, Upgrade, TelemetryInv, TelemetryTypes
<1>7. CASE Enroll \/ AcceptBatch \/ RefuseBatch \/ \E r \in late : ServeLate(r)
  BY <1>7, EnrollHolds, AcceptHolds, RefuseHolds, LateHolds
<1>8. CASE UNCHANGED vars
  <2>1. live' \in Nat /\ events' = events
        /\ UNCHANGED <<up, installed, prefs, disk, jobs, flush, named, directives>>
    BY <1>8 DEF vars, device, server, TelemetryInv, TelemetryTypes
  <2> QED
    BY <2>1, DeviceRests
<1> QED
  BY <1>1, <1>2, <1>3, <1>4, <1>5, <1>6, <1>7, <1>8 DEF Next, Executor

\* An event leaves the queue of a running process only when the executor drops the oldest
\* one, or when a flush whose batch was accepted ends.
LEMMA QueueLoses ==
  ASSUME TelemetryInv, [Next]_vars, up, up',
         NEW e \in ToSet(prefs.queue), e \notin ToSet(prefs'.queue)
  PROVE  e \in events \/ (e = Head(prefs.queue) /\ Len(prefs.queue) = QueueMax)
<1>1. prefs'.queue # prefs.queue
  OBVIOUS
<1>2. prefs \in Preferences
  BY DEF TelemetryInv, TelemetryTypes
<1>3. \A u : ~Boot(u)
  BY DEF Boot
<1>4. CASE RunEmit
  <2>1. PICK o \in Event : prefs' = [prefs EXCEPT !.queue = Enqueue(@, o)]
    <3>1. PICK t \in Times : prefs' = [prefs EXCEPT !.queue = Enqueue(@,
              [id |-> named + 1, type |-> Head(jobs).type, update |-> Head(jobs).update, time |-> t])]
      BY <1>4, TimesOfType DEF RunEmit
    <3>2. jobs # <<>> /\ named \in Nat
      BY <1>4 DEF RunEmit, TelemetryInv, TelemetryTypes
    <3>3. [id |-> named + 1, type |-> Head(jobs).type, update |-> Head(jobs).update, time |-> t] \in Event
      BY <3>2, FirstJob DEF Job, Event
    <3> QED
      BY <3>1, <3>3
  <2>2. prefs.queue \in Seq(Event) /\ Len(prefs.queue) <= QueueMax
    BY DEF TelemetryInv, TelemetryTypes, Preferences
  <2>3. prefs'.queue = Enqueue(prefs.queue, o)
    BY <1>2, <2>1 DEF Preferences
  <2> QED
    BY <2>2, <2>3, EnqueueKeeps
<1>5. CASE FinishFlush
  BY <1>5, FinishTakes
<1>6. CASE RunSelected \/ RunRollbackSeen
  BY <1>1, <1>2, <1>6 DEF RunSelected, AfterSelection, RunRollbackSeen, Preferences
<1>7. CASE Enroll
  BY <1>1, <1>7, EnrollHolds
<1>8. CASE \/ (\E u \in Releases \union {installed, None} : Notice(u)) \/ SeeRollback
           \/ StartFlush \/ RetryLater \/ WriteDisk \/ Timeout \/ AcceptBatch \/ RefuseBatch
           \/ (\E r \in late : ServeLate(r)) \/ UNCHANGED vars
  BY <1>1, <1>8 DEF Notice, SeeRollback, StartFlush, RetryLater, WriteDisk, Timeout, AcceptBatch, RefuseBatch,
     ServeLate, vars, device
<1>9. CASE Kill \/ \E u \in Embedded : Upgrade(u)
  BY <1>9 DEF Kill, Upgrade, Die
<1> QED
  BY <1>3, <1>4, <1>5, <1>6, <1>7, <1>8, <1>9 DEF Next, Executor

-----------------------------------------------------------------------------
(* The active release *)

\* The release a is the one that the activations among these events make active.
Newest(a, S) ==
  /\ (a = Never) <=> (\A e \in S : e.type # "update_activated")
  /\ a = Never \/ \E e \in S : e.type = "update_activated" /\ a = [update |-> ReleaseOf(e), time |-> e.time]
  /\ \A e \in S : e.type = "update_activated" => e.time <= a.time

\* The server has events, and its active release is the newest.
RowsInv ==
  /\ events \subseteq Event
  /\ \A r \in late : r.batch \in Seq(Event)
  /\ Newest(activeRelease, events)

\* What holds at first, and after each step if it held before, holds throughout.
LEMMA StepByStep ==
  ASSUME NEW n \in Nat, NEW T, 0 \in T, \A i \in 1..n : i - 1 \in T => i \in T
  PROVE  0..n \subseteq T
<1> SUFFICES ASSUME (0..n) \ T # {} PROVE FALSE
  OBVIOUS
<1>1. PICK i \in (0..n) \ T : \A j \in (0..n) \ T : <<j, i>> \notin OpToRel(<, Nat)
  <2>1. (0..n) \ T \subseteq Nat
    OBVIOUS
  <2> QED
    BY <2>1, WFMin, NatLessThanWellFounded, Zenon
<1>2. i \in 1..n /\ i - 1 \in (0..n) \ T
  OBVIOUS
<1>3. <<i - 1, i>> \in OpToRel(<, Nat)
  BY <1>2 DEF OpToRel
<1> QED
  BY <1>1, <1>2, <1>3, Zenon

\* The row that an event leaves.
Row(a, e) ==
  IF e \notin events /\ Newer(a, e) THEN [update |-> ReleaseOf(e), time |-> e.time] ELSE a

LEMMA ActiveAfterEachIs ==
  ASSUME NEW batch \in Seq(Event)
  PROVE  /\ ActiveAfterEach(batch)[0] = activeRelease
         /\ \A i \in 1..Len(batch) : ActiveAfterEach(batch)[i] = Row(ActiveAfterEach(batch)[i - 1], batch[i])
<1> DEFINE n == Len(batch)
           Follows(f, k) == f = [i \in 0..k |-> IF i = 0 THEN activeRelease ELSE Row(f[i - 1], batch[i])]
           T == {k \in 0..n : \E f : Follows(f, k)}
<1>1. n \in Nat
  BY LenProperties
<1>2. 0 \in T
  <2>1. Follows([i \in 0..0 |-> activeRelease], 0)
    OBVIOUS
  <2> HIDE DEF Follows
  <2> QED
    BY <1>1, <2>1
<1>3. ASSUME NEW k \in 1..n, k - 1 \in T PROVE k \in T
  <2>1. PICK f : Follows(f, k - 1)
    BY <1>3
  <2> DEFINE g == [i \in 0..k |-> IF i = k THEN Row(f[k - 1], batch[k]) ELSE f[i]]
  <2>2. \A i \in 0..k : g[i] = IF i = 0 THEN activeRelease ELSE Row(g[i - 1], batch[i])
    <3> SUFFICES ASSUME NEW i \in 0..k
                 PROVE g[i] = IF i = 0 THEN activeRelease ELSE Row(g[i - 1], batch[i])
      OBVIOUS
    <3>1. CASE i = k
      <4>1. g[i] = Row(f[k - 1], batch[k]) /\ g[k - 1] = f[k - 1] /\ k # 0
        BY <3>1
      <4> QED
        BY <3>1, <4>1
    <3>2. CASE i # k
      <4>1. i \in 0..(k - 1) /\ g[i] = f[i] /\ (i # 0 => g[i - 1] = f[i - 1])
        BY <3>2
      <4>2. f[i] = IF i = 0 THEN activeRelease ELSE Row(f[i - 1], batch[i])
        BY <2>1, <4>1
      <4> QED
        BY <4>1, <4>2
    <3> QED
      BY <3>1, <3>2
  <2>3. Follows(g, k)
    BY <2>2
  <2> HIDE DEF Follows, g
  <2> QED
    BY <1>1, <2>3
<1>4. n \in T
  <2> HIDE DEF T
  <2>1. 0..n \subseteq T
    BY <1>1, <1>2, <1>3, StepByStep
  <2> QED
    BY <1>1, <2>1
<1>5. \E f : Follows(f, n)
  BY <1>4
<1>6. ActiveAfterEach(batch) = CHOOSE f : Follows(f, n)
  BY DEF ActiveAfterEach, Row
<1>7. Follows(ActiveAfterEach(batch), n)
  <2> HIDE DEF Follows
  <2> QED
    BY <1>5, <1>6
<1> QED
  BY <1>1, <1>7

\* After one more event the active release is the newest, whether the event is new or not.
LEMMA RowNewest ==
  ASSUME NEW S \in SUBSET Event, events \subseteq S, NEW a, Newest(a, S), NEW e \in Event
  PROVE  Newest(Row(a, e), S \union {e})
<1>1. e.time \in Times /\ e.time \in Nat /\ e.time # None
  BY TelemetryAssumption DEF Event
<1>2. \A d \in S : d.time \in Nat /\ d.time # None
  BY TelemetryAssumption DEF Event
<1>3. Never.time = None /\ \A d \in S : [update |-> ReleaseOf(d), time |-> d.time].time = d.time
  BY DEF Never
<1>4. CASE e \in S
  <2>1. S \union {e} = S
    BY <1>4
  <2>2. ~Newer(a, e)
    BY <1>1, <1>2, <1>3, <1>4 DEF Newest, Newer
  <2> QED
    BY <2>1, <2>2 DEF Row
<1>5. CASE e \notin S /\ e.type # "update_activated"
  <2>1. Row(a, e) = a
    BY <1>5 DEF Row, Newer
  <2> QED
    BY <1>5, <2>1 DEF Newest
<1>6. CASE e \notin S /\ e.type = "update_activated"
  <2>1. CASE a = Never
    <3>1. Row(a, e) = [update |-> ReleaseOf(e), time |-> e.time]
      BY <1>3, <1>6, <2>1 DEF Row, Newer
    <3>2. Row(a, e) # Never /\ Row(a, e).time = e.time
      BY <1>1, <1>3, <3>1
    <3> QED
      BY <1>1, <1>6, <2>1, <3>1, <3>2 DEF Newest
  <2>2. CASE a # Never
    <3>1. PICK d \in S : d.type = "update_activated" /\ a = [update |-> ReleaseOf(d), time |-> d.time]
      BY <2>2 DEF Newest
    <3>2. a.time = d.time /\ a.time \in Nat /\ a.time # None
      BY <1>2, <3>1
    <3>3. CASE a.time < e.time
      <4>1. Row(a, e) = [update |-> ReleaseOf(e), time |-> e.time]
        BY <1>6, <3>3 DEF Row, Newer
      <4>2. Row(a, e) # Never /\ Row(a, e).time = e.time
        BY <1>1, <1>3, <4>1
      <4>3. \A c \in S \union {e} : c.type = "update_activated" => c.time <= e.time
        BY <1>1, <1>2, <3>2, <3>3 DEF Newest
      <4> QED
        BY <1>6, <4>1, <4>2, <4>3 DEF Newest
    <3>4. CASE ~(a.time < e.time)
      <4>1. Row(a, e) = a
        BY <3>2, <3>4 DEF Row, Newer
      <4>2. e.time <= a.time
        BY <1>1, <3>2, <3>4
      <4> QED
        BY <2>2, <3>1, <4>1, <4>2 DEF Newest
    <3> QED
      BY <3>3, <3>4
  <2> QED
    BY <2>1, <2>2
<1> QED
  BY <1>4, <1>5, <1>6

\* So it is after a batch, whatever the batch repeats and in whatever order it comes.
LEMMA BatchNewest ==
  ASSUME RowsInv, NEW batch \in Seq(Event), Ingest(batch)
  PROVE  events' \subseteq Event /\ Newest(activeRelease, events)'
<1> DEFINE n == Len(batch)
           After == ActiveAfterEach(batch)
           Has(i) == events \union {batch[j] : j \in 1..i}
           T == {i \in 0..n : Newest(After[i], Has(i))}
<1>1. n \in Nat /\ \A i \in 1..n : batch[i] \in Event
  BY LenProperties
<1>2. After[0] = activeRelease /\ \A i \in 1..n : After[i] = Row(After[i - 1], batch[i])
  BY ActiveAfterEachIs
<1>3. 0 \in T
  <2>1. Has(0) = events
    OBVIOUS
  <2>2. Newest(After[0], Has(0))
    BY <1>2, <2>1 DEF RowsInv
  <2> HIDE DEF Has, After
  <2> QED
    BY <1>1, <2>2
<1>4. ASSUME NEW i \in 1..n, i - 1 \in T PROVE i \in T
  <2>1. Has(i) = Has(i - 1) \union {batch[i]}
    BY <1>1
  <2>2. Has(i - 1) \in SUBSET Event /\ events \subseteq Has(i - 1)
    BY <1>1 DEF RowsInv
  <2>3. Newest(After[i - 1], Has(i - 1))
    BY <1>4
  <2> HIDE DEF Has, After
  <2>4. Newest(Row(After[i - 1], batch[i]), Has(i - 1) \union {batch[i]})
    BY <1>1, <2>2, <2>3, RowNewest
  <2>5. After[i] = Row(After[i - 1], batch[i]) /\ i \in 0..n
    BY <1>2
  <2> QED
    BY <2>1, <2>4, <2>5
<1>5. Newest(After[n], Has(n))
  <2>1. n \in T
    <3> HIDE DEF T
    <3>1. 0..n \subseteq T
      BY <1>1, <1>3, <1>4, StepByStep
    <3> QED
      BY <1>1, <3>1
  <2> QED
    BY <2>1
<1>6. events' = Has(n) /\ activeRelease' = After[n]
  <2>1. DOMAIN batch = 1..n
    BY LenProperties
  <2>2. ToSet(batch) = {batch[j] : j \in 1..n}
    BY <2>1 DEF ToSet
  <2> QED
    BY <2>2 DEF Ingest
<1>7. Has(n) \subseteq Event
  BY <1>1 DEF RowsInv
<1> HIDE DEF Has, After
<1> QED
  BY <1>5, <1>6, <1>7 DEF Newest, ReleaseOf
LEMMA NewestIsActive == Newest(activeRelease, events) => ActiveIsNewest
  BY DEF Newest, ActiveIsNewest

LEMMA InitRows == Init => RowsInv
  BY DEF Init, RowsInv, Newest

LEMMA RowsStay ==
  ASSUME RowsInv, UNCHANGED <<events, activeRelease>>, \A r \in late' : r.batch \in Seq(Event)
  PROVE  RowsInv'
  BY DEF RowsInv, Newest, ReleaseOf
\* A request, when it is given up on or served, has a batch of events.
LEMMA RowsHold ==
  ASSUME TelemetryInv, RowsInv, [Next]_vars
  PROVE  RowsInv'
<1>1. flush.batch \in Seq(Event)
  BY DEF TelemetryInv, TelemetryTypes
<1>2. CASE AcceptBatch
  <2>1. late' = late /\ Ingest(flush.batch)
    BY <1>2 DEF AcceptBatch
  <2> QED
    BY <1>1, <2>1, BatchNewest DEF RowsInv
<1>3. CASE \E r \in late : ServeLate(r)
  <2>1. PICK r \in late : ServeLate(r)
    BY <1>3
  <2>2. late' \subseteq late /\ r.batch \in Seq(Event)
    BY <2>1 DEF ServeLate, RowsInv
  <2>3. CASE Ingest(r.batch)
    BY <2>2, <2>3, BatchNewest DEF RowsInv
  <2>4. CASE UNCHANGED server
    BY <2>2, <2>4, RowsStay DEF server, RowsInv
  <2> QED
    BY <2>1, <2>3, <2>4 DEF ServeLate
<1>4. CASE Timeout \/ Kill \/ \E u \in Embedded : Upgrade(u)
  <2>1. UNCHANGED <<events, activeRelease>> /\ late' \in {late, GivenUp}
    BY <1>4 DEF Timeout, Kill, Upgrade, Die, server
  <2>2. \A r \in GivenUp : r.batch \in Seq(Event)
    BY <1>1 DEF GivenUp, RowsInv
  <2> QED
    BY <2>1, <2>2, RowsStay DEF RowsInv
<1>5. CASE \/ \E u \in Releases \union {installed} : Boot(u)
           \/ \E u \in Releases \union {installed, None} : Notice(u)
           \/ SeeRollback \/ Executor \/ WriteDisk \/ Enroll \/ RefuseBatch
           \/ UNCHANGED vars
  <2>1. UNCHANGED <<events, activeRelease, late>>
    BY <1>5 DEF Boot, Notice, SeeRollback, Executor, RunEmit, RunSelected, RunRollbackSeen,
                StartFlush, FinishFlush, RetryLater, WriteDisk, Enroll, RefuseBatch, vars, server
  <2> QED
    BY <2>1, RowsStay DEF RowsInv
<1> QED
  BY <1>2, <1>3, <1>4, <1>5 DEF Next

-----------------------------------------------------------------------------
(* What telemetry promises *)

\* Whatever a device does, loses and sends, its batches are what its queue begins with and its
\* reports of rollbacks are counted.
THEOREM TelemetryInvariance == Spec => []TelemetryInv
<1>1. Init => TelemetryInv
  BY InitTelemetry
<1>2. TelemetryInv /\ [Next]_vars => TelemetryInv'
  BY TelemetryStep
<1> QED
  BY <1>1, <1>2, PTL DEF Spec

\* Whatever is retried, given up on, served late or lost with its answer, a running process
\* gives up an event only to the server or, at the limit, the oldest one.
THEOREM RemovedCounted == Spec => RemovedIsCounted
<1>1. TelemetryInv /\ [Next]_vars =>
        [up /\ up' => \A e \in ToSet(prefs.queue) \ ToSet(prefs'.queue) :
           e \in events \/ (e = Head(prefs.queue) /\ Len(prefs.queue) = QueueMax)]_vars
  BY QueueLoses
<1> QED
  BY <1>1, TelemetryInvariance, PTL DEF Spec, RemovedIsCounted

\* However processes die between a directive, its intent and its report, what is on disk
\* never reports more rollbacks than there were directives.
THEOREM RollbackOnce == Spec => []RollbackSurvivesOnce
<1>1. TelemetryInv => RollbackSurvivesOnce
  <2> SUFFICES ASSUME TelemetryInv PROVE RollbackSurvivesOnce
    OBVIOUS
  <2>1. disk \in Preferences /\ directives \in Nat
    BY DEF TelemetryInv, TelemetryTypes
  <2>2. disk.queue \in Seq(Event) /\ disk.rollback \in BOOLEAN
    BY <2>1 DEF Preferences
  <2>3. \A i \in DOMAIN disk.queue : disk.queue[i] \in Event
    BY <2>2, LenProperties
  <2>4. Places(disk.queue, Reporting) = {i \in DOMAIN disk.queue : disk.queue[i].type = "rollback_applied"}
    BY <2>3 DEF Places, Reporting
  <2>5. Count(disk.queue, Reporting) \in Nat
    BY <2>2, CountType
  <2>6. Count(disk.queue, Reporting) + 0 + Flag(disk.rollback) <= directives
    BY CountEmpty DEF TelemetryInv, RollbacksCounted, Owed
  <2> QED
    BY <2>2, <2>4, <2>5, <2>6 DEF RollbackSurvivesOnce, Count, Flag
<1> QED
  BY <1>1, TelemetryInvariance, PTL

\* Whatever is retried, served late or ingested out of order, for any batches and times, the
\* active release is the one that the latest activation by the device's clock names.
THEOREM NewestActive == Spec => []ActiveIsNewest
<1>1. Init => TelemetryInv /\ RowsInv
  BY InitTelemetry, InitRows
<1>2. TelemetryInv /\ RowsInv /\ [Next]_vars => TelemetryInv' /\ RowsInv'
  BY TelemetryStep, RowsHold
<1>3. RowsInv => ActiveIsNewest
  BY NewestIsActive DEF RowsInv
<1> QED
  BY <1>1, <1>2, <1>3, PTL DEF Spec
=============================================================================
