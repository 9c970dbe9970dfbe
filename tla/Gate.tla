--------------------------------- MODULE Gate ---------------------------------
(***************************************************************************)
(* The required gate of a release (ci/run.py, gates.py, combine.py and the *)
(* two workflows around them).  Three jobs build and test one commit on    *)
(* runners of their own; each reads back the reports of its test suites    *)
(* and leaves a receipt, result.json or failure.json, which the workflow   *)
(* uploads under the number of the attempt.  An aggregate job requires all *)
(* three, and only then is the SDK candidate signed.                       *)
(*                                                                         *)
(* Between its steps a job may be told to stop, which runs its handlers,   *)
(* or lose its machine, which does not.  Failed or all jobs may be run     *)
(* again.  Everything here is of one commit: the workflow checks it out    *)
(* by its hash in every job and compares it in every receipt.              *)
(***************************************************************************)
EXTENDS Naturals, FiniteSets

CONSTANTS
  Tests,        \* tests of a suite
  Outcomes,     \* of each job: what its suites may do, [result, whole]
  Required,     \* of each job: tests its manifest names
  Allowed,      \* of each job: the tests it must skip
  Minimum,      \* of each job: the number of tests that must pass
  MaxAttempts,  \* bound: attempts of the workflow
  MaxSignals,   \* bound: requests to stop and lost machines
  None

Jobs == {"sdk", "server", "security"}

\* result: "pass", "fail", "skip", "cut" (started, never reported) or "absent" of each
\* test; whole: plan, summary and counts (TAP, JUnit) or the package's end (Go) are there.
\* The manifest names no test of a Go suite, and allows no other suite to skip one.
ASSUME GateAssumption ==
  /\ MaxAttempts \in Nat \ {0} /\ MaxSignals \in Nat
  /\ \A j \in Jobs : \A o \in Outcomes[j] :
       o.result \in [Tests -> {"pass", "fail", "skip", "cut", "absent"}] /\ o.whole \in BOOLEAN
  /\ Required["server"] = {} /\ Allowed["sdk"] = {} /\ Allowed["security"] = {}

VARIABLES
  attempt,   \* the workflow run's attempt
  began,     \* the attempt in which each job last ran
  step,      \* where each job is
  outcome,   \* what its suites really did
  fresh,     \* the reports where the suites wrote them
  kept,      \* the snapshot that staging and reclaiming leave alone
  projects,  \* TRUE while the disposable deployments of the acceptance exist
  out,       \* the evidence directory
  trouble,   \* TRUE once something really went wrong in the job
  evidence,  \* uploaded artifacts by attempt and job, None when there is none
  required,  \* the aggregate job
  signed,    \* the attempt whose candidate was signed
  signals    \* requests to stop and lost machines so far

work == <<fresh, kept, projects>>
workflow == <<attempt, began, evidence, required, signed>>
vars == <<work, workflow, step, outcome, out, trouble, signals>>

Attempts == 1 .. MaxAttempts

Steps == [sdk |-> {"suites", "snapshot", "stage", "reclaim", "consumer"},
          server |-> {"suites", "acceptance", "accepting", "down", "undo"},
          security |-> {"suites"}]

\* Inside run()'s try block, and everything before the process has ended.
Trying == {"verify", "export", "receipt", "status"} \union UNION {Steps[j] : j \in Jobs}
Running == Trying \union {"failing", "cleaning"}
Ended == {"passed", "failed", "lost"}

Init ==
  /\ attempt = 1
  /\ began = [j \in Jobs |-> 1]
  /\ step = [j \in Jobs |-> "suites"]
  /\ outcome = [j \in Jobs |-> None]
  /\ fresh = [j \in Jobs |-> None]
  /\ kept = None
  /\ projects = FALSE
  /\ out = [j \in Jobs |-> {}]
  /\ trouble = [j \in Jobs |-> FALSE]
  /\ evidence = [a \in Attempts |-> [j \in Jobs |-> None]]
  /\ required = "waiting"
  /\ signed = None
  /\ signals = 0

Goto(j, place) == step' = [step EXCEPT ![j] = place]

\* A step that succeeds leads to the next, one that fails to the failure receipt.
Advance(j, succeeds, place) ==
  /\ Goto(j, IF succeeds THEN place ELSE "failing")
  /\ UNCHANGED <<out, workflow, signals>>

-----------------------------------------------------------------------------
(* gates.py *)

Ran(o, results) == {t \in Tests : o.result[t] \in results}

\* Faulty variant: tests that were started and never reported are not missed.
GoSuiteCut(j, o) ==
  /\ Ran(o, {"fail"}) = {}
  /\ o.whole /\ Ran(o, {"pass", "skip", "cut"}) # {}
  /\ Ran(o, {"skip"}) = Allowed[j]
  /\ Cardinality(Ran(o, {"pass"})) >= Minimum[j]

\* A Go stream: nothing failed, all that started ended, and exactly the allowed skips.
GoSuite(j, o) ==
  /\ Ran(o, {"fail"}) = {} /\ Ran(o, {"cut"}) = {}
  /\ o.whole /\ Ran(o, {"pass", "skip"}) # {}
  /\ Ran(o, {"skip"}) = Allowed[j]
  /\ Cardinality(Ran(o, {"pass"})) >= Minimum[j]

\* TAP and JUnit: complete, nothing failed or skipped, every named test or class present.
PlainSuite(j, o) ==
  /\ o.whole
  /\ Ran(o, {"fail", "skip", "cut"}) = {}
  /\ Required[j] \subseteq Ran(o, {"pass"})
  /\ Cardinality(Ran(o, {"pass"})) >= Minimum[j]

Suite(j, o) == o # None /\ IF j = "server" THEN GoSuite(j, o) ELSE PlainSuite(j, o)

-----------------------------------------------------------------------------
(* run.py: the steps of a job *)

\* Fresh checkout, empty caches, suites and build; a failing command ends the job even when
\* a report looks well, and a passing one may leave any report.
RunSuites(j) ==
  /\ step[j] = "suites"
  /\ \E o \in Outcomes[j], succeeds \in BOOLEAN :
       /\ outcome' = [outcome EXCEPT ![j] = o]
       /\ fresh' = [fresh EXCEPT ![j] = o]
       /\ trouble' = [trouble EXCEPT ![j] = ~succeeds \/ ~Suite(j, o)]
       /\ Advance(j, succeeds,
            CASE j = "sdk" -> "snapshot" [] j = "server" -> "acceptance" [] OTHER -> "verify")
  /\ UNCHANGED <<kept, projects>>

\* The reports are copied, never over an earlier copy, and verified.
Snapshot ==
  /\ step["sdk"] = "snapshot"
  /\ kept' = IF kept = None THEN fresh["sdk"] ELSE kept
  /\ Advance("sdk", kept = None /\ Suite("sdk", fresh["sdk"]), "stage")
  /\ UNCHANGED <<outcome, fresh, projects, trouble>>

\* stage.sh reinstalls the producer's packages, which removes the reports inside them.
Stage ==
  /\ step["sdk"] = "stage"
  /\ \E succeeds \in BOOLEAN :
       /\ Advance("sdk", succeeds, "reclaim")
       /\ trouble' = [trouble EXCEPT !["sdk"] = @ \/ ~succeeds]
  /\ fresh' = [fresh EXCEPT !["sdk"] = None]
  /\ UNCHANGED <<outcome, kept, projects>>

\* Faulty variant: everything that git does not track is removed.
ReclaimAll ==
  /\ step["sdk"] = "reclaim"
  /\ fresh' = [fresh EXCEPT !["sdk"] = None]
  /\ kept' = None
  /\ Advance("sdk", TRUE, "consumer")
  /\ UNCHANGED <<outcome, projects, trouble>>

\* Ignored outputs and the producer's caches go, the reports stay.
Reclaim ==
  /\ step["sdk"] = "reclaim"
  /\ fresh' = [fresh EXCEPT !["sdk"] = None]
  /\ Advance("sdk", TRUE, "consumer")
  /\ UNCHANGED <<outcome, kept, projects, trouble>>

\* Enough free disk, the isolated consumer, and the versions of everything staged.
Consumer ==
  /\ step["sdk"] = "consumer"
  /\ \E succeeds \in BOOLEAN :
       /\ Advance("sdk", succeeds, "verify")
       /\ trouble' = [trouble EXCEPT !["sdk"] = @ \/ ~succeeds]
  /\ UNCHANGED <<outcome, work>>

\* deploy/acceptance.py: two disposable deployments, one restored from the other's backup.
BeginAcceptance ==
  /\ step["server"] = "acceptance"
  /\ projects' = TRUE
  /\ Goto("server", "accepting")
  /\ UNCHANGED <<outcome, fresh, kept, out, trouble, workflow, signals>>

Accept ==
  /\ step["server"] = "accepting"
  /\ \E succeeds \in BOOLEAN :
       /\ Goto("server", IF succeeds THEN "down" ELSE "undo")
       /\ trouble' = [trouble EXCEPT !["server"] = @ \/ ~succeeds]
  /\ UNCHANGED <<outcome, work, out, workflow, signals>>

\* Its receipt is exported only when every deployment was removed.
TakeDown ==
  /\ step["server"] = "down"
  /\ \E succeeds \in BOOLEAN :
       /\ projects' = ~succeeds
       /\ trouble' = [trouble EXCEPT !["server"] = @ \/ ~succeeds]
       /\ Advance("server", succeeds, "verify")
  /\ UNCHANGED <<outcome, fresh, kept>>

\* A failing or interrupted acceptance removes them all the same, and exports nothing.
Undo ==
  /\ step["server"] = "undo"
  /\ projects' \in BOOLEAN
  /\ Goto("server", "failing")
  /\ UNCHANGED <<outcome, fresh, kept, out, trouble, workflow, signals>>

\* All suites of the job again, from the reports that are there now.
Verify(j) ==
  /\ step[j] = "verify"
  /\ Advance(j, Suite(j, IF j = "sdk" THEN kept ELSE fresh[j]), "export")
  /\ UNCHANGED <<outcome, work, trouble>>

\* The candidate and the other exported files.
Export(j) ==
  /\ step[j] = "export"
  /\ out' = [out EXCEPT ![j] = @ \union {"candidate"}]
  /\ Goto(j, "receipt")
  /\ UNCHANGED <<outcome, work, trouble, workflow, signals>>

WriteResult(j) ==
  /\ step[j] = "receipt"
  /\ out' = [out EXCEPT ![j] = @ \union {"result"}]
  /\ Goto(j, "status")
  /\ UNCHANGED <<outcome, work, trouble, workflow, signals>>

ReportPass(j) ==
  /\ step[j] = "status"
  /\ Goto(j, "cleaning")
  /\ UNCHANGED <<outcome, work, out, trouble, workflow, signals>>

WriteFailure(j) ==
  /\ step[j] = "failing"
  /\ out' = [out EXCEPT ![j] = @ \union {"failure"}]
  /\ Goto(j, "cleaning")
  /\ UNCHANGED <<outcome, work, trouble, workflow, signals>>

\* The workspace is removed, and the process exits.
CleanUp(j) ==
  /\ step[j] = "cleaning"
  /\ Goto(j, IF "failure" \in out[j] THEN "failed" ELSE "passed")
  /\ UNCHANGED <<outcome, work, out, trouble, workflow, signals>>

\* Where a job goes when it is told to stop: to its handler, or out of the handler it is
\* in.  A command in progress is stopped first; the acceptance then removes its deployments,
\* unless that is what was interrupted, or takes more than a minute.
AfterSignal(j) ==
  CASE step[j] = "accepting" -> {"undo", "failing"}
    [] step[j] \in Trying \ {"accepting"} -> {"failing"}
    [] OTHER -> {"failed"}

Interrupt(j) ==
  /\ step[j] \in Running /\ signals < MaxSignals
  /\ signals' = signals + 1
  /\ trouble' = [trouble EXCEPT ![j] = TRUE]
  /\ \E place \in AfterSignal(j) : Goto(j, place)
  /\ UNCHANGED <<outcome, work, out, workflow>>

\* The machine is lost, with all that is on it.
Lose(j) ==
  /\ step[j] \in Running /\ signals < MaxSignals
  /\ signals' = signals + 1
  /\ Goto(j, "lost")
  /\ projects' = IF j = "server" THEN FALSE ELSE projects
  /\ trouble' = [trouble EXCEPT ![j] = TRUE]
  /\ UNCHANGED <<outcome, fresh, kept, out, workflow>>

-----------------------------------------------------------------------------
(* The workflows and combine.py *)

\* Always, also after a failure: whatever the evidence directory holds.
Upload(j) ==
  /\ step[j] \in {"passed", "failed"} /\ out[j] # {}
  /\ began[j] = attempt /\ evidence[attempt][j] = None
  /\ evidence' = [evidence EXCEPT ![attempt][j] = out[j]]
  /\ UNCHANGED <<attempt, began, step, outcome, work, out, trouble, required, signed, signals>>

HasResult(a, j) == evidence[a][j] # None /\ "result" \in evidence[a][j]

\* Faulty variant: receipts are enough.
AllSucceeded == \A j \in Jobs : HasResult(attempt, j)

\* Every matrix job succeeded, and each left its receipt under this attempt.
AllPassed == \A j \in Jobs : step[j] = "passed" /\ HasResult(attempt, j)

Uploaded(j) == step[j] = "lost" \/ out[j] = {} \/ evidence[began[j]][j] # None

\* The aggregate job runs whatever became of the others.
Combine ==
  /\ required = "waiting"
  /\ \A j \in Jobs : step[j] \in Ended /\ Uploaded(j)
  /\ required' = IF AllPassed THEN "success" ELSE "failure"
  /\ UNCHANGED <<attempt, began, step, outcome, work, out, trouble, evidence, signed, signals>>

\* Signs the candidate that the SDK job uploaded in this attempt.
Sign ==
  /\ required = "success" /\ signed = None
  /\ HasResult(attempt, "sdk") /\ "candidate" \in evidence[attempt]["sdk"]
  /\ signed' = attempt
  /\ UNCHANGED <<attempt, began, step, outcome, work, out, trouble, evidence, required, signals>>

\* The failed jobs, or all, start over on new machines; the others keep what they ended with.
Rerun ==
  /\ required = "failure" /\ attempt < MaxAttempts
  /\ attempt' = attempt + 1
  /\ required' = "waiting"
  /\ \E again \in {Jobs, {j \in Jobs : step[j] # "passed"}} :
       /\ began' = [j \in Jobs |-> IF j \in again THEN attempt' ELSE began[j]]
       /\ step' = [j \in Jobs |-> IF j \in again THEN "suites" ELSE step[j]]
       /\ outcome' = [j \in Jobs |-> IF j \in again THEN None ELSE outcome[j]]
       /\ fresh' = [j \in Jobs |-> IF j \in again THEN None ELSE fresh[j]]
       /\ kept' = IF "sdk" \in again THEN None ELSE kept
       /\ projects' = (projects /\ "server" \notin again)
       /\ out' = [j \in Jobs |-> IF j \in again THEN {} ELSE out[j]]
       /\ trouble' = [j \in Jobs |-> j \notin again /\ trouble[j]]
  /\ UNCHANGED <<evidence, signed, signals>>

-----------------------------------------------------------------------------
Next ==
  \/ \E j \in Jobs :
       \/ RunSuites(j) \/ Verify(j) \/ Export(j) \/ WriteResult(j) \/ ReportPass(j)
       \/ WriteFailure(j) \/ CleanUp(j) \/ Interrupt(j) \/ Lose(j) \/ Upload(j)
  \/ Snapshot \/ Stage \/ Reclaim \/ Consumer
  \/ BeginAcceptance \/ Accept \/ TakeDown \/ Undo
  \/ Combine \/ Sign \/ Rerun

Spec == Init /\ [][Next]_vars

-----------------------------------------------------------------------------
(* Properties *)

\* The suites of a job did what its manifest demands.
Sound(j, o) ==
  /\ Ran(o, {"fail", "cut"}) = {}
  /\ Ran(o, {"skip"}) = Allowed[j]
  /\ Required[j] \subseteq Ran(o, {"pass"})

\* A candidate is signed only when, in one attempt, every job ran to its end without any
\* trouble and its suites did what they must, whatever was interrupted, lost or run again.
SignsOnlyGated ==
  signed # None =>
    \A j \in Jobs :
      /\ began[j] = signed /\ ~trouble[j] /\ Sound(j, outcome[j])
      /\ evidence[signed][j] \in {{"candidate", "result"}}

\* A result receipt, even of a job that was stopped after it, is true: the suites did what
\* they must, and the disposable deployments are gone.
ResultIsTrue ==
  \A j \in Jobs : "result" \in out[j] =>
    Sound(j, outcome[j]) /\ (j = "server" => ~projects)

\* A job whose suites, commands and machine are in order passes: no step of its own takes
\* away what a later one reads.
NoSpuriousFailure ==
  \A j \in Jobs : step[j] \in {"failing", "failed"} => trouble[j]
=============================================================================
