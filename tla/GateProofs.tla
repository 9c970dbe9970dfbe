----------------------------- MODULE GateProofs -----------------------------
(***************************************************************************)
(* What the gate promises, for any suites, manifests, attempts, stops and  *)
(* lost machines.  Where a job is tells what its evidence directory holds  *)
(* and whether something went wrong (JobInv); what was uploaded under the  *)
(* present attempt is what the job of this attempt ended with              *)
(* (WorkflowInv), and nothing moves once the aggregate job has succeeded.  *)
(***************************************************************************)
EXTENDS Gate, TLAPS

\* The steps of a job before anything is exported.
Early(j) == Steps[j] \union {"verify", "export"}

Passed == {"candidate", "result"}

Files == {"candidate", "result", "failure"}

GateTypes ==
  /\ step \in [Jobs -> Running \union Ended]
  /\ outcome = [j \in Jobs |-> outcome[j]]
  /\ fresh = [j \in Jobs |-> fresh[j]]
  /\ out \in [Jobs -> SUBSET Files]
  /\ trouble \in [Jobs -> BOOLEAN]
  /\ projects \in BOOLEAN
  /\ attempt \in Attempts
  /\ began = [j \in Jobs |-> began[j]]
  /\ evidence = [a \in Attempts |-> [j \in Jobs |-> evidence[a][j]]]

\* What has been written so far.
Written(j) ==
  /\ step[j] \in Early(j) => out[j] = {}
  /\ step[j] = "receipt" => out[j] = {"candidate"}
  /\ step[j] \in {"status", "passed"} => out[j] = Passed
  /\ step[j] = "cleaning" => "failure" \in out[j] \/ out[j] = Passed

\* A job that has started is in trouble when its suites are not in order, and then never
\* gets past the verification of their reports.
Troubled(j) ==
  /\ step[j] \in {"failing", "failed", "lost", "undo"} => trouble[j]
  /\ step[j] = "cleaning" => (trouble[j] <=> "failure" \in out[j])
  /\ step[j] \in {"snapshot", "acceptance", "accepting", "down"} => (trouble[j] <=> ~Suite(j, outcome[j]))
  /\ step[j] = "verify" /\ j # "sdk" => (trouble[j] <=> ~Suite(j, outcome[j]))
  /\ step[j] \in {"stage", "reclaim", "consumer", "export", "receipt", "status", "passed"} =>
       ~trouble[j] /\ Suite(j, outcome[j])
  /\ step[j] = "verify" /\ j = "sdk" => ~trouble[j] /\ Suite(j, outcome[j])
  /\ "result" \in out[j] => Suite(j, outcome[j])

\* The reports that are yet to be read are the ones the suites wrote.
ReportsAreThere ==
  /\ \A j \in {"server", "security"} : step[j] \in Early(j) \ {"suites"} => fresh[j] = outcome[j]
  /\ step["sdk"] = "suites" => kept = None
  /\ step["sdk"] = "snapshot" => kept = None /\ fresh["sdk"] = outcome["sdk"]
  /\ step["sdk"] \in {"stage", "reclaim", "consumer", "verify"} => kept = outcome["sdk"]

\* The disposable deployments only exist while the acceptance is at work, or after trouble
\* that leaves no result.
ProjectsAreGone ==
  /\ step["server"] \in {"verify", "export", "receipt", "status", "passed"} => ~projects
  /\ "result" \in out["server"] => ~projects

JobInv == (\A j \in Jobs : Written(j) /\ Troubled(j)) /\ ReportsAreThere /\ ProjectsAreGone

WorkflowInv ==
  /\ \A a \in Attempts, j \in Jobs : a > attempt => evidence[a][j] = None
  /\ \A j \in Jobs : evidence[attempt][j] # None =>
       began[j] = attempt /\ step[j] \in {"passed", "failed"} /\ evidence[attempt][j] = out[j]
  /\ required = "success" => AllPassed
  /\ signed # None => signed = attempt /\ required = "success"

GInv == GateTypes /\ JobInv /\ WorkflowInv

-----------------------------------------------------------------------------
LEMMA PlacesDiffer ==
  /\ Steps["sdk"] = {"suites", "snapshot", "stage", "reclaim", "consumer"}
  /\ Steps["server"] = {"suites", "acceptance", "accepting", "down", "undo"}
  /\ Steps["security"] = {"suites"}
BY DEF Steps

\* Every place is one of these.
LEMMA AllPlaces ==
  /\ Running =
       {"suites", "snapshot", "stage", "reclaim", "consumer", "acceptance", "accepting", "down", "undo",
        "verify", "export", "receipt", "status", "failing", "cleaning"}
  /\ Trying = Running \ {"failing", "cleaning"}
  /\ Ended = {"passed", "failed", "lost"}
<1>1. UNION {Steps[j] : j \in Jobs} = Steps["sdk"] \union Steps["server"] \union Steps["security"]
  BY DEF Jobs
<1> QED
  BY <1>1, PlacesDiffer DEF Running, Trying, Ended

LEMMA InitGate == Init => GInv
<1> SUFFICES ASSUME Init PROVE GInv
  OBVIOUS
<1>1. 1 \in Attempts
  BY GateAssumption DEF Attempts
<1>2. GateTypes
  BY <1>1, AllPlaces DEF Init, GateTypes
<1>3. JobInv
  BY DEF Init, JobInv, Written, Troubled, ReportsAreThere, ProjectsAreGone, Early, Passed, Jobs
<1>4. WorkflowInv
  BY <1>1 DEF Init, WorkflowInv
<1> QED
  BY <1>2, <1>3, <1>4 DEF GInv

-----------------------------------------------------------------------------
\* A step of one job that has not ended: the others stay as they are, and so does all
\* that is said of the workflow, whose aggregate job still waits or has failed.
OneMoves(j) ==
  /\ step[j] \in Running
  /\ \E place \in Running \union Ended : Goto(j, place)
  /\ UNCHANGED workflow
  /\ out' \in [Jobs -> SUBSET Files] /\ trouble' \in [Jobs -> BOOLEAN] /\ projects' \in BOOLEAN
  /\ outcome' = [i \in Jobs |-> outcome'[i]] /\ fresh' = [i \in Jobs |-> fresh'[i]]
  /\ \A i \in Jobs \ {j} : /\ out'[i] = out[i] /\ trouble'[i] = trouble[i]
                           /\ outcome'[i] = outcome[i] /\ fresh'[i] = fresh[i]
  /\ j # "sdk" => kept' = kept
  /\ j # "server" => projects' = projects

LEMMA OthersStay ==
  ASSUME GInv, NEW j \in Jobs, OneMoves(j), Written(j)', Troubled(j)', ReportsAreThere', ProjectsAreGone'
  PROVE  GInv'
<1>1. PICK place \in Running \union Ended : Goto(j, place)
  BY DEF OneMoves
<1>2. step'[j] = place /\ \A i \in Jobs \ {j} : step'[i] = step[i]
  BY <1>1 DEF Goto, GInv, GateTypes
<1>3. GateTypes'
  BY <1>1 DEF GInv, GateTypes, Goto, OneMoves, workflow
<1>4. \A i \in Jobs \ {j} : Written(i)' /\ Troubled(i)'
  <2> TAKE i \in Jobs \ {j}
  <2>1. Written(i) /\ Troubled(i)
    BY DEF GInv, JobInv
  <2> QED
    BY <1>2, <2>1 DEF OneMoves, Written, Troubled
<1>5. JobInv'
  BY <1>4 DEF JobInv
<1>6. step[j] \notin {"passed", "failed"}
  BY AllPlaces DEF OneMoves
<1>7. WorkflowInv'
  <2>1. required # "success" /\ evidence[attempt][j] = None
    BY <1>6 DEF GInv, WorkflowInv, AllPassed
  <2> QED
    BY <1>2, <2>1 DEF GInv, WorkflowInv, OneMoves, workflow
<1> QED
  BY <1>3, <1>5, <1>7 DEF GInv

-----------------------------------------------------------------------------
(* The steps of a job *)

LEMMA RunSuitesHolds ==
  ASSUME GInv, NEW j \in Jobs, RunSuites(j)
  PROVE  GInv'
<1>1. PICK o \in Outcomes[j], succeeds \in BOOLEAN :
        /\ outcome' = [outcome EXCEPT ![j] = o]
        /\ fresh' = [fresh EXCEPT ![j] = o]
        /\ trouble' = [trouble EXCEPT ![j] = ~succeeds \/ ~Suite(j, o)]
        /\ Goto(j, IF succeeds
                   THEN CASE j = "sdk" -> "snapshot" [] j = "server" -> "acceptance" [] OTHER -> "verify"
                   ELSE "failing")
        /\ UNCHANGED <<out, workflow, signals>>
  BY DEF RunSuites, Advance
<1>2. step[j] = "suites" /\ out[j] = {} /\ UNCHANGED <<kept, projects>>
  BY PlacesDiffer DEF RunSuites, GInv, JobInv, Written, Early, Jobs
<1>3. /\ step'[j] \in {"failing", "snapshot", "acceptance", "verify"}
      /\ step'[j] = "failing" => trouble'[j]
      /\ step'[j] # "failing" => trouble'[j] = ~Suite(j, o)
      /\ step'[j] = "snapshot" => j = "sdk"
      /\ step'[j] = "acceptance" => j = "server"
      /\ step'[j] = "verify" => j = "security"
      /\ out'[j] = {} /\ outcome'[j] = o /\ fresh'[j] = o
      /\ \A i \in Jobs \ {j} : step'[i] = step[i] /\ outcome'[i] = outcome[i] /\ fresh'[i] = fresh[i]
  BY <1>1, <1>2 DEF Goto, GInv, GateTypes, Jobs
<1>4. OneMoves(j)
  BY <1>1, <1>2, <1>3, AllPlaces DEF OneMoves, Goto, GInv, GateTypes
<1>5. Written(j)' /\ Troubled(j)'
  BY <1>3 DEF Written, Troubled, Passed
<1>6. ReportsAreThere'
  BY <1>2, <1>3, PlacesDiffer DEF GInv, JobInv, ReportsAreThere, Early, Jobs
<1>7. ProjectsAreGone'
  BY <1>1, <1>2, <1>3 DEF GInv, JobInv, ProjectsAreGone, Jobs
<1> QED
  BY <1>4, <1>5, <1>6, <1>7, OthersStay

LEMMA SnapshotHolds ==
  ASSUME GInv, Snapshot
  PROVE  GInv'
<1>1. OneMoves("sdk")
  BY AllPlaces DEF OneMoves, work, workflow, Files, Jobs, Snapshot, Advance, Goto, GInv, GateTypes
<1>2. Written("sdk")' /\ Troubled("sdk")'
  BY PlacesDiffer DEF JobInv, Written, Troubled, ReportsAreThere, Early, Passed, work, Jobs, Snapshot, Advance, Goto, GInv, GateTypes
<1>3. ReportsAreThere'
  BY PlacesDiffer DEF JobInv, Troubled, ReportsAreThere, Early, work, Jobs, Snapshot, Advance, Goto, GInv, GateTypes
<1>4. ProjectsAreGone'
  BY PlacesDiffer DEF JobInv, Written, ProjectsAreGone, Early, Passed, work, Jobs, Snapshot, Advance, Goto, GInv, GateTypes
<1> QED
  BY <1>1, <1>2, <1>3, <1>4, OthersStay DEF Jobs

LEMMA StageHolds ==
  ASSUME GInv, Stage
  PROVE  GInv'
<1>1. PICK succeeds \in BOOLEAN :
        /\ step' = [step EXCEPT !["sdk"] = IF succeeds THEN "reclaim" ELSE "failing"]
        /\ trouble' = [trouble EXCEPT !["sdk"] = @ \/ ~succeeds]
  BY DEF Stage, Advance, Goto
<1>2. /\ step'["sdk"] = IF succeeds THEN "reclaim" ELSE "failing"
      /\ trouble'["sdk"] = (trouble["sdk"] \/ ~succeeds)
      /\ \A i \in Jobs \ {"sdk"} : step'[i] = step[i] /\ trouble'[i] = trouble[i]
      /\ trouble' \in [Jobs -> BOOLEAN]
  BY <1>1 DEF GInv, GateTypes, Jobs
<1>3. OneMoves("sdk")
  BY <1>1, <1>2, AllPlaces DEF OneMoves, work, workflow, Files, Jobs, Stage, Advance, Goto, GInv, GateTypes
<1>4. Written("sdk")' /\ Troubled("sdk")'
  BY <1>2, PlacesDiffer DEF JobInv, Written, Troubled, ReportsAreThere, Early, Passed, work, Jobs, Stage, Advance, GInv
<1>5. ReportsAreThere'
  BY <1>2, PlacesDiffer DEF JobInv, Troubled, ReportsAreThere, Early, work, Jobs, Stage, Advance, Goto, GInv, GateTypes
<1>6. ProjectsAreGone'
  BY <1>1, <1>2, PlacesDiffer DEF JobInv, Written, ProjectsAreGone, Early, work, Jobs, Stage, Advance, Goto, GInv, GateTypes
<1> QED
  BY <1>3, <1>4, <1>5, <1>6, OthersStay DEF Jobs

LEMMA ReclaimHolds ==
  ASSUME GInv, Reclaim
  PROVE  GInv'
<1>1. OneMoves("sdk")
  BY AllPlaces DEF OneMoves, work, workflow, Files, Jobs, Reclaim, Advance, Goto, GInv, GateTypes
<1>2. Written("sdk")' /\ Troubled("sdk")'
  BY PlacesDiffer DEF JobInv, Written, Troubled, ReportsAreThere, Early, Passed, work, Jobs, Reclaim, Advance, Goto, GInv, GateTypes
<1>3. ReportsAreThere'
  BY PlacesDiffer DEF JobInv, Troubled, ReportsAreThere, Early, work, Jobs, Reclaim, Advance, Goto, GInv, GateTypes
<1>4. ProjectsAreGone'
  BY PlacesDiffer DEF JobInv, Written, ProjectsAreGone, Early, Passed, work, Jobs, Reclaim, Advance, Goto, GInv, GateTypes
<1> QED
  BY <1>1, <1>2, <1>3, <1>4, OthersStay DEF Jobs

LEMMA ConsumerHolds ==
  ASSUME GInv, Consumer
  PROVE  GInv'
<1>1. PICK succeeds \in BOOLEAN :
        /\ step' = [step EXCEPT !["sdk"] = IF succeeds THEN "verify" ELSE "failing"]
        /\ trouble' = [trouble EXCEPT !["sdk"] = @ \/ ~succeeds]
  BY DEF Consumer, Advance, Goto
<1>2. /\ step'["sdk"] = IF succeeds THEN "verify" ELSE "failing"
      /\ trouble'["sdk"] = (trouble["sdk"] \/ ~succeeds)
      /\ \A i \in Jobs \ {"sdk"} : step'[i] = step[i] /\ trouble'[i] = trouble[i]
      /\ trouble' \in [Jobs -> BOOLEAN]
  BY <1>1 DEF GInv, GateTypes, Jobs
<1>3. OneMoves("sdk")
  BY <1>1, <1>2, AllPlaces DEF OneMoves, work, workflow, Files, Jobs, Consumer, Advance, Goto, GInv, GateTypes
<1>4. Written("sdk")' /\ Troubled("sdk")'
  BY <1>2, PlacesDiffer DEF JobInv, Written, Troubled, ReportsAreThere, Early, Passed, work, Jobs, Consumer, Advance, GInv
<1>5. ReportsAreThere'
  BY <1>2, PlacesDiffer DEF JobInv, Troubled, ReportsAreThere, Early, work, Jobs, Consumer, Advance, Goto, GInv, GateTypes
<1>6. ProjectsAreGone'
  BY <1>1, <1>2, PlacesDiffer DEF JobInv, Written, ProjectsAreGone, Early, work, Jobs, Consumer, Advance, Goto, GInv, GateTypes
<1> QED
  BY <1>3, <1>4, <1>5, <1>6, OthersStay DEF Jobs

LEMMA BeginAcceptanceHolds ==
  ASSUME GInv, BeginAcceptance
  PROVE  GInv'
<1>1. OneMoves("server")
  BY AllPlaces DEF OneMoves, work, workflow, Files, Jobs, BeginAcceptance, Advance, Goto, GInv, GateTypes
<1>2. Written("server")' /\ Troubled("server")'
  BY PlacesDiffer DEF JobInv, Written, Troubled, ReportsAreThere, Early, Passed, work, Jobs, BeginAcceptance, Advance, Goto, GInv, GateTypes
<1>3. ReportsAreThere'
  BY PlacesDiffer DEF JobInv, Troubled, ReportsAreThere, Early, work, Jobs, BeginAcceptance, Advance, Goto, GInv, GateTypes
<1>4. ProjectsAreGone'
  BY PlacesDiffer DEF JobInv, Written, ProjectsAreGone, Early, Passed, work, Jobs, BeginAcceptance, Advance, Goto, GInv, GateTypes
<1> QED
  BY <1>1, <1>2, <1>3, <1>4, OthersStay DEF Jobs

LEMMA AcceptHolds ==
  ASSUME GInv, Accept
  PROVE  GInv'
<1>1. PICK succeeds \in BOOLEAN :
        /\ step' = [step EXCEPT !["server"] = IF succeeds THEN "down" ELSE "undo"]
        /\ trouble' = [trouble EXCEPT !["server"] = @ \/ ~succeeds]
  BY DEF Accept, Advance, Goto
<1>2. /\ step'["server"] = IF succeeds THEN "down" ELSE "undo"
      /\ trouble'["server"] = (trouble["server"] \/ ~succeeds)
      /\ \A i \in Jobs \ {"server"} : step'[i] = step[i] /\ trouble'[i] = trouble[i]
      /\ trouble' \in [Jobs -> BOOLEAN]
  BY <1>1 DEF GInv, GateTypes, Jobs
<1>3. OneMoves("server")
  BY <1>1, <1>2, AllPlaces DEF OneMoves, work, workflow, Files, Jobs, Accept, Advance, Goto, GInv, GateTypes
<1>4. Written("server")' /\ Troubled("server")'
  BY <1>2, PlacesDiffer DEF JobInv, Written, Troubled, ReportsAreThere, Early, Passed, work, Jobs, Accept, Advance, GInv
<1>5. ReportsAreThere'
  BY <1>2, PlacesDiffer DEF JobInv, Troubled, ReportsAreThere, Early, work, Jobs, Accept, Advance, Goto, GInv, GateTypes
<1>6. ProjectsAreGone'
  BY <1>1, <1>2, PlacesDiffer DEF JobInv, Written, ProjectsAreGone, Early, work, Jobs, Accept, Advance, Goto, GInv, GateTypes
<1> QED
  BY <1>3, <1>4, <1>5, <1>6, OthersStay DEF Jobs

LEMMA TakeDownHolds ==
  ASSUME GInv, TakeDown
  PROVE  GInv'
<1>1. PICK succeeds \in BOOLEAN :
        /\ step' = [step EXCEPT !["server"] = IF succeeds THEN "verify" ELSE "failing"]
        /\ trouble' = [trouble EXCEPT !["server"] = @ \/ ~succeeds]
        /\ projects' = ~succeeds
  BY DEF TakeDown, Advance, Goto
<1>2. /\ step'["server"] = IF succeeds THEN "verify" ELSE "failing"
      /\ trouble'["server"] = (trouble["server"] \/ ~succeeds)
      /\ \A i \in Jobs \ {"server"} : step'[i] = step[i] /\ trouble'[i] = trouble[i]
      /\ trouble' \in [Jobs -> BOOLEAN]
  BY <1>1 DEF GInv, GateTypes, Jobs
<1>3. OneMoves("server")
  BY <1>1, <1>2, AllPlaces DEF OneMoves, work, workflow, Files, Jobs, TakeDown, Advance, Goto, GInv, GateTypes
<1>4. Written("server")' /\ Troubled("server")'
  BY <1>2, PlacesDiffer DEF JobInv, Written, Troubled, ReportsAreThere, Early, Passed, work, Jobs, TakeDown, Advance, GInv
<1>5. ReportsAreThere'
  BY <1>2, PlacesDiffer DEF JobInv, Troubled, ReportsAreThere, Early, work, Jobs, TakeDown, Advance, Goto, GInv, GateTypes
<1>6. ProjectsAreGone'
  BY <1>1, <1>2, PlacesDiffer DEF JobInv, Written, ProjectsAreGone, Early, work, Jobs, TakeDown, Advance, Goto, GInv, GateTypes
<1> QED
  BY <1>3, <1>4, <1>5, <1>6, OthersStay DEF Jobs

LEMMA UndoHolds ==
  ASSUME GInv, Undo
  PROVE  GInv'
<1>1. OneMoves("server")
  BY AllPlaces DEF OneMoves, work, workflow, Files, Jobs, Undo, Advance, Goto, GInv, GateTypes
<1>2. Written("server")' /\ Troubled("server")'
  BY PlacesDiffer DEF JobInv, Written, Troubled, ReportsAreThere, Early, Passed, work, Jobs, Undo, Advance, Goto, GInv, GateTypes
<1>3. ReportsAreThere'
  BY PlacesDiffer DEF JobInv, Troubled, ReportsAreThere, Early, work, Jobs, Undo, Advance, Goto, GInv, GateTypes
<1>4. ProjectsAreGone'
  BY PlacesDiffer DEF JobInv, Written, ProjectsAreGone, Early, Passed, work, Jobs, Undo, Advance, Goto, GInv, GateTypes
<1> QED
  BY <1>1, <1>2, <1>3, <1>4, OthersStay DEF Jobs

LEMMA VerifyHolds ==
  ASSUME GInv, NEW j \in Jobs, Verify(j)
  PROVE  GInv'
<1>1. OneMoves(j)
  BY AllPlaces DEF OneMoves, work, workflow, Files, Jobs, Verify, Advance, Goto, GInv, GateTypes
<1>2. Written(j)' /\ Troubled(j)'
  BY PlacesDiffer DEF JobInv, Written, Troubled, ReportsAreThere, Early, Passed, work, Jobs, Verify, Advance, Goto, GInv, GateTypes
<1>3. ReportsAreThere'
  BY PlacesDiffer DEF JobInv, Troubled, ReportsAreThere, Early, work, Jobs, Verify, Advance, Goto, GInv, GateTypes
<1>4. ProjectsAreGone'
  BY PlacesDiffer DEF JobInv, Written, ProjectsAreGone, Early, Passed, work, Jobs, Verify, Advance, Goto, GInv, GateTypes
<1> QED
  BY <1>1, <1>2, <1>3, <1>4, OthersStay DEF Jobs

LEMMA ExportHolds ==
  ASSUME GInv, NEW j \in Jobs, Export(j)
  PROVE  GInv'
<1>1. OneMoves(j)
  BY AllPlaces DEF OneMoves, work, workflow, Files, Jobs, Export, Advance, Goto, GInv, GateTypes
<1>2. Written(j)' /\ Troubled(j)'
  BY PlacesDiffer DEF JobInv, Written, Troubled, ReportsAreThere, Early, Passed, work, Jobs, Export, Advance, Goto, GInv, GateTypes
<1>3. ReportsAreThere'
  BY PlacesDiffer DEF JobInv, Troubled, ReportsAreThere, Early, work, Jobs, Export, Advance, Goto, GInv, GateTypes
<1>4. ProjectsAreGone'
  BY PlacesDiffer DEF JobInv, Written, ProjectsAreGone, Early, Passed, work, Jobs, Export, Advance, Goto, GInv, GateTypes
<1> QED
  BY <1>1, <1>2, <1>3, <1>4, OthersStay DEF Jobs

LEMMA WriteResultHolds ==
  ASSUME GInv, NEW j \in Jobs, WriteResult(j)
  PROVE  GInv'
<1>1. OneMoves(j)
  BY AllPlaces DEF OneMoves, work, workflow, Files, Jobs, WriteResult, Advance, Goto, GInv, GateTypes
<1>2. Written(j)' /\ Troubled(j)'
  BY PlacesDiffer DEF JobInv, Written, Troubled, ReportsAreThere, Early, Passed, work, Jobs, WriteResult, Advance, Goto, GInv, GateTypes
<1>3. ReportsAreThere'
  BY PlacesDiffer DEF JobInv, Troubled, ReportsAreThere, Early, work, Jobs, WriteResult, Advance, Goto, GInv, GateTypes
<1>4. ProjectsAreGone'
  BY PlacesDiffer DEF JobInv, Written, ProjectsAreGone, Early, Passed, work, Jobs, WriteResult, Advance, Goto, GInv, GateTypes
<1> QED
  BY <1>1, <1>2, <1>3, <1>4, OthersStay DEF Jobs

LEMMA ReportPassHolds ==
  ASSUME GInv, NEW j \in Jobs, ReportPass(j)
  PROVE  GInv'
<1>1. OneMoves(j)
  BY AllPlaces DEF OneMoves, work, workflow, Files, Jobs, ReportPass, Advance, Goto, GInv, GateTypes
<1>2. Written(j)' /\ Troubled(j)'
  BY PlacesDiffer DEF JobInv, Written, Troubled, ReportsAreThere, Early, Passed, work, Jobs, ReportPass, Advance, Goto, GInv, GateTypes
<1>3. ReportsAreThere'
  BY PlacesDiffer DEF JobInv, Troubled, ReportsAreThere, Early, work, Jobs, ReportPass, Advance, Goto, GInv, GateTypes
<1>4. ProjectsAreGone'
  BY PlacesDiffer DEF JobInv, Written, ProjectsAreGone, Early, Passed, work, Jobs, ReportPass, Advance, Goto, GInv, GateTypes
<1> QED
  BY <1>1, <1>2, <1>3, <1>4, OthersStay DEF Jobs

LEMMA WriteFailureHolds ==
  ASSUME GInv, NEW j \in Jobs, WriteFailure(j)
  PROVE  GInv'
<1>1. OneMoves(j)
  BY AllPlaces DEF OneMoves, work, workflow, Files, Jobs, WriteFailure, Advance, Goto, GInv, GateTypes
<1>2. Written(j)' /\ Troubled(j)'
  BY PlacesDiffer DEF JobInv, Written, Troubled, ReportsAreThere, Early, Passed, work, Jobs, WriteFailure, Advance, Goto, GInv, GateTypes
<1>3. ReportsAreThere'
  BY PlacesDiffer DEF JobInv, Troubled, ReportsAreThere, Early, work, Jobs, WriteFailure, Advance, Goto, GInv, GateTypes
<1>4. ProjectsAreGone'
  BY PlacesDiffer DEF JobInv, Written, ProjectsAreGone, Early, Passed, work, Jobs, WriteFailure, Advance, Goto, GInv, GateTypes
<1> QED
  BY <1>1, <1>2, <1>3, <1>4, OthersStay DEF Jobs

LEMMA CleanUpHolds ==
  ASSUME GInv, NEW j \in Jobs, CleanUp(j)
  PROVE  GInv'
<1>1. OneMoves(j)
  BY AllPlaces DEF OneMoves, work, workflow, Files, Jobs, CleanUp, Advance, Goto, GInv, GateTypes
<1>2. Written(j)' /\ Troubled(j)'
  BY PlacesDiffer DEF JobInv, Written, Troubled, ReportsAreThere, Early, Passed, work, Jobs, CleanUp, Advance, Goto, GInv, GateTypes
<1>3. ReportsAreThere'
  BY PlacesDiffer DEF JobInv, Troubled, ReportsAreThere, Early, work, Jobs, CleanUp, Advance, Goto, GInv, GateTypes
<1>4. ProjectsAreGone'
  BY PlacesDiffer DEF JobInv, Written, ProjectsAreGone, Early, Passed, work, Jobs, CleanUp, Advance, Goto, GInv, GateTypes
<1> QED
  BY <1>1, <1>2, <1>3, <1>4, OthersStay DEF Jobs

LEMMA InterruptHolds ==
  ASSUME GInv, NEW j \in Jobs, Interrupt(j)
  PROVE  GInv'
<1>1. OneMoves(j)
  BY AllPlaces DEF OneMoves, work, workflow, Files, Jobs, Interrupt, Advance, Goto, GInv, GateTypes, AfterSignal
<1>2. Written(j)' /\ Troubled(j)'
  BY PlacesDiffer DEF JobInv, Written, Troubled, ReportsAreThere, Early, Passed, work, Jobs, Interrupt, Advance, Goto, GInv, GateTypes, AfterSignal
<1>3. ReportsAreThere'
  BY PlacesDiffer DEF JobInv, Troubled, ReportsAreThere, Early, work, Jobs, Interrupt, Advance, Goto, GInv, GateTypes, AfterSignal
<1>4. ProjectsAreGone'
  BY PlacesDiffer DEF JobInv, Written, ProjectsAreGone, Early, Passed, work, Jobs, Interrupt, Advance, Goto, GInv, GateTypes, AfterSignal
<1> QED
  BY <1>1, <1>2, <1>3, <1>4, OthersStay DEF Jobs

LEMMA LoseHolds ==
  ASSUME GInv, NEW j \in Jobs, Lose(j)
  PROVE  GInv'
<1>1. OneMoves(j)
  BY AllPlaces DEF OneMoves, work, workflow, Files, Jobs, Lose, Advance, Goto, GInv, GateTypes
<1>2. Written(j)' /\ Troubled(j)'
  BY PlacesDiffer DEF JobInv, Written, Troubled, ReportsAreThere, Early, Passed, work, Jobs, Lose, Advance, Goto, GInv, GateTypes
<1>3. ReportsAreThere'
  BY PlacesDiffer DEF JobInv, Troubled, ReportsAreThere, Early, work, Jobs, Lose, Advance, Goto, GInv, GateTypes
<1>4. ProjectsAreGone'
  BY PlacesDiffer DEF JobInv, Written, ProjectsAreGone, Early, Passed, work, Jobs, Lose, Advance, Goto, GInv, GateTypes
<1> QED
  BY <1>1, <1>2, <1>3, <1>4, OthersStay DEF Jobs

-----------------------------------------------------------------------------
(* The workflow *)

LEMMA JobsUnchanged ==
  ASSUME JobInv, UNCHANGED <<step, outcome, work, out, trouble>>
  PROVE  JobInv'
BY DEF JobInv, Written, Troubled, ReportsAreThere, ProjectsAreGone, work

LEMMA UploadHolds ==
  ASSUME GInv, NEW j \in Jobs, Upload(j)
  PROVE  GInv'
<1>1. GateTypes'
  BY DEF GInv, GateTypes, Upload, work
<1>2. JobInv'
  BY JobsUnchanged DEF GInv, Upload
<1>3. /\ evidence' = [evidence EXCEPT ![attempt][j] = out[j]] /\ attempt \in Attempts
      /\ evidence[attempt][j] = None
      /\ step[j] \in {"passed", "failed"} /\ began[j] = attempt
      /\ UNCHANGED <<attempt, began, step, out, required, signed>>
  BY DEF Upload, GInv, GateTypes
<1>4. /\ evidence'[attempt][j] = out[j]
      /\ \A i \in Jobs \ {j} : evidence'[attempt][i] = evidence[attempt][i]
      /\ \A a \in Attempts \ {attempt}, i \in Jobs : evidence'[a][i] = evidence[a][i]
  BY <1>3 DEF GInv, GateTypes
<1>5. required # "success"
  BY <1>3 DEF GInv, WorkflowInv, AllPassed, HasResult
<1>6. WorkflowInv'
  <2>1. \A a \in Attempts, i \in Jobs : a > attempt => evidence'[a][i] = None
    BY <1>3, <1>4 DEF GInv, WorkflowInv, Attempts
  <2> QED
    BY <1>3, <1>4, <1>5, <2>1 DEF GInv, WorkflowInv
<1> QED
  BY <1>1, <1>2, <1>6 DEF GInv

LEMMA CombineHolds ==
  ASSUME GInv, Combine
  PROVE  GInv'
<1>1. GateTypes'
  BY DEF GInv, GateTypes, Combine, work
<1>2. JobInv'
  BY JobsUnchanged DEF GInv, Combine
<1>3. WorkflowInv'
  BY DEF GInv, WorkflowInv, Combine, AllPassed, HasResult
<1> QED
  BY <1>1, <1>2, <1>3 DEF GInv

LEMMA SignHolds ==
  ASSUME GInv, Sign
  PROVE  GInv'
<1>1. GateTypes'
  BY DEF GInv, GateTypes, Sign, work
<1>2. JobInv'
  BY JobsUnchanged DEF GInv, Sign
<1>3. WorkflowInv'
  BY DEF GInv, WorkflowInv, Sign, AllPassed, HasResult
<1> QED
  BY <1>1, <1>2, <1>3 DEF GInv

LEMMA RerunHolds ==
  ASSUME GInv, Rerun
  PROVE  GInv'
<1>1. PICK again \in {Jobs, {j \in Jobs : step[j] # "passed"}} :
       /\ began' = [j \in Jobs |-> IF j \in again THEN attempt' ELSE began[j]]
       /\ step' = [j \in Jobs |-> IF j \in again THEN "suites" ELSE step[j]]
       /\ outcome' = [j \in Jobs |-> IF j \in again THEN None ELSE outcome[j]]
       /\ fresh' = [j \in Jobs |-> IF j \in again THEN None ELSE fresh[j]]
       /\ kept' = IF "sdk" \in again THEN None ELSE kept
       /\ projects' = (projects /\ "server" \notin again)
       /\ out' = [j \in Jobs |-> IF j \in again THEN {} ELSE out[j]]
       /\ trouble' = [j \in Jobs |-> j \notin again /\ trouble[j]]
  BY DEF Rerun
<1>2. /\ required = "failure" /\ required' = "waiting"
      /\ attempt \in Attempts /\ attempt' = attempt + 1 /\ attempt' \in Attempts
      /\ UNCHANGED <<evidence, signed>>
  BY GateAssumption DEF Rerun, GInv, GateTypes, Attempts
<1>3. GateTypes'
  BY <1>1, <1>2, AllPlaces DEF GInv, GateTypes
<1>4. JobInv'
  <2>1. ASSUME NEW j \in Jobs
        PROVE  Written(j)' /\ Troubled(j)'
    <3>1. CASE j \in again
      BY <1>1, <3>1 DEF Written, Troubled, Passed
    <3>2. CASE j \notin again
      <4>1. /\ step'[j] = step[j] /\ out'[j] = out[j] /\ outcome'[j] = outcome[j]
            /\ trouble'[j] = trouble[j]
        BY <1>1, <3>2 DEF GInv, GateTypes
      <4> QED
        BY <4>1 DEF GInv, JobInv, Written, Troubled
    <3> QED
      BY <3>1, <3>2
  <2>2. ReportsAreThere'
    BY <1>1 DEF GInv, JobInv, ReportsAreThere, Jobs, Early
  <2>3. ProjectsAreGone'
    BY <1>1 DEF GInv, JobInv, ProjectsAreGone, Jobs
  <2> QED
    BY <2>1, <2>2, <2>3 DEF JobInv
<1>5. WorkflowInv'
  <2>1. \A j \in Jobs : evidence[attempt'][j] = None
    BY <1>2 DEF GInv, WorkflowInv, Attempts
  <2>2. \A a \in Attempts, j \in Jobs : a > attempt' => evidence'[a][j] = None
    BY <1>2 DEF GInv, WorkflowInv, Attempts
  <2> QED
    BY <1>2, <2>1, <2>2 DEF GInv, WorkflowInv
<1> QED
  BY <1>3, <1>4, <1>5 DEF GInv

LEMMA StutterGate == GInv /\ UNCHANGED vars => GInv'
BY JobsUnchanged DEF GInv, GateTypes, WorkflowInv, AllPassed, HasResult, vars, workflow, work

LEMMA GateStep == GInv /\ [Next]_vars => GInv'
BY RunSuitesHolds, VerifyHolds, ExportHolds, WriteResultHolds, ReportPassHolds, WriteFailureHolds,
   CleanUpHolds, InterruptHolds, LoseHolds, UploadHolds, SnapshotHolds, StageHolds, ReclaimHolds,
   ConsumerHolds, BeginAcceptanceHolds, AcceptHolds, TakeDownHolds, UndoHolds, CombineHolds,
   SignHolds, RerunHolds, StutterGate
   DEF Next

-----------------------------------------------------------------------------
(* The theorems *)

\* The inductive invariant holds throughout.
THEOREM GateInvariance == Spec => []GInv
BY InitGate, GateStep, PTL DEF Spec

\* What the reader of the reports accepts, the manifest demands.
LEMMA SuiteIsSound ==
  ASSUME NEW j \in Jobs, NEW o, Suite(j, o)
  PROVE  Sound(j, o)
BY GateAssumption DEF Suite, GoSuite, PlainSuite, Sound, Ran, Jobs

\* A candidate is signed only of an attempt in which every job passed without trouble
\* (run.py, combine.py, release.py).
THEOREM SignedIsGated == Spec => []SignsOnlyGated
<1>1. GInv => SignsOnlyGated
  <2> SUFFICES ASSUME GInv, signed # None, NEW j \in Jobs
               PROVE  /\ began[j] = signed /\ ~trouble[j] /\ Sound(j, outcome[j])
                      /\ evidence[signed][j] \in {Passed}
    BY DEF SignsOnlyGated, Passed
  <2>1. signed = attempt /\ step[j] = "passed" /\ evidence[attempt][j] # None
    BY DEF GInv, WorkflowInv, AllPassed, HasResult
  <2>2. began[j] = attempt /\ evidence[attempt][j] = out[j]
    BY <2>1 DEF GInv, WorkflowInv
  <2> QED
    BY <2>1, <2>2, SuiteIsSound DEF GInv, JobInv, Written, Troubled
<1> QED
  BY <1>1, GateInvariance, PTL

\* A result receipt is true, also of a job that was stopped after writing it (run.py).
THEOREM ReceiptsAreTrue == Spec => []ResultIsTrue
<1>1. GInv => ResultIsTrue
  BY SuiteIsSound DEF GInv, JobInv, Troubled, ProjectsAreGone, ResultIsTrue
<1> QED
  BY <1>1, GateInvariance, PTL

\* A job fails only when something really went wrong (run.py, gates.py).
THEOREM FailuresAreReal == Spec => []NoSpuriousFailure
<1>1. GInv => NoSpuriousFailure
  BY DEF GInv, JobInv, Troubled, NoSpuriousFailure
<1> QED
  BY <1>1, GateInvariance, PTL
=============================================================================
