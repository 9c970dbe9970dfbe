--------------------------- MODULE OperatorProofs ---------------------------
(***************************************************************************)
(* binding-put reads bindings.json and checks the replacement against it   *)
(* before it creates the candidate file, which is what excludes a second   *)
(* binding-put.  The checks therefore protect the identities only when the *)
(* operator runs one command at a time; the theorem says that this is      *)
(* enough, whatever fails, is killed, or left behind.                      *)
(***************************************************************************)
EXTENDS Operator, TLAPS

\* What IdentityPreserved asks of two successive contents of the file.
Keeps(old, new) ==
  \A a \in Apps : old[a] # None => new[a] # None /\ new[a].id = old[a].id

\* The places of a binding-put that has its candidate.
Holding == {"put validate", "put replace"}

\* Where a command may be.
Places ==
  {"new", "ended", "put create", "put validate", "put replace", "put recreate",
   "backup stop", "backup cloud", "backup xprem", "backup state", "backup secrets", "backup start",
   "restore cloud", "restore xprem", "restore state"}

FileTypes ==
  /\ bindings \in Bindings
  /\ candidate \in Bindings \union {None}
  /\ plan \in [Commands -> Bindings]
  /\ pc \in [Commands -> Places]

\* One command at a time.
OneAtATime == \A c, d \in Commands : pc[c] \notin Idle /\ pc[d] \notin Idle => c = d

\* The contents a binding-put has built keep what the file says now.
PlanKeeps == \A c \in Commands : pc[c] = "put create" => Keeps(bindings, plan[c])

\* So does the candidate while a binding-put holds it; one that a killed command left
\* behind may not, and is never installed.
CandidateKeeps ==
  candidate # None /\ (\E c \in Commands : pc[c] \in Holding) => Keeps(bindings, candidate)

IInv == FileTypes /\ OneAtATime /\ PlanKeeps /\ CandidateKeeps

-----------------------------------------------------------------------------
LEMMA InitHolds == Init => IInv
BY DEF Init, IInv, FileTypes, OneAtATime, PlanKeeps, CandidateKeeps, Holding, NoBindings,
       Bindings, Idle, Places

\* A step that leaves the files, the plans and the commands alone.
LEMMA NothingMoves ==
  ASSUME IInv, UNCHANGED <<bindings, candidate, plan, pc>>
  PROVE  IInv'
BY DEF IInv, FileTypes, OneAtATime, PlanKeeps, CandidateKeeps, Keeps

\* Only one command is under way after a command has begun or gone on.
LEMMA StillAlone ==
  ASSUME ~Overlapping, IInv, NEW c \in Commands, NEW place \in Places, Goto(c, place),
         place \in Idle \/ pc[c] \notin Idle \/ Starts(c)
  PROVE  pc' \in [Commands -> Places] /\ OneAtATime'
BY DEF IInv, FileTypes, OneAtATime, Goto, Starts, At

\* A command that moves to a place where it holds neither a plan nor a candidate.
LEMMA MovesElsewhere ==
  ASSUME ~Overlapping, IInv, NEW c \in Commands, NEW place \in Places, Goto(c, place),
         place \in Idle \/ pc[c] \notin Idle \/ Starts(c),
         place \notin Holding \union {"put create"},
         UNCHANGED <<bindings, candidate>>,
         plan' \in [Commands -> Bindings], \A d \in Commands : d # c => plan'[d] = plan[d]
  PROVE  IInv'
<1>1. FileTypes' /\ OneAtATime'
  BY StillAlone DEF IInv, FileTypes, Places
<1>2. \A d \in Commands : d # c => pc'[d] = pc[d] /\ plan'[d] = plan[d]
  BY DEF Goto, IInv, FileTypes
<1>3. pc'[c] = place
  BY DEF Goto, IInv, FileTypes
<1>4. PlanKeeps'
  BY <1>2, <1>3 DEF IInv, PlanKeeps, Keeps
<1>5. CandidateKeeps'
  BY <1>2, <1>3 DEF IInv, CandidateKeeps, Keeps
<1> QED
  BY <1>1, <1>4, <1>5 DEF IInv

\* The same, of a command that does not touch the plans.
LEMMA GoesElsewhere ==
  ASSUME ~Overlapping, IInv, NEW c \in Commands, NEW place \in Places, Goto(c, place),
         place \in Idle \/ pc[c] \notin Idle \/ Starts(c),
         place \notin Holding \union {"put create"},
         UNCHANGED <<bindings, candidate, plan>>
  PROVE  IInv'
<1>1. plan' \in [Commands -> Bindings] /\ \A d \in Commands : d # c => plan'[d] = plan[d]
  BY DEF IInv, FileTypes
<1> QED
  BY <1>1, MovesElsewhere

-----------------------------------------------------------------------------
(* binding-put *)

LEMMA PutReadHolds ==
  ASSUME ~Overlapping, IInv, NEW c \in Commands, NEW app \in Apps, NEW b \in Binding,
         PutRead(c, app, b)
  PROVE  IInv'
<1>1. CASE ~KeepsIdentity(bindings, app, b)
  BY <1>1, GoesElsewhere DEF PutRead, files, Idle, Holding, Places
<1>2. CASE KeepsIdentity(bindings, app, b)
  <2> DEFINE new == [bindings EXCEPT ![app] = b]
  <2>1. /\ Goto(c, "put create") /\ Starts(c)
        /\ plan' = [plan EXCEPT ![c] = new]
        /\ UNCHANGED <<bindings, candidate>>
    BY <1>2 DEF PutRead, files
  <2>2. b # None
    BY OperatorAssumption DEF Binding
  <2>3. new \in Bindings /\ Keeps(bindings, new)
    BY <1>2, <2>2 DEF IInv, FileTypes, Bindings, Keeps, KeepsIdentity
  <2> HIDE DEF new
  <2>4. FileTypes' /\ OneAtATime'
    BY <2>1, <2>3, StillAlone DEF IInv, FileTypes, Places
  <2>5. /\ pc'[c] = "put create" /\ plan'[c] = new
        /\ \A d \in Commands : d # c => pc'[d] = pc[d] /\ pc[d] \in Idle
    BY <2>1 DEF IInv, FileTypes, Goto, Starts
  <2>6. PlanKeeps'
    <3>1. bindings' = bindings
      BY <2>1
    <3>2. \A d \in Commands : pc'[d] = "put create" => d = c
      BY <2>5 DEF Idle
    <3> QED
      BY <2>3, <2>5, <3>1, <3>2 DEF PlanKeeps, Keeps
  <2>7. CandidateKeeps'
    BY <2>5 DEF CandidateKeeps, Holding, Idle
  <2> QED
    BY <2>4, <2>6, <2>7 DEF IInv
<1> QED
  BY <1>1, <1>2

LEMMA PutCreateHolds ==
  ASSUME ~Overlapping, IInv, NEW c \in Commands, PutCreate(c)
  PROVE  IInv'
<1>1. plan' = [plan EXCEPT ![c] = NoBindings] /\ NoBindings \in Bindings /\ UNCHANGED bindings
  BY DEF PutCreate, NoBindings, Bindings
<1>2. plan' \in [Commands -> Bindings] /\ \A d \in Commands : d # c => plan'[d] = plan[d]
  BY <1>1 DEF IInv, FileTypes
<1>3. pc[c] = "put create"
  BY DEF PutCreate, At
<1>4. CASE candidate # None
  BY <1>1, <1>2, <1>4, MovesElsewhere DEF PutCreate, Idle, Holding, Places
<1>5. CASE candidate = None
  <2>1. Goto(c, "put validate") /\ candidate' = plan[c]
    BY <1>5 DEF PutCreate
  <2>2. FileTypes' /\ OneAtATime'
    BY <1>1, <1>2, <1>3, <2>1, StillAlone DEF IInv, FileTypes, Idle, Places
  <2>3. Keeps(bindings, plan[c])
    BY <1>3 DEF IInv, PlanKeeps
  <2>4. pc'[c] = "put validate" /\ \A d \in Commands : d # c => pc'[d] = pc[d]
    BY <2>1 DEF IInv, FileTypes, Goto
  <2>5. PlanKeeps'
    BY <1>1, <1>2, <2>4 DEF IInv, PlanKeeps, Keeps
  <2>6. CandidateKeeps'
    BY <1>1, <2>1, <2>3 DEF CandidateKeeps, Keeps
  <2> QED
    BY <2>2, <2>5, <2>6 DEF IInv
<1> QED
  BY <1>4, <1>5

LEMMA PutValidateHolds ==
  ASSUME ~Overlapping, IInv, NEW c \in Commands, PutValidate(c)
  PROVE  IInv'
<1>1. Goto(c, "put replace") /\ pc[c] = "put validate" /\ UNCHANGED <<bindings, candidate, plan>>
  BY DEF PutValidate, At, files
<1>2. FileTypes' /\ OneAtATime'
  BY <1>1, StillAlone DEF IInv, FileTypes, Idle, Places
<1>3. \A d \in Commands : pc'[d] = IF d = c THEN "put replace" ELSE pc[d]
  BY <1>1 DEF IInv, FileTypes, Goto
<1>4. PlanKeeps'
  BY <1>1, <1>3 DEF IInv, PlanKeeps, Keeps
<1>5. CandidateKeeps'
  BY <1>1, <1>3 DEF IInv, CandidateKeeps, Keeps, Holding
<1> QED
  BY <1>2, <1>4, <1>5 DEF IInv

\* What PutReplace installs keeps what the file said.
LEMMA ReplaceKeeps ==
  ASSUME IInv, NEW c \in Commands, PutReplace(c)
  PROVE  Keeps(bindings, bindings')
BY DEF IInv, CandidateKeeps, PutReplace, At, Holding

LEMMA PutReplaceHolds ==
  ASSUME ~Overlapping, IInv, NEW c \in Commands, PutReplace(c)
  PROVE  IInv'
<1>1. /\ Goto(c, "put recreate") /\ pc[c] = "put replace" /\ UNCHANGED plan
      /\ candidate # None /\ bindings' = candidate /\ candidate' = None
  BY DEF PutReplace, At
<1>2. FileTypes' /\ OneAtATime'
  BY <1>1, StillAlone DEF IInv, FileTypes, Idle, Places
<1>3. \A d \in Commands : pc'[d] = IF d = c THEN "put recreate" ELSE pc[d]
  BY <1>1 DEF IInv, FileTypes, Goto
<1>4. \A d \in Commands : d # c => pc[d] \in Idle
  BY <1>1 DEF IInv, OneAtATime, Idle
<1>5. PlanKeeps'
  BY <1>3, <1>4 DEF PlanKeeps, Idle
<1>6. CandidateKeeps'
  BY <1>1 DEF CandidateKeeps
<1> QED
  BY <1>2, <1>5, <1>6 DEF IInv

LEMMA PutAbandonHolds ==
  ASSUME ~Overlapping, IInv, NEW c \in Commands, PutAbandon(c)
  PROVE  IInv'
<1>1. Goto(c, "ended") /\ candidate' = None /\ UNCHANGED <<bindings, plan>>
  BY DEF PutAbandon
<1>2. FileTypes' /\ OneAtATime'
  BY <1>1, StillAlone DEF IInv, FileTypes, Idle, Places
<1>3. \A d \in Commands : pc'[d] = IF d = c THEN "ended" ELSE pc[d]
  BY <1>1 DEF IInv, FileTypes, Goto
<1>4. PlanKeeps'
  BY <1>1, <1>3 DEF IInv, PlanKeeps, Keeps
<1>5. CandidateKeeps'
  BY <1>1 DEF CandidateKeeps
<1> QED
  BY <1>2, <1>4, <1>5 DEF IInv

LEMMA PutHolds ==
  ASSUME ~Overlapping, IInv, NEW c \in Commands, Put(c)
  PROVE  IInv'
<1>1. CASE \E app \in Apps, b \in Binding : PutRead(c, app, b)
  BY <1>1, PutReadHolds
<1>2. CASE PutCreate(c) \/ PutValidate(c) \/ PutReplace(c) \/ PutAbandon(c)
  BY <1>2, PutCreateHolds, PutValidateHolds, PutReplaceHolds, PutAbandonHolds
<1>3. CASE PutRecreate(c) \/ PutRecreateFails(c)
  BY <1>3, GoesElsewhere DEF PutRecreate, PutRecreateFails, files, Idle, Holding, Places
<1> QED
  BY <1>1, <1>2, <1>3 DEF Put

-----------------------------------------------------------------------------
(* The other commands, and what goes on around them *)

LEMMA SaveHolds ==
  ASSUME ~Overlapping, IInv, NEW c \in Commands, Save(c)
  PROVE  IInv'
<1>1. CASE BackupBegin(c)
  BY <1>1, GoesElsewhere DEF BackupBegin, files, Holding, Places
<1>2. CASE BackupStop(c)
  BY <1>2, GoesElsewhere DEF BackupStop, At, files, Idle, Holding, Places
<1>3. ASSUME NEW place \in Places \ Idle, NEW next \in Places \ (Holding \union {"put create"}),
             NEW parts, Copy(c, place, next, parts)
      PROVE  IInv'
  BY <1>3, GoesElsewhere DEF Copy, At, files, Places
<1>4. CASE BackupCloud(c)
  BY <1>3, <1>4 DEF BackupCloud, Idle, Holding, Places
<1>5. CASE BackupXprem(c)
  BY <1>3, <1>5 DEF BackupXprem, Idle, Holding, Places
<1>6. CASE BackupState(c)
  BY <1>3, <1>6 DEF BackupState, Idle, Holding, Places
<1>7. CASE BackupSecrets(c)
  BY <1>3, <1>7 DEF BackupSecrets, Idle, Holding, Places
<1>8. CASE BackupStart(c) \/ BackupFails(c)
  BY <1>8, GoesElsewhere DEF BackupStart, BackupFails, files, Idle, Holding, Places
<1> QED
  BY <1>1, <1>2, <1>4, <1>5, <1>6, <1>7, <1>8 DEF Save

LEMMA RestoreHolds ==
  ASSUME ~Overlapping, IInv, NEW c \in Commands, Restore(c)
  PROVE  IInv'
<1>1. CASE RestoreBegin(c)
  BY <1>1, GoesElsewhere DEF RestoreBegin, files, Idle, Holding, Places
<1>2. CASE RestoreCloud(c) \/ RestoreXprem(c)
  BY <1>2, GoesElsewhere DEF RestoreCloud, RestoreXprem, At, files, Idle, Holding, Places
<1>3. CASE RestoreState(c) \/ RestoreFails(c)
  BY <1>3, GoesElsewhere DEF RestoreState, RestoreFails, files, Idle, Holding, Places
<1> QED
  BY <1>1, <1>2, <1>3 DEF Restore

LEMMA KillHolds ==
  ASSUME ~Overlapping, IInv, NEW c \in Commands, Kill(c)
  PROVE  IInv'
<1>1. NoBindings \in Bindings
  BY DEF NoBindings, Bindings
<1>2. plan' \in [Commands -> Bindings] /\ \A d \in Commands : d # c => plan'[d] = plan[d]
  BY <1>1 DEF Kill, IInv, FileTypes
<1> QED
  BY <1>2, MovesElsewhere DEF Kill, files, Idle, Holding, Places

LEMMA AroundHolds ==
  ASSUME ~Overlapping, IInv, Around
  PROVE  IInv'
<1>1. CASE RemoveCandidate
  <2>1. candidate' = None /\ UNCHANGED <<bindings, plan, pc>>
    BY <1>1 DEF RemoveCandidate
  <2> QED
    BY <2>1 DEF IInv, FileTypes, OneAtATime, PlanKeeps, CandidateKeeps, Keeps
<1>2. CASE OperatorStarts \/ CloudRestarts \/ FreshProject
  BY <1>2, NothingMoves DEF OperatorStarts, CloudRestarts, FreshProject, files
<1>3. CASE \E i \in Identities, k \in Keys : KeyCreate(i, k) \/ KeyRevoke(i, k)
  BY <1>3, NothingMoves DEF KeyCreate, KeyRevoke, files
<1>4. CASE \E s \in Stores, item \in Items : Write(s, item)
  BY <1>4, NothingMoves DEF Write, files
<1> QED
  BY <1>1, <1>2, <1>3, <1>4 DEF Around

LEMMA NextHolds ==
  ASSUME ~Overlapping, IInv, [Next]_vars
  PROVE  IInv'
<1>1. CASE \E c \in Commands : Put(c) \/ Save(c) \/ Restore(c) \/ Kill(c)
  BY <1>1, PutHolds, SaveHolds, RestoreHolds, KillHolds
<1>2. CASE Around
  BY <1>2, AroundHolds
<1>3. CASE UNCHANGED vars
  BY <1>3, NothingMoves DEF vars
<1> QED
  BY <1>1, <1>2, <1>3 DEF Next

-----------------------------------------------------------------------------
\* Nothing but PutReplace writes bindings.json.
LEMMA OnlyReplaceWrites ==
  ASSUME [Next]_vars
  PROVE  (\E c \in Commands : PutReplace(c)) \/ UNCHANGED bindings
<1>1. ASSUME NEW c \in Commands, Put(c)
      PROVE  PutReplace(c) \/ UNCHANGED bindings
  BY <1>1 DEF Put, PutRead, PutCreate, PutValidate, PutAbandon, PutRecreate, PutRecreateFails, files
<1>2. ASSUME NEW c \in Commands, Save(c)
      PROVE  UNCHANGED bindings
  BY <1>2 DEF Save, BackupBegin, BackupStop, BackupCloud, BackupXprem, BackupState, BackupSecrets,
              BackupStart, BackupFails, Copy, files
<1>3. ASSUME NEW c \in Commands, Restore(c) \/ Kill(c)
      PROVE  UNCHANGED bindings
  BY <1>3 DEF Restore, RestoreBegin, RestoreCloud, RestoreXprem, RestoreState, RestoreFails, Kill, files
<1>4. CASE Around
  BY <1>4 DEF Around, OperatorStarts, RemoveCandidate, CloudRestarts, FreshProject, KeyCreate,
              KeyRevoke, Write, files
<1> QED
  BY <1>1, <1>2, <1>3, <1>4 DEF Next, vars

\* What a binding-put has checked against the file still holds of the file when it writes
\* it, as long as the operator runs one command at a time.
THEOREM OperatorInvariance ==
  ASSUME ~Overlapping
  PROVE  Spec => []IInv
<1>1. Init => IInv
  BY InitHolds
<1>2. IInv /\ [Next]_vars => IInv'
  BY NextHolds
<1> QED
  BY <1>1, <1>2, PTL DEF Spec

\* Run one at a time, the operator's commands never change or lose the identity an
\* application's APKs trust, although candidates may be left behind by killed ones.
THEOREM IdentityKept ==
  ASSUME ~Overlapping
  PROVE  Spec => IdentityPreserved
<1>1. IInv /\ [Next]_vars => [\A a \in Apps : bindings[a] # None =>
                                bindings'[a] # None /\ bindings'[a].id = bindings[a].id]_vars
  <2> SUFFICES ASSUME IInv, [Next]_vars
               PROVE  \A a \in Apps : bindings[a] # None =>
                                bindings'[a] # None /\ bindings'[a].id = bindings[a].id
    OBVIOUS
  <2>1. Keeps(bindings, bindings')
    BY OnlyReplaceWrites, ReplaceKeeps DEF Keeps
  <2> QED
    BY <2>1 DEF Keeps
<1> QED
  BY <1>1, OperatorInvariance, PTL DEF Spec, IdentityPreserved

-----------------------------------------------------------------------------
(* The keys in use *)

\* xprem accepts every key of these bindings.
Live(b) == \A a \in Apps : b[a] # None => b[a].key \in live[b[a].id]

\* Cloud runs with the file as it is, unless the latest replacement was not seen to complete.
LoadedIsFile == proven /\ "cloud" \in up => loaded = bindings

\* What is about to be installed was tried, and no key has been revoked since.
TriedIsLive == candidate # None /\ (\E c \in Commands : pc[c] = "put replace") => Live(candidate)

KeysInv ==
  /\ live \in [Identities -> SUBSET Keys]
  /\ Live(bindings)
  /\ "cloud" \in up => Live(loaded)
  /\ LoadedIsFile
  /\ TriedIsLive

LEMMA InitKeys == Init => KeysInv
<1> SUFFICES ASSUME Init PROVE KeysInv
  OBVIOUS
<1>1. live \in [Identities -> SUBSET Keys]
  BY DEF Init
<1>2. Live(bindings) /\ Live(loaded) /\ loaded = bindings
  BY DEF Init, NoBindings, Live
<1>3. TriedIsLive
  BY DEF Init, TriedIsLive
<1> QED
  BY <1>1, <1>2, <1>3 DEF KeysInv, LoadedIsFile

\* Nobody has come to where the candidate is installed, and it is the one it was.
LEMMA TriedStays ==
  ASSUME KeysInv, UNCHANGED live, candidate' = candidate \/ candidate' = None,
         \A c \in Commands : pc'[c] = "put replace" => pc[c] = "put replace"
  PROVE  TriedIsLive'
BY DEF KeysInv, TriedIsLive, Live

\* A step that installs nothing, starts nothing and revokes nothing.
LEMMA KeysStay ==
  ASSUME KeysInv, UNCHANGED <<bindings, live, loaded, proven>>, up' \subseteq up, TriedIsLive'
  PROVE  KeysInv'
BY DEF KeysInv, LoadedIsFile, Live

\* A step in which Cloud starts or goes on, and reads the file if it starts.
LEMMA KeysRead ==
  ASSUME KeysInv, UNCHANGED <<bindings, live>>, TriedIsLive',
         loaded' = bindings \/ ("cloud" \in up /\ loaded' = loaded /\ proven' = proven)
  PROVE  KeysInv'
BY DEF KeysInv, LoadedIsFile, Live

\* Where a command goes that does not come to install a candidate.
LEMMA NotToReplace ==
  ASSUME IInv, NEW c \in Commands, NEW place, place # "put replace", Goto(c, place)
  PROVE  \A d \in Commands : pc'[d] = "put replace" => pc[d] = "put replace"
BY DEF IInv, FileTypes, Goto

LEMMA PutKeys ==
  ASSUME ~Overlapping, IInv, KeysInv, NEW c \in Commands, Put(c)
  PROVE  KeysInv'
<1>1. ASSUME NEW app \in Apps, NEW b \in Binding, PutRead(c, app, b)
      PROVE  KeysInv'
  <2>1. TriedIsLive'
    BY <1>1, TriedStays, NotToReplace DEF PutRead, files
  <2> QED
    BY <1>1, <2>1, KeysStay DEF PutRead, files, cloud
<1>2. CASE PutCreate(c)
  <2>1. \A d \in Commands : pc[d] # "put replace"
    BY <1>2 DEF IInv, OneAtATime, PutCreate, At, Idle
  <2>2. \A d \in Commands : pc'[d] # "put replace"
    BY <1>2, <2>1, NotToReplace DEF PutCreate
  <2>3. TriedIsLive'
    BY <2>2 DEF TriedIsLive
  <2> QED
    BY <1>2, <2>3, KeysStay DEF PutCreate, cloud
<1>3. CASE PutValidate(c)
  <2>1. Live(candidate) /\ UNCHANGED <<candidate, live>>
    BY <1>3 DEF PutValidate, Valid, Live, files
  <2>2. TriedIsLive'
    BY <2>1 DEF TriedIsLive, Live
  <2> QED
    BY <1>3, <2>2, KeysStay DEF PutValidate, files, cloud
<1>4. CASE PutReplace(c)
  <2>1. /\ pc[c] = "put replace" /\ candidate # None
        /\ bindings' = candidate /\ candidate' = None /\ ~proven'
        /\ UNCHANGED <<live, up, loaded>>
    BY <1>4 DEF PutReplace, At
  <2>2. Live(candidate)
    BY <2>1 DEF KeysInv, TriedIsLive
  <2> QED
    BY <2>1, <2>2 DEF KeysInv, LoadedIsFile, TriedIsLive, Live
<1>5. CASE PutAbandon(c)
  <2>1. TriedIsLive'
    BY <1>5 DEF PutAbandon, TriedIsLive
  <2> QED
    BY <1>5, <2>1, KeysStay DEF PutAbandon, cloud
<1>6. CASE PutRecreate(c)
  <2>1. TriedIsLive'
    BY <1>6, TriedStays, NotToReplace DEF PutRecreate, files
  <2> QED
    BY <1>6, <2>1, KeysRead DEF PutRecreate, files
<1>7. CASE PutRecreateFails(c)
  <2>1. TriedIsLive'
    BY <1>7, TriedStays, NotToReplace DEF PutRecreateFails, files
  <2>2. up' \subseteq up
    BY <1>7 DEF PutRecreateFails
  <2> QED
    BY <1>7, <2>1, <2>2, KeysStay DEF PutRecreateFails, files, cloud
<1> QED
  BY <1>1, <1>2, <1>3, <1>4, <1>5, <1>6, <1>7 DEF Put

LEMMA SaveKeys ==
  ASSUME ~Overlapping, IInv, KeysInv, NEW c \in Commands, Save(c)
  PROVE  KeysInv'
<1>1. TriedIsLive'
  BY TriedStays, NotToReplace DEF Save, BackupBegin, BackupStop, BackupCloud, BackupXprem,
     BackupState, BackupSecrets, BackupStart, BackupFails, Copy, files
<1>2. CASE BackupStart(c)
  BY <1>1, <1>2, KeysRead DEF BackupStart, StartServices, files
<1>3. CASE BackupStop(c)
  BY <1>1, <1>3, KeysStay DEF BackupStop, Stopped, files, cloud
<1>4. CASE BackupFails(c)
  <2>1. up' \subseteq up
    BY <1>4 DEF BackupFails
  <2> QED
    BY <1>1, <1>4, <2>1, KeysStay DEF BackupFails, files, cloud
<1>5. CASE BackupBegin(c) \/ BackupCloud(c) \/ BackupXprem(c) \/ BackupState(c) \/ BackupSecrets(c)
  BY <1>1, <1>5, KeysStay DEF BackupBegin, BackupCloud, BackupXprem, BackupState, BackupSecrets,
     Copy, files, cloud
<1> QED
  BY <1>2, <1>3, <1>4, <1>5 DEF Save

LEMMA RestoreKeys ==
  ASSUME ~Overlapping, IInv, KeysInv, NEW c \in Commands, Restore(c) \/ Kill(c)
  PROVE  KeysInv'
<1>1. TriedIsLive'
  BY TriedStays, NotToReplace DEF Restore, RestoreBegin, RestoreCloud, RestoreXprem, RestoreState,
     RestoreFails, Kill, files
<1> QED
  BY <1>1, KeysStay DEF Restore, RestoreBegin, RestoreCloud, RestoreXprem, RestoreState,
     RestoreFails, Kill, files, cloud

LEMMA AroundKeys ==
  ASSUME ~Overlapping, IInv, KeysInv, Around
  PROVE  KeysInv'
<1>1. CASE OperatorStarts \/ CloudRestarts
  <2>1. TriedIsLive'
    BY <1>1, TriedStays DEF OperatorStarts, CloudRestarts, files
  <2> QED
    BY <1>1, <2>1, KeysRead DEF OperatorStarts, CloudRestarts, StartServices, files
<1>2. CASE RemoveCandidate \/ FreshProject \/ \E s \in Stores, item \in Items : Write(s, item)
  <2>1. TriedIsLive'
    BY <1>2, TriedStays DEF RemoveCandidate, FreshProject, Write, files
  <2> QED
    BY <1>2, <2>1, KeysStay DEF RemoveCandidate, FreshProject, Write, files, cloud
<1>3. ASSUME NEW i \in Identities, NEW k \in Keys, KeyCreate(i, k)
      PROVE  KeysInv'
  <2>1. /\ live' = [live EXCEPT ![i] = @ \union {k}]
        /\ UNCHANGED <<bindings, candidate, up, loaded, proven, pc>>
    BY <1>3 DEF KeyCreate, files, cloud
  <2>2. live' \in [Identities -> SUBSET Keys] /\ \A j \in Identities : live[j] \subseteq live'[j]
    BY <2>1 DEF KeysInv
  <2>3. \A j : live'[j] = live[j] \/ live[j] \subseteq live'[j]
    BY <2>1, <2>2 DEF KeysInv
  <2> QED
    BY <2>1, <2>2, <2>3 DEF KeysInv, LoadedIsFile, TriedIsLive, Live
<1>4. ASSUME NEW i \in Identities, NEW k \in Keys, KeyRevoke(i, k)
      PROVE  KeysInv'
  <2>1. /\ live' = [live EXCEPT ![i] = @ \ {k}]
        /\ UNCHANGED <<bindings, candidate, up, loaded, proven, pc>>
        /\ proven /\ \A a \in Apps : bindings[a] # [id |-> i, key |-> k]
        /\ \A c \in Commands : pc[c] # "put replace"
    BY <1>4 DEF KeyRevoke, Quiet, Idle, files, cloud
  <2>2. live' \in [Identities -> SUBSET Keys]
    BY <2>1 DEF KeysInv
  <2>3. ASSUME NEW a \in Apps, bindings[a] # None
        PROVE  bindings[a].key \in live'[bindings[a].id]
    <3>1. bindings[a] \in Binding /\ bindings[a].key \in live[bindings[a].id]
      BY <2>3 DEF IInv, FileTypes, Bindings, KeysInv, Live
    <3>2. ~(bindings[a].id = i /\ bindings[a].key = k)
      BY <2>1, <3>1 DEF Binding
    <3> QED
      BY <2>1, <3>1, <3>2 DEF KeysInv, Binding
  <2> QED
    BY <2>1, <2>2, <2>3 DEF KeysInv, LoadedIsFile, TriedIsLive, Live
<1> QED
  BY <1>1, <1>2, <1>3, <1>4 DEF Around

LEMMA KeysInvariance ==
  ASSUME ~Overlapping
  PROVE  Spec => []KeysInv
<1>1. Init => KeysInv
  BY InitKeys
<1>2. IInv /\ KeysInv /\ [Next]_vars => KeysInv'
  <2> SUFFICES ASSUME IInv, KeysInv, [Next]_vars PROVE KeysInv'
    OBVIOUS
  <2>1. CASE \E c \in Commands : Put(c) \/ Save(c) \/ Restore(c) \/ Kill(c)
    BY <2>1, PutKeys, SaveKeys, RestoreKeys
  <2>2. CASE Around
    BY <2>2, AroundKeys
  <2>3. CASE UNCHANGED vars
    <3>1. TriedIsLive'
      BY <2>3, TriedStays DEF vars
    <3> QED
      BY <2>3, <3>1, KeysStay DEF vars
  <2> QED
    BY <2>1, <2>2, <2>3 DEF Next
<1> QED
  BY <1>1, <1>2, OperatorInvariance, PTL DEF Spec

\* Every key in the file and every key that the running Cloud has loaded is accepted by
\* xprem, for every number of applications, keys and commands run one at a time.
THEOREM KeysStayLive ==
  ASSUME ~Overlapping
  PROVE  Spec => []KeysInUseAreLive
<1>1. KeysInv => KeysInUseAreLive
  BY DEF KeysInv, Live, KeysInUseAreLive
<1> QED
  BY <1>1, KeysInvariance, PTL

-----------------------------------------------------------------------------
(* The maintenance window *)

\* The places of a backup after it has stopped the services.
Window == {"backup cloud", "backup xprem", "backup state", "backup secrets", "backup start"}

\* What has been copied is what is there.
Cut ==
  /\ \A s \in Stores : set[s] # None => set[s] = store[s]
  /\ set["keys"] # None => set["keys"] = live
  /\ set["bindings"] # None => set["bindings"] = bindings

CutInv ==
  /\ set = [p \in Parts |-> set[p]]
  /\ \A c \in Commands : pc[c] = "backup stop" => set = NoParts
  /\ \A c \in Commands : pc[c] \in Window => up = {} /\ Cut

LEMMA BackupPlaces ==
  ASSUME NEW c \in Commands
  PROVE  InBackup(c) <=> pc[c] = "backup stop" \/ pc[c] \in Window
BY DEF InBackup, Backup, Window

LEMMA InitCut == Init => CutInv
BY DEF Init, CutInv, NoParts, Window

\* No backup is under way after the step.
LEMMA NoBackup ==
  ASSUME \A c \in Commands : pc'[c] \notin Window \union {"backup stop"},
         CutInv, set' = set \/ set' = NoParts
  PROVE  CutInv'
BY DEF CutInv, NoParts

\* A command that is not a backup goes on: no other is.
LEMMA NotABackup ==
  ASSUME ~Overlapping, IInv, CutInv, NEW c \in Commands, NEW place \in Places, Goto(c, place),
         pc[c] \notin Idle \/ Starts(c),
         place \notin Window \union {"backup stop"}, set' = set \/ set' = NoParts
  PROVE  CutInv'
<1>1. \A d \in Commands : d # c => pc[d] \in Idle
  BY DEF IInv, OneAtATime, Starts, At, Idle
<1>2. \A d \in Commands : pc'[d] = IF d = c THEN place ELSE pc[d]
  BY DEF IInv, FileTypes, Goto
<1>3. \A d \in Commands : pc'[d] \notin Window \union {"backup stop"}
  BY <1>1, <1>2 DEF Idle, Window
<1> QED
  BY <1>3, NoBackup

\* A backup in its window copies one part more.
LEMMA CopyCuts ==
  ASSUME ~Overlapping, IInv, CutInv, NEW c \in Commands, NEW place \in Window, NEW next \in Window,
         NEW parts, Copy(c, place, next, parts), parts = [p \in Parts |-> parts[p]],
         \A p \in Parts : parts[p] = set[p] \/ (p \in Stores /\ parts[p] = store[p])
                          \/ (p = "keys" /\ parts[p] = live) \/ (p = "bindings" /\ parts[p] = bindings)
  PROVE  CutInv'
<1>1. up = {} /\ Cut
  BY DEF CutInv, Copy, At
<1>2. up' = {} /\ set' = parts /\ UNCHANGED <<store, live, bindings>>
  BY <1>1 DEF Copy, files
<1>3. \A d \in Commands : pc'[d] = IF d = c THEN next ELSE pc[d]
  BY DEF IInv, FileTypes, Copy, Goto
<1>4. \A d \in Commands : d # c => pc[d] \in Idle
  BY DEF IInv, OneAtATime, Copy, At, Idle, Window
<1>5. Cut'
  BY <1>1, <1>2 DEF Cut, Parts, Stores
<1>6. \A d \in Commands : pc'[d] # "backup stop"
  BY <1>3, <1>4 DEF Idle, Window
<1> QED
  BY <1>2, <1>5, <1>6 DEF CutInv

LEMMA SaveCut ==
  ASSUME ~Overlapping, IInv, CutInv, NEW c \in Commands, Save(c)
  PROVE  CutInv'
<1>1. CASE BackupBegin(c)
  <2>1. Goto(c, "backup stop") /\ set' = NoParts /\ \A d \in Commands : pc[d] \in Idle
    BY <1>1 DEF BackupBegin, Starts
  <2>2. \A d \in Commands : pc'[d] \notin Window
    BY <2>1 DEF IInv, FileTypes, Goto, Idle, Window
  <2> QED
    BY <2>1, <2>2 DEF CutInv, NoParts
<1>2. CASE BackupStop(c)
  <2>1. set = NoParts /\ UNCHANGED set /\ up' = {} /\ Goto(c, "backup cloud")
    BY <1>2 DEF BackupStop, Stopped, CutInv, At
  <2>2. \A d \in Commands : pc'[d] # "backup stop"
    <3>1. \A d \in Commands : d # c => pc[d] \in Idle
      BY <1>2 DEF IInv, OneAtATime, BackupStop, At, Idle
    <3> QED
      BY <2>1, <3>1 DEF IInv, FileTypes, Goto, Idle
  <2>3. Cut'
    BY <2>1 DEF Cut, NoParts, Parts, Stores
  <2> QED
    BY <2>1, <2>2, <2>3 DEF CutInv, NoParts
<1> DEFINE with(p, value) == [set EXCEPT ![p] = value]
<1>3. set = [p \in Parts |-> set[p]]
  BY DEF CutInv
<1>4. CASE BackupCloud(c)
  <2>1. Copy(c, "backup cloud", "backup xprem", with("cloud", store["cloud"]))
    BY <1>4 DEF BackupCloud
  <2> QED
    BY <1>3, <2>1, CopyCuts DEF Window, Parts, Stores
<1>5. CASE BackupXprem(c)
  <2>1. Copy(c, "backup xprem", "backup state",
             [set EXCEPT !["xprem"] = store["xprem"], !["keys"] = live])
    BY <1>5 DEF BackupXprem
  <2> QED
    BY <1>3, <2>1, CopyCuts DEF Window, Parts, Stores
<1>6. CASE BackupState(c)
  <2>1. Copy(c, "backup state", "backup secrets", with("state", store["state"]))
    BY <1>6 DEF BackupState
  <2> QED
    BY <1>3, <2>1, CopyCuts DEF Window, Parts, Stores
<1>7. CASE BackupSecrets(c)
  <2>1. Copy(c, "backup secrets", "backup start", with("bindings", bindings))
    BY <1>7 DEF BackupSecrets
  <2> QED
    BY <1>3, <2>1, CopyCuts DEF Window, Parts, Stores
<1>8. CASE BackupStart(c) \/ BackupFails(c)
  <2>1. Goto(c, "ended") /\ UNCHANGED set
    BY <1>8 DEF BackupStart, BackupFails
  <2>2. pc[c] \notin Idle
    BY <1>8, BackupPlaces DEF BackupStart, BackupFails, At, Idle, Window
  <2> QED
    BY <2>1, <2>2, NotABackup DEF Places, Window
<1> QED
  BY <1>1, <1>2, <1>4, <1>5, <1>6, <1>7, <1>8 DEF Save

LEMMA OthersCut ==
  ASSUME ~Overlapping, IInv, CutInv, NEW c \in Commands, Put(c) \/ Restore(c) \/ Kill(c)
  PROVE  CutInv'
<1>1. CASE Put(c)
  BY <1>1, NotABackup DEF Put, PutRead, PutCreate, PutValidate, PutReplace, PutAbandon, PutRecreate,
     PutRecreateFails, At, Idle, Places, Window
<1>2. CASE Restore(c)
  <2>1. RestoreFails(c) => pc[c] \notin Idle
    <3>1. \A s \in Stores : RestoreAt[s] \notin Idle
      <4>1. RestoreAt["cloud"] \notin Idle /\ RestoreAt["xprem"] \notin Idle /\ RestoreAt["state"] \notin Idle
        BY DEF RestoreAt, Idle
      <4> QED
        BY <4>1 DEF Stores
    <3> QED
      BY <3>1 DEF RestoreFails, At
  <2> QED
    BY <1>2, <2>1, NotABackup DEF Restore, RestoreBegin, RestoreCloud, RestoreXprem, RestoreState,
       RestoreFails, At, Idle, Places, Window
<1>3. CASE Kill(c)
  BY <1>3, NotABackup DEF Kill, Idle, Places, Window
<1> QED
  BY <1>1, <1>2, <1>3

LEMMA AroundCut ==
  ASSUME ~Overlapping, IInv, CutInv, Around
  PROVE  CutInv'
<1>1. UNCHANGED <<pc, set>>
  BY DEF Around, OperatorStarts, RemoveCandidate, CloudRestarts, FreshProject, KeyCreate, KeyRevoke, Write
<1>2. CASE OperatorStarts \/ RemoveCandidate \/ FreshProject
           \/ \E i \in Identities, k \in Keys : KeyCreate(i, k) \/ KeyRevoke(i, k)
  <2>1. \A c \in Commands : pc[c] \in Idle
    BY <1>2 DEF OperatorStarts, RemoveCandidate, FreshProject, KeyCreate, KeyRevoke, Quiet
  <2> QED
    BY <1>1, <2>1, NoBackup DEF Idle, Window
<1>3. CASE CloudRestarts \/ \E s \in Stores, item \in Items : Write(s, item)
  <2>1. \A c \in Commands : pc[c] \notin Window
    BY <1>3 DEF CutInv, CloudRestarts, Write
  <2> QED
    BY <1>1, <2>1 DEF CutInv
<1> QED
  BY <1>2, <1>3 DEF Around

LEMMA CutInvariance ==
  ASSUME ~Overlapping
  PROVE  Spec => []CutInv
<1>1. Init => CutInv
  BY InitCut
<1>2. IInv /\ CutInv /\ [Next]_vars => CutInv'
  <2> SUFFICES ASSUME IInv, CutInv, [Next]_vars PROVE CutInv'
    OBVIOUS
  <2>1. CASE \E c \in Commands : Put(c) \/ Save(c) \/ Restore(c) \/ Kill(c)
    BY <2>1, SaveCut, OthersCut
  <2>2. CASE Around
    BY <2>2, AroundCut
  <2>3. CASE UNCHANGED vars
    BY <2>3 DEF vars, CutInv, Cut
  <2> QED
    BY <2>1, <2>2, <2>3 DEF Next
<1> QED
  BY <1>1, <1>2, OperatorInvariance, PTL DEF Spec

\* What a backup has copied, in however many steps and of however many publications, does
\* not change until it ends.
THEOREM BackupCuts ==
  ASSUME ~Overlapping
  PROVE  Spec => []BackupIsOneCut
<1>1. CutInv => BackupIsOneCut
  BY BackupPlaces DEF CutInv, Cut, BackupIsOneCut, NoParts, Parts, Stores
<1> QED
  BY <1>1, CutInvariance, PTL

-----------------------------------------------------------------------------
(* What a restore brings back *)

\* Publications and keys that fit together.
Whole(v) ==
  /\ v["cloud"] \in SUBSET Items
  /\ v["cloud"] \subseteq v["xprem"] /\ v["xprem"] \subseteq v["state"]
  /\ \A a \in Apps : v["bindings"][a] # None =>
       v["bindings"][a].key \in v["keys"][v["bindings"][a].id]

\* A publication reaches the volumes in their order.
StoresInv ==
  /\ store \in [Stores -> SUBSET Items]
  /\ store["cloud"] \subseteq store["xprem"] /\ store["xprem"] \subseteq store["state"]

\* What a backup has copied on its way, the bindings last.
CopiedInv ==
  \A c \in Commands :
    /\ pc[c] \in Window \ {"backup cloud"} => set["cloud"] = store["cloud"]
    /\ pc[c] \in {"backup state", "backup secrets", "backup start"} =>
         set["xprem"] = store["xprem"] /\ set["keys"] = live
    /\ pc[c] \in {"backup secrets", "backup start"} => set["state"] = store["state"]
    /\ pc[c] \in ({"backup stop"} \union Window) \ {"backup start"} => set["bindings"] = None

\* A backup that has its bindings is complete.
SetInv == set["bindings"] # None => Whole(set)

Restoring == {"restore cloud", "restore xprem", "restore state"}

\* What a restore has brought back on its way.
RestoringInv ==
  \A c \in Commands : pc[c] \in Restoring =>
    /\ ~restored /\ set["bindings"] # None /\ volumes["bindings"] = set["bindings"]
    /\ pc[c] # "restore cloud" => volumes["cloud"] = set["cloud"]
    /\ pc[c] = "restore state" => volumes["xprem"] = set["xprem"] /\ volumes["keys"] = set["keys"]

WholeInv ==
  /\ volumes = [p \in Parts |-> volumes[p]]
  /\ restored \in BOOLEAN
  /\ StoresInv /\ CopiedInv /\ SetInv /\ RestoringInv
  /\ restored => Whole(volumes)
-----------------------------------------------------------------------------
\* Where a command has something to do with a backup or with a fresh project.
Engaged == {"backup stop"} \union Window \union Restoring

LEMMA InitWhole == Init => WholeInv
<1> SUFFICES ASSUME Init PROVE WholeInv
  OBVIOUS
<1>1. StoresInv
  BY DEF Init, StoresInv, Stores
<1>2. CopiedInv /\ RestoringInv
  BY DEF Init, CopiedInv, RestoringInv, Restoring, Window
<1>3. SetInv
  BY DEF Init, SetInv, NoParts, Parts
<1> QED
  BY <1>1, <1>2, <1>3 DEF Init, WholeInv, NoParts

\* A step that leaves publications, backup and fresh project alone, in which nobody goes on
\* with a backup or a restore.
LEMMA Aside ==
  ASSUME WholeInv, UNCHANGED <<store, set, volumes, restored>>,
         \A c \in Commands : pc'[c] \in Engaged => pc'[c] = pc[c],
         UNCHANGED live \/ \A c \in Commands : pc[c] \in Idle
  PROVE  WholeInv'
<1>1. StoresInv' /\ SetInv'
  BY DEF WholeInv, StoresInv, SetInv, Whole
<1>2. CopiedInv'
  <2> SUFFICES ASSUME NEW c \in Commands, pc'[c] \in {"backup stop"} \union Window
               PROVE  /\ pc'[c] \in Window \ {"backup cloud"} => set'["cloud"] = store'["cloud"]
                      /\ pc'[c] \in {"backup state", "backup secrets", "backup start"} =>
                           set'["xprem"] = store'["xprem"] /\ set'["keys"] = live'
                      /\ pc'[c] \in {"backup secrets", "backup start"} => set'["state"] = store'["state"]
                      /\ pc'[c] \in ({"backup stop"} \union Window) \ {"backup start"} =>
                           set'["bindings"] = None
    BY DEF CopiedInv, Window
  <2>1. pc'[c] = pc[c] /\ pc[c] \notin Idle
    BY DEF Engaged, Window, Idle
  <2>2. UNCHANGED <<store, set, live>>
    BY <2>1
  <2> QED
    BY <2>1, <2>2 DEF WholeInv, CopiedInv
<1>3. RestoringInv'
  BY DEF WholeInv, RestoringInv, Engaged
<1> QED
  BY <1>1, <1>2, <1>3 DEF WholeInv, Whole

\* A command goes to a place where it has nothing to do with them.
LEMMA GoesAside ==
  ASSUME IInv, WholeInv, UNCHANGED <<store, set, volumes, restored, live>>,
         NEW c \in Commands, NEW place, place \notin Engaged, Goto(c, place)
  PROVE  WholeInv'
<1>1. \A d \in Commands : pc'[d] \in Engaged => pc'[d] = pc[d]
  BY DEF IInv, FileTypes, Goto
<1> QED
  BY <1>1, Aside

\* The others are idle while a command is under way, or begins.
LEMMA OthersIdle ==
  ASSUME ~Overlapping, IInv, NEW c \in Commands, pc[c] \notin Idle \/ Starts(c), NEW place, Goto(c, place)
  PROVE  \A d \in Commands : pc'[d] = (IF d = c THEN place ELSE pc[d]) /\ (d # c => pc'[d] \in Idle)
BY DEF IInv, FileTypes, OneAtATime, Starts, At, Goto

LEMMA PutWhole ==
  ASSUME IInv, WholeInv, NEW c \in Commands, Put(c)
  PROVE  WholeInv'
<1>1. UNCHANGED <<store, set, volumes, restored, live>>
  BY DEF Put, PutRead, PutCreate, PutValidate, PutReplace, PutAbandon, PutRecreate, PutRecreateFails, target
<1>2. \E place \in {"ended", "put create", "put validate", "put replace", "put recreate"} : Goto(c, place)
  BY DEF Put, PutRead, PutCreate, PutValidate, PutReplace, PutAbandon, PutRecreate, PutRecreateFails
<1> QED
  BY <1>1, <1>2, GoesAside DEF Engaged, Window, Restoring

-----------------------------------------------------------------------------
\* A backup goes on from one place of it to another: nobody restores meanwhile, and what it
\* says of the backup is what is left to show.
LEMMA BackupGoesOn ==
  ASSUME ~Overlapping, IInv, WholeInv, NEW c \in Commands, pc[c] \notin Idle \/ Starts(c),
         NEW place \in {"backup stop"} \union Window, Goto(c, place),
         UNCHANGED <<store, live, volumes, restored>>,
         place \in Window \ {"backup cloud"} => set'["cloud"] = store["cloud"],
         place \in {"backup state", "backup secrets", "backup start"} =>
           set'["xprem"] = store["xprem"] /\ set'["keys"] = live,
         place \in {"backup secrets", "backup start"} => set'["state"] = store["state"],
         place # "backup start" => set'["bindings"] = None,
         SetInv'
  PROVE  WholeInv'
<1>1. \A d \in Commands : pc'[d] = (IF d = c THEN place ELSE pc[d]) /\ (d # c => pc'[d] \in Idle)
  BY OthersIdle
<1>2. CopiedInv'
  BY <1>1 DEF CopiedInv, Idle, Window
<1>3. RestoringInv'
  BY <1>1 DEF RestoringInv, Restoring, Idle, Window
<1>4. StoresInv' /\ (restored => Whole(volumes))'
  BY DEF WholeInv, StoresInv, Whole
<1> QED
  BY <1>2, <1>3, <1>4 DEF WholeInv

\* What a backup in its window copies before the bindings.
LEMMA CopyWhole ==
  ASSUME ~Overlapping, IInv, CutInv, WholeInv, NEW c \in Commands, BackupCloud(c) \/ BackupXprem(c) \/ BackupState(c)
  PROVE  WholeInv'
<1>1. set = [p \in Parts |-> set[p]]
  BY DEF CutInv
<1>2. CASE BackupCloud(c)
  <2>1. pc[c] = "backup cloud" /\ Goto(c, "backup xprem")
        /\ UNCHANGED <<store, live, volumes, restored>>
        /\ set' = [set EXCEPT !["cloud"] = store["cloud"]]
    BY <1>2 DEF BackupCloud, Copy, At, target
  <2>2. set["bindings"] = None
    BY <2>1 DEF WholeInv, CopiedInv, Window
  <2>3. set'["cloud"] = store["cloud"] /\ set'["bindings"] = None
    BY <1>1, <2>1, <2>2 DEF Parts, Stores
  <2> QED
    BY <2>1, <2>3, BackupGoesOn DEF SetInv, Window, Idle
<1>3. CASE BackupXprem(c)
  <2>1. pc[c] = "backup xprem" /\ Goto(c, "backup state")
        /\ UNCHANGED <<store, live, volumes, restored>>
        /\ set' = [set EXCEPT !["xprem"] = store["xprem"], !["keys"] = live]
    BY <1>3 DEF BackupXprem, Copy, At, target
  <2>2. set["bindings"] = None /\ set["cloud"] = store["cloud"]
    BY <2>1 DEF WholeInv, CopiedInv, Window
  <2>3. /\ set'["cloud"] = store["cloud"] /\ set'["bindings"] = None
        /\ set'["xprem"] = store["xprem"] /\ set'["keys"] = live
    BY <1>1, <2>1, <2>2 DEF Parts, Stores
  <2> QED
    BY <2>1, <2>3, BackupGoesOn DEF SetInv, Window, Idle
<1>4. CASE BackupState(c)
  <2>1. pc[c] = "backup state" /\ Goto(c, "backup secrets")
        /\ UNCHANGED <<store, live, volumes, restored>>
        /\ set' = [set EXCEPT !["state"] = store["state"]]
    BY <1>4 DEF BackupState, Copy, At, target
  <2>2. /\ set["bindings"] = None /\ set["cloud"] = store["cloud"]
        /\ set["xprem"] = store["xprem"] /\ set["keys"] = live
    BY <2>1 DEF WholeInv, CopiedInv, Window
  <2>3. /\ set'["cloud"] = store["cloud"] /\ set'["bindings"] = None
        /\ set'["xprem"] = store["xprem"] /\ set'["keys"] = live /\ set'["state"] = store["state"]
    BY <1>1, <2>1, <2>2 DEF Parts, Stores
  <2> QED
    BY <2>1, <2>3, BackupGoesOn DEF SetInv, Window, Idle
<1> QED
  BY <1>2, <1>3, <1>4

\* With the bindings the backup is complete, and fits together because the keys of the file
\* are those xprem accepts and nothing was written in the window.
LEMMA SecretsWhole ==
  ASSUME ~Overlapping, IInv, KeysInv, CutInv, WholeInv, NEW c \in Commands, BackupSecrets(c)
  PROVE  WholeInv'
<1>1. pc[c] = "backup secrets" /\ Goto(c, "backup start")
      /\ UNCHANGED <<store, live, volumes, restored>>
      /\ set' = [set EXCEPT !["bindings"] = bindings]
  BY DEF BackupSecrets, Copy, At, target
<1>2. set = [p \in Parts |-> set[p]]
  BY DEF CutInv
<1>3. /\ set["cloud"] = store["cloud"] /\ set["xprem"] = store["xprem"]
      /\ set["keys"] = live /\ set["state"] = store["state"]
  BY <1>1 DEF WholeInv, CopiedInv, Window
<1>4. /\ set'["cloud"] = store["cloud"] /\ set'["xprem"] = store["xprem"]
      /\ set'["keys"] = live /\ set'["state"] = store["state"] /\ set'["bindings"] = bindings
  BY <1>1, <1>2, <1>3 DEF Parts, Stores
<1>5. StoresInv /\ Live(bindings)
  BY DEF WholeInv, KeysInv
<1>6. store["cloud"] \in SUBSET Items
  BY <1>5 DEF StoresInv, Stores
<1>7. SetInv'
  BY <1>4, <1>5, <1>6 DEF SetInv, Whole, StoresInv, Live
<1> QED
  BY <1>1, <1>4, <1>7, BackupGoesOn DEF Window, Idle

LEMMA SaveWhole ==
  ASSUME ~Overlapping, IInv, KeysInv, CutInv, WholeInv, NEW c \in Commands, Save(c)
  PROVE  WholeInv'
<1>1. CASE BackupBegin(c)
  <2>1. /\ Starts(c) /\ Goto(c, "backup stop") /\ set'["bindings"] = None
        /\ UNCHANGED <<store, live, volumes, restored>>
    BY <1>1 DEF BackupBegin, NoParts, Parts, target
  <2> QED
    BY <2>1, BackupGoesOn DEF SetInv, Window
<1>2. CASE BackupStop(c)
  <2>1. /\ pc[c] = "backup stop" /\ Goto(c, "backup cloud")
        /\ UNCHANGED <<store, live, set, volumes, restored>>
    BY <1>2 DEF BackupStop, At, target
  <2>2. set["bindings"] = None
    BY <2>1 DEF WholeInv, CopiedInv, Window
  <2>3. set'["bindings"] = None
    BY <2>1, <2>2
  <2> QED
    BY <2>1, <2>3, BackupGoesOn DEF SetInv, Window, Idle
<1>3. CASE BackupStart(c) \/ BackupFails(c)
  BY <1>3, GoesAside DEF BackupStart, BackupFails, target, Engaged, Window, Restoring
<1> QED
  BY <1>1, <1>2, <1>3, CopyWhole, SecretsWhole DEF Save

-----------------------------------------------------------------------------
\* A restore goes on from one place of it to another.
LEMMA RestoreGoesOn ==
  ASSUME ~Overlapping, IInv, WholeInv, NEW c \in Commands, pc[c] \notin Idle \/ Starts(c),
         NEW place \in Restoring, Goto(c, place),
         UNCHANGED <<store, live, set, restored>>,
         volumes' = [p \in Parts |-> volumes'[p]],
         ~restored, set["bindings"] # None, volumes'["bindings"] = set["bindings"],
         place # "restore cloud" => volumes'["cloud"] = set["cloud"],
         place = "restore state" => volumes'["xprem"] = set["xprem"] /\ volumes'["keys"] = set["keys"]
  PROVE  WholeInv'
<1>1. \A d \in Commands : pc'[d] = (IF d = c THEN place ELSE pc[d]) /\ (d # c => pc'[d] \in Idle)
  BY OthersIdle
<1>2. CopiedInv'
  BY <1>1 DEF CopiedInv, Restoring, Idle, Window
<1>3. RestoringInv'
  BY <1>1 DEF RestoringInv, Restoring, Idle
<1>4. StoresInv' /\ SetInv'
  BY DEF WholeInv, StoresInv, SetInv, Whole
<1> QED
  BY <1>2, <1>3, <1>4 DEF WholeInv

\* A restore ends.
LEMMA RestoreEnds ==
  ASSUME ~Overlapping, IInv, WholeInv, NEW c \in Commands, pc[c] \notin Idle,
         Goto(c, "ended"), UNCHANGED <<store, live, set>>,
         volumes' = [p \in Parts |-> volumes'[p]], restored' \in BOOLEAN, restored' => Whole(volumes')
  PROVE  WholeInv'
<1>1. \A d \in Commands : pc'[d] \in Idle
  BY OthersIdle DEF Idle
<1>2. CopiedInv' /\ RestoringInv'
  BY <1>1 DEF CopiedInv, RestoringInv, Restoring, Idle, Window
<1>3. StoresInv' /\ SetInv'
  BY DEF WholeInv, StoresInv, SetInv, Whole
<1> QED
  BY <1>2, <1>3 DEF WholeInv, Whole

LEMMA RestoreWholly ==
  ASSUME ~Overlapping, IInv, WholeInv, NEW c \in Commands, Restore(c)
  PROVE  WholeInv'
<1>1. volumes = [p \in Parts |-> volumes[p]] /\ restored \in BOOLEAN
  BY DEF WholeInv
<1>2. CASE RestoreBegin(c)
  <2>1. CASE volumes["cloud"] = None /\ volumes["xprem"] = None
    <3>1. /\ Starts(c) /\ Goto(c, "restore cloud") /\ set["bindings"] # None
          /\ volumes' = [volumes EXCEPT !["bindings"] = set["bindings"]]
          /\ UNCHANGED <<store, live, set, restored>>
      BY <1>2, <2>1 DEF RestoreBegin
    <3>2. ~restored
      BY <1>1, <2>1, OperatorAssumption DEF WholeInv, Whole
    <3>3. volumes' = [p \in Parts |-> volumes'[p]] /\ volumes'["bindings"] = set["bindings"]
      BY <1>1, <3>1 DEF Parts
    <3> QED
      BY <3>1, <3>2, <3>3, RestoreGoesOn DEF Restoring
  <2>2. CASE ~(volumes["cloud"] = None /\ volumes["xprem"] = None)
    BY <1>2, <2>2, GoesAside DEF RestoreBegin, Engaged, Window, Restoring
  <2> QED
    BY <2>1, <2>2
<1>3. CASE RestoreCloud(c)
  <2>1. /\ pc[c] = "restore cloud" /\ Goto(c, "restore xprem")
        /\ volumes' = [volumes EXCEPT !["cloud"] = set["cloud"]]
        /\ UNCHANGED <<store, live, set, restored>>
    BY <1>3 DEF RestoreCloud, At
  <2>2. ~restored /\ set["bindings"] # None /\ volumes["bindings"] = set["bindings"]
    BY <2>1 DEF WholeInv, RestoringInv, Restoring
  <2>3. /\ volumes' = [p \in Parts |-> volumes'[p]]
        /\ volumes'["bindings"] = set["bindings"] /\ volumes'["cloud"] = set["cloud"]
    BY <1>1, <2>1, <2>2 DEF Parts, Stores
  <2> QED
    BY <2>1, <2>2, <2>3, RestoreGoesOn DEF Restoring, Idle
<1>4. CASE RestoreXprem(c)
  <2>1. /\ pc[c] = "restore xprem" /\ Goto(c, "restore state")
        /\ volumes' = [volumes EXCEPT !["xprem"] = set["xprem"], !["keys"] = set["keys"]]
        /\ UNCHANGED <<store, live, set, restored>>
    BY <1>4 DEF RestoreXprem, At
  <2>2. /\ ~restored /\ set["bindings"] # None
        /\ volumes["bindings"] = set["bindings"] /\ volumes["cloud"] = set["cloud"]
    BY <2>1 DEF WholeInv, RestoringInv, Restoring
  <2>3. /\ volumes' = [p \in Parts |-> volumes'[p]]
        /\ volumes'["bindings"] = set["bindings"] /\ volumes'["cloud"] = set["cloud"]
        /\ volumes'["xprem"] = set["xprem"] /\ volumes'["keys"] = set["keys"]
    BY <1>1, <2>1, <2>2 DEF Parts, Stores
  <2> QED
    BY <2>1, <2>2, <2>3, RestoreGoesOn DEF Restoring, Idle
<1>5. CASE RestoreState(c)
  <2>1. /\ pc[c] = "restore state" /\ Goto(c, "ended") /\ restored'
        /\ volumes' = [volumes EXCEPT !["state"] = set["state"]]
        /\ UNCHANGED <<store, live, set>>
    BY <1>5 DEF RestoreState, At
  <2>2. /\ set["bindings"] # None
        /\ volumes["bindings"] = set["bindings"] /\ volumes["cloud"] = set["cloud"]
        /\ volumes["xprem"] = set["xprem"] /\ volumes["keys"] = set["keys"]
    BY <2>1 DEF WholeInv, RestoringInv, Restoring
  <2>3. Whole(set)
    BY <2>2 DEF WholeInv, SetInv
  <2>4. /\ volumes' = [p \in Parts |-> volumes'[p]]
        /\ volumes'["bindings"] = set["bindings"] /\ volumes'["cloud"] = set["cloud"]
        /\ volumes'["xprem"] = set["xprem"] /\ volumes'["keys"] = set["keys"]
        /\ volumes'["state"] = set["state"]
    BY <1>1, <2>1, <2>2 DEF Parts, Stores
  <2>5. Whole(volumes')
    BY <2>3, <2>4 DEF Whole
  <2>6. restored' \in BOOLEAN
    BY <1>5 DEF RestoreState
  <2> QED
    BY <2>1, <2>4, <2>5, <2>6, RestoreEnds DEF Idle
<1>6. CASE RestoreFails(c)
  <2>1. PICK s \in Stores : At(c, RestoreAt[s]) /\ \E part \in SUBSET set[s] :
               volumes' = [volumes EXCEPT ![s] = IF @ = None THEN part ELSE @]
    BY <1>6 DEF RestoreFails
  <2>2. pc[c] \in Restoring
    <3>1. RestoreAt["cloud"] \in Restoring /\ RestoreAt["xprem"] \in Restoring /\ RestoreAt["state"] \in Restoring
      BY DEF RestoreAt, Restoring
    <3>2. RestoreAt[s] \in Restoring
      BY <3>1 DEF Stores
    <3> QED
      BY <2>1, <3>2 DEF At
  <2>3. ~restored
    BY <2>2 DEF WholeInv, RestoringInv
  <2>4. volumes' = [p \in Parts |-> volumes'[p]]
    BY <1>1, <2>1
  <2>5. Goto(c, "ended") /\ UNCHANGED <<store, live, set, restored>> /\ pc[c] \notin Idle
    BY <1>6, <2>2 DEF RestoreFails, Restoring, Idle
  <2>6. restored' \in BOOLEAN /\ ~restored'
    BY <1>1, <2>3, <2>5
  <2> QED
    BY <2>4, <2>5, <2>6, RestoreEnds
<1> QED
  BY <1>2, <1>3, <1>4, <1>5, <1>6 DEF Restore

LEMMA AroundWhole ==
  ASSUME ~Overlapping, CutInv, WholeInv, Around
  PROVE  WholeInv'
<1>1. CASE OperatorStarts \/ RemoveCandidate \/ CloudRestarts
  BY <1>1, Aside DEF OperatorStarts, RemoveCandidate, CloudRestarts, target
<1>2. CASE \E i \in Identities, k \in Keys : KeyCreate(i, k) \/ KeyRevoke(i, k)
  BY <1>2, Aside DEF KeyCreate, KeyRevoke, Quiet, target
<1>3. CASE FreshProject
  <2>1. /\ \A c \in Commands : pc'[c] \in Idle
        /\ volumes' = NoParts /\ restored' = FALSE /\ UNCHANGED <<store, set>>
    BY <1>3 DEF FreshProject, Quiet
  <2>2. CopiedInv' /\ RestoringInv'
    BY <2>1 DEF CopiedInv, RestoringInv, Restoring, Idle, Window
  <2>3. StoresInv' /\ SetInv'
    BY <2>1 DEF WholeInv, StoresInv, SetInv, Whole
  <2> QED
    BY <2>1, <2>2, <2>3 DEF WholeInv, NoParts
<1>4. ASSUME NEW s \in Stores, NEW item \in Items, Write(s, item)
      PROVE  WholeInv'
  <2>1. /\ \A c \in Commands : pc[c] \notin Window
        /\ UNCHANGED <<pc, set, volumes, restored>>
        /\ store' = [store EXCEPT ![s] = @ \union {item}]
    BY <1>4 DEF Write, CutInv, target
  <2>2. StoresInv'
    <3>1. store' \in [Stores -> SUBSET Items]
      BY <2>1 DEF WholeInv, StoresInv
    <3>2. store'["cloud"] \subseteq store'["xprem"] /\ store'["xprem"] \subseteq store'["state"]
      BY <1>4, <2>1 DEF Write, WholeInv, StoresInv, Stores
    <3> QED
      BY <3>1, <3>2 DEF StoresInv
  <2>3. CopiedInv' /\ RestoringInv' /\ SetInv'
    BY <2>1 DEF WholeInv, CopiedInv, RestoringInv, SetInv, Whole, Window
  <2> QED
    BY <2>1, <2>2, <2>3 DEF WholeInv, Whole
<1> QED
  BY <1>1, <1>2, <1>3, <1>4 DEF Around

LEMMA WholeHolds ==
  ASSUME ~Overlapping, IInv, KeysInv, CutInv, WholeInv, [Next]_vars
  PROVE  WholeInv'
<1>1. ASSUME NEW c \in Commands, Kill(c)
      PROVE  WholeInv'
  BY <1>1, GoesAside DEF Kill, target, Engaged, Window, Restoring
<1>2. CASE \E c \in Commands : Put(c) \/ Save(c) \/ Restore(c) \/ Kill(c)
  BY <1>1, <1>2, PutWhole, SaveWhole, RestoreWholly
<1>3. CASE Around
  BY <1>3, AroundWhole
<1>4. CASE UNCHANGED vars
  BY <1>4, Aside DEF vars
<1> QED
  BY <1>2, <1>3, <1>4 DEF Next

\* A restore that reports completion leaves databases, state and secrets that fit together,
\* however often backups and restores failed or were killed before it.
THEOREM RestoresWhole ==
  ASSUME ~Overlapping
  PROVE  Spec => []RestoredIsWhole
<1>1. Init => WholeInv
  BY InitWhole
<1>2. IInv /\ KeysInv /\ CutInv /\ WholeInv /\ [Next]_vars => WholeInv'
  BY WholeHolds
<1>3. WholeInv => RestoredIsWhole
  BY DEF WholeInv, Whole, RestoredIsWhole
<1> QED
  BY <1>1, <1>2, <1>3, OperatorInvariance, KeysInvariance, CutInvariance, PTL DEF Spec
=============================================================================
