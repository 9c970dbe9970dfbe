------------------------------ MODULE Operator ------------------------------
(***************************************************************************)
(* The operator's commands on one deployment (deploy/ops.py): binding-put, *)
(* which replaces the private file that binds each application of Cloud to *)
(* an identity and a key of xprem, backup, which copies databases, state   *)
(* and secrets inside a maintenance window, and restore into a project     *)
(* with fresh volumes.                                                     *)
(*                                                                         *)
(* A command is a process on the operator's host.  Each of its steps that  *)
(* reads or changes a file, a service or a volume is an action; it may     *)
(* fail there, which runs its finally blocks, or be killed, which does     *)
(* not.  The containers go on meanwhile.                                   *)
(***************************************************************************)
EXTENDS Naturals

CONSTANTS
  Commands,     \* runs of ops.py, each at most once
  Apps,         \* applications of Cloud
  Identities,   \* xprem applications with their certificate: what an APK trusts
  Keys,         \* API keys an xprem application may have
  Items,        \* publications
  Overlapping,  \* TRUE when the operator may start a command before another ends
  None

ASSUME OperatorAssumption ==
  /\ Overlapping \in BOOLEAN
  /\ None \notin [id : Identities, key : Keys] \union [Identities -> SUBSET Keys]
  /\ \A items \in SUBSET Items : items # None

VARIABLES
  bindings,   \* bindings.json
  candidate,  \* bindings.candidate, None when the file does not exist
  live,       \* the keys of each identity that xprem accepts
  up,         \* the services that run
  loaded,     \* the bindings Cloud read when it started
  proven,     \* TRUE when the latest replacement of the file was seen to complete
  store,      \* the publications in each volume
  pc,         \* where each command is
  plan,       \* what each binding-put is about to write
  set,        \* the latest backup directory: its parts, None where absent
  volumes,    \* the parts restored into the fresh project
  restored    \* TRUE once restore has reported completion

files == <<bindings, candidate>>
target == <<volumes, restored>>
cloud == <<loaded, proven>>
vars == <<bindings, candidate, live, up, loaded, proven, store, pc, plan, set, volumes, restored>>

Services == {"proxy", "cloud", "xprem"}

\* The volumes, in the order in which one publication reaches them.
Stores == {"state", "xprem", "cloud"}

Binding == [id : Identities, key : Keys]

Bindings == [Apps -> Binding \union {None}]

\* A backup: what each volume held, the keys in the xprem database, the bindings in secrets.
Parts == Stores \union {"keys", "bindings"}

NoParts == [p \in Parts |-> None]

Idle == {"new", "ended"}

NoBindings == [a \in Apps |-> None]

Init ==
  /\ bindings = NoBindings
  /\ candidate = None
  /\ live \in [Identities -> {{k} : k \in Keys}]
  /\ up = Services
  /\ loaded = bindings
  /\ proven = TRUE
  /\ store = [s \in Stores |-> {}]
  /\ pc = [c \in Commands |-> "new"]
  /\ plan = [c \in Commands |-> NoBindings]
  /\ set = NoParts
  /\ volumes = NoParts
  /\ restored = FALSE

At(c, place) == pc[c] = place
Goto(c, place) == pc' = [pc EXCEPT ![c] = place]

\* The operator starts a command while no other runs, or whenever it likes.
Starts(c) == At(c, "new") /\ (Overlapping \/ \A d \in Commands : pc[d] \in Idle)

-----------------------------------------------------------------------------
(* binding-put *)

\* Faulty variant: any binding may be replaced.
KeepsAnything(old, app, b) == TRUE

\* A binding is replaced only by one of the same xprem application and certificate.
KeepsIdentity(old, app, b) == old[app] # None => old[app].id = b.id

\* The file is read, the replacement checked against it, and the new contents built.
PutRead(c, app, b) ==
  /\ Starts(c)
  /\ IF KeepsIdentity(bindings, app, b)
     THEN /\ Goto(c, "put create")
          /\ plan' = [plan EXCEPT ![c] = [bindings EXCEPT ![app] = b]]
     ELSE Goto(c, "ended") /\ UNCHANGED plan
  /\ UNCHANGED <<files, live, up, cloud, store, set, target>>

\* The candidate is created exclusively; one left behind refuses the command.
PutCreate(c) ==
  /\ At(c, "put create")
  /\ IF candidate = None
     THEN Goto(c, "put validate") /\ candidate' = plan[c]
     ELSE Goto(c, "ended") /\ UNCHANGED candidate
  /\ plan' = [plan EXCEPT ![c] = NoBindings]
  /\ UNCHANGED <<bindings, live, up, cloud, store, set, target>>

\* loadBindings admits one application per identity, and xprem answers each key with
\* its application and certificate.
Valid(b) ==
  /\ b # None
  /\ "xprem" \in up
  /\ \A a \in Apps : b[a] # None => b[a].key \in live[b[a].id]
  /\ \A a, o \in Apps : b[a] # None /\ b[o] # None /\ b[a].id = b[o].id => a = o

\* A one-off Cloud container reads the candidate file and tries every binding in it.
PutValidate(c) ==
  /\ At(c, "put validate")
  /\ Valid(candidate)
  /\ Goto(c, "put replace")
  /\ UNCHANGED <<files, live, up, cloud, store, plan, set, target>>

\* The candidate takes the file's place, and the finally block finds nothing to remove.
PutReplace(c) ==
  /\ At(c, "put replace")
  /\ candidate # None
  /\ bindings' = candidate
  /\ candidate' = None
  /\ proven' = FALSE
  /\ Goto(c, "put recreate")
  /\ UNCHANGED <<live, up, loaded, store, plan, set, target>>

\* The finally block of a failed command removes whatever candidate there is.
PutAbandon(c) ==
  /\ pc[c] \in {"put validate", "put replace"}
  /\ candidate' = None
  /\ Goto(c, "ended")
  /\ UNCHANGED <<bindings, live, up, cloud, store, plan, set, target>>

\* Faulty variant: compose leaves a container alone whose definition has not changed.
PutRecreateIfDown(c) ==
  /\ At(c, "put recreate")
  /\ up' = up \union {"cloud"}
  /\ loaded' = IF "cloud" \in up THEN loaded ELSE bindings
  /\ proven' = TRUE
  /\ Goto(c, "ended")
  /\ UNCHANGED <<files, live, store, plan, set, target>>

\* Cloud is started anew with the file as it now is.
PutRecreate(c) ==
  /\ At(c, "put recreate")
  /\ up' = up \union {"cloud"}
  /\ loaded' = bindings
  /\ proven' = TRUE
  /\ Goto(c, "ended")
  /\ UNCHANGED <<files, live, store, plan, set, target>>

\* compose stopped the old container and could not start the new one.
PutRecreateFails(c) ==
  /\ At(c, "put recreate")
  /\ up' \in {up, up \ {"cloud"}}
  /\ Goto(c, "ended")
  /\ UNCHANGED <<files, live, cloud, store, plan, set, target>>

-----------------------------------------------------------------------------
(* backup *)

Backup == {"backup stop", "backup cloud", "backup xprem", "backup state", "backup secrets", "backup start"}

InBackup(c) == pc[c] \in Backup

\* A directory of its own is made for the backup.
BackupBegin(c) ==
  /\ Starts(c)
  /\ Goto(c, "backup stop")
  /\ set' = NoParts
  /\ UNCHANGED <<files, live, up, cloud, store, plan, target>>

\* Faulty variant: customers are kept out, the services go on.
StoppedProxy == up \ {"proxy"}

\* The maintenance window: whatever writes is stopped, and stays so if the backup fails.
Stopped == {}

BackupStop(c) ==
  /\ At(c, "backup stop")
  /\ up' = Stopped
  /\ Goto(c, "backup cloud")
  /\ UNCHANGED <<files, live, cloud, store, plan, set, target>>

Copy(c, place, next, parts) ==
  /\ At(c, place)
  /\ set' = parts
  /\ Goto(c, next)
  /\ UNCHANGED <<files, live, up, cloud, store, plan, target>>

BackupCloud(c) ==
  Copy(c, "backup cloud", "backup xprem", [set EXCEPT !["cloud"] = store["cloud"]])

BackupXprem(c) ==
  Copy(c, "backup xprem", "backup state",
       [set EXCEPT !["xprem"] = store["xprem"], !["keys"] = live])

BackupState(c) ==
  Copy(c, "backup state", "backup secrets", [set EXCEPT !["state"] = store["state"]])

BackupSecrets(c) ==
  Copy(c, "backup secrets", "backup start", [set EXCEPT !["bindings"] = bindings])

\* Services that do not run are started; Cloud reads the bindings if it is one of them.
StartServices ==
  /\ up' = Services
  /\ loaded' = IF "cloud" \in up THEN loaded ELSE bindings

BackupStart(c) ==
  /\ At(c, "backup start")
  /\ StartServices
  /\ Goto(c, "ended")
  /\ UNCHANGED <<files, live, proven, store, plan, set, target>>

\* Any step of a backup may fail; one that was stopping services has stopped some.
BackupFails(c) ==
  /\ InBackup(c)
  /\ IF At(c, "backup stop") THEN up' \in SUBSET up ELSE UNCHANGED up
  /\ Goto(c, "ended")
  /\ UNCHANGED <<files, live, cloud, store, plan, set, target>>

-----------------------------------------------------------------------------
(* restore *)

\* Databases with tables refuse the command.
RestoreBegin(c) ==
  /\ Starts(c)
  /\ set["bindings"] # None
  /\ IF volumes["cloud"] = None /\ volumes["xprem"] = None
     THEN /\ Goto(c, "restore cloud")
          /\ volumes' = [volumes EXCEPT !["bindings"] = set["bindings"]]
     ELSE Goto(c, "ended") /\ UNCHANGED volumes
  /\ UNCHANGED <<files, live, up, cloud, store, plan, set, restored>>

RestoreCloud(c) ==
  /\ At(c, "restore cloud")
  /\ volumes' = [volumes EXCEPT !["cloud"] = set["cloud"]]
  /\ Goto(c, "restore xprem")
  /\ UNCHANGED <<files, live, up, cloud, store, plan, set, restored>>

\* Faulty variant: an error in the database's archive does not end pg_restore.
RestoreXpremRegardless(c) ==
  /\ At(c, "restore xprem")
  /\ \E part \in SUBSET set["xprem"] :
       volumes' = [volumes EXCEPT !["xprem"] = part, !["keys"] = set["keys"]]
  /\ Goto(c, "restore state")
  /\ UNCHANGED <<files, live, up, cloud, store, plan, set, restored>>

\* The database, with the grants of its runtime role.
RestoreXprem(c) ==
  /\ At(c, "restore xprem")
  /\ volumes' = [volumes EXCEPT !["xprem"] = set["xprem"], !["keys"] = set["keys"]]
  /\ Goto(c, "restore state")
  /\ UNCHANGED <<files, live, up, cloud, store, plan, set, restored>>

\* A volume that holds state already refuses the rest of the command.
RestoreState(c) ==
  /\ At(c, "restore state")
  /\ volumes["state"] = None
  /\ volumes' = [volumes EXCEPT !["state"] = set["state"]]
  /\ restored' = TRUE
  /\ Goto(c, "ended")
  /\ UNCHANGED <<files, live, up, cloud, store, plan, set>>

RestoreAt == [cloud |-> "restore cloud", xprem |-> "restore xprem", state |-> "restore state"]

\* A part that fails has restored some of what it holds.
RestoreFails(c) ==
  /\ \E s \in Stores : At(c, RestoreAt[s]) /\ \E part \in SUBSET set[s] :
       volumes' = [volumes EXCEPT ![s] = IF @ = None THEN part ELSE @]
  /\ Goto(c, "ended")
  /\ UNCHANGED <<files, live, up, cloud, store, plan, set, restored>>

-----------------------------------------------------------------------------
(* What goes on around the commands *)

\* A command is killed: no finally block runs.
Kill(c) ==
  /\ pc[c] \notin Idle
  /\ Goto(c, "ended")
  /\ plan' = [plan EXCEPT ![c] = NoBindings]
  /\ UNCHANGED <<files, live, up, cloud, store, set, target>>

\* The operator leaves the deployment alone while a command runs, unless commands overlap.
Quiet == Overlapping \/ \A c \in Commands : pc[c] \in Idle

\* compose up by hand, as after a failed backup.
OperatorStarts ==
  /\ Quiet /\ up # Services
  /\ StartServices
  /\ UNCHANGED <<files, live, proven, store, pc, plan, set, target>>

\* The operator removes a candidate that a killed command left.
RemoveCandidate ==
  /\ Quiet /\ candidate # None
  /\ candidate' = None
  /\ UNCHANGED <<bindings, live, up, cloud, store, pc, plan, set, target>>

\* The operator creates a key, or revokes one that the proven file does not use.
KeyCreate(i, k) ==
  /\ Quiet
  /\ live' = [live EXCEPT ![i] = @ \union {k}]
  /\ UNCHANGED <<files, up, cloud, store, pc, plan, set, target>>

KeyRevoke(i, k) ==
  /\ Quiet /\ proven
  /\ \A a \in Apps : bindings[a] # [id |-> i, key |-> k]
  /\ live' = [live EXCEPT ![i] = @ \ {k}]
  /\ UNCHANGED <<files, up, cloud, store, pc, plan, set, target>>

\* Docker restarts a Cloud that exited: it reads the file as it is.
CloudRestarts ==
  /\ "cloud" \in up
  /\ loaded' = bindings
  /\ UNCHANGED <<files, live, up, proven, store, pc, plan, set, target>>

\* A publication reaches xprem's state, then its database, then Cloud's.
Write(s, item) ==
  /\ {"cloud", "xprem"} \subseteq up
  /\ s = "xprem" => item \in store["state"]
  /\ s = "cloud" => item \in store["xprem"]
  /\ store' = [store EXCEPT ![s] = @ \union {item}]
  /\ UNCHANGED <<files, live, up, cloud, pc, plan, set, target>>

\* Another project with volumes of its own, whose databases bootstrap creates empty.
FreshProject ==
  /\ Quiet
  /\ volumes' = NoParts
  /\ restored' = FALSE
  /\ UNCHANGED <<files, live, up, cloud, store, pc, plan, set>>

-----------------------------------------------------------------------------
Put(c) ==
  \/ \E app \in Apps, b \in Binding : PutRead(c, app, b)
  \/ PutCreate(c) \/ PutValidate(c) \/ PutReplace(c) \/ PutAbandon(c)
  \/ PutRecreate(c) \/ PutRecreateFails(c)

Save(c) ==
  \/ BackupBegin(c) \/ BackupStop(c) \/ BackupCloud(c) \/ BackupXprem(c)
  \/ BackupState(c) \/ BackupSecrets(c) \/ BackupStart(c) \/ BackupFails(c)

Restore(c) ==
  RestoreBegin(c) \/ RestoreCloud(c) \/ RestoreXprem(c) \/ RestoreState(c) \/ RestoreFails(c)

Around ==
  \/ OperatorStarts \/ RemoveCandidate \/ CloudRestarts \/ FreshProject
  \/ \E i \in Identities, k \in Keys : KeyCreate(i, k) \/ KeyRevoke(i, k)
  \/ \E s \in Stores, item \in Items : Write(s, item)

Next == (\E c \in Commands : Put(c) \/ Save(c) \/ Restore(c) \/ Kill(c)) \/ Around

Spec == Init /\ [][Next]_vars

-----------------------------------------------------------------------------
(* Properties *)

\* Once an application's binding is installed, its identity is never changed or lost: the
\* application's APKs trust that certificate (binding-put, ops.py 129-130).
IdentityPreserved ==
  [][\A a \in Apps : bindings[a] # None =>
       bindings'[a] # None /\ bindings'[a].id = bindings[a].id]_vars

\* Whatever fails or is killed while keys are rotated, xprem accepts every key in the
\* file and every key the running Cloud has loaded: neither a restart of Cloud nor the
\* revocation of an old key cuts an application off.
KeysInUseAreLive ==
  \A a \in Apps :
    /\ bindings[a] # None => bindings[a].key \in live[bindings[a].id]
    /\ "cloud" \in up /\ loaded[a] # None => loaded[a].key \in live[loaded[a].id]

\* Until a backup ends, nothing it has copied changes: what it keeps is one cut of
\* databases, state and secrets, taken inside its window.
BackupIsOneCut ==
  (\E c \in Commands : InBackup(c)) =>
    /\ \A s \in Stores : set[s] # None => set[s] = store[s]
    /\ set["keys"] # None => set["keys"] = live
    /\ set["bindings"] # None => set["bindings"] = bindings

\* What a completed restore leaves is whole: each publication Cloud knows is in xprem with
\* its stored update, and the restored bindings authenticate to the restored xprem.
RestoredIsWhole ==
  restored =>
    /\ volumes["cloud"] \subseteq volumes["xprem"] /\ volumes["xprem"] \subseteq volumes["state"]
    /\ \A a \in Apps : volumes["bindings"][a] # None =>
         volumes["bindings"][a].key \in volumes["keys"][volumes["bindings"][a].id]
=============================================================================
