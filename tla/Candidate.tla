------------------------------ MODULE Candidate ------------------------------
(***************************************************************************)
(* Release candidates on the maintainer's machine.  stage.sh builds into a *)
(* new directory and packages it; consumer.py builds an application from   *)
(* the stage alone and leaves a receipt; sign.py exports a signed bundle   *)
(* of a stage with such a receipt and records its checksums in the         *)
(* coordinate ledger, which must never see one coordinate with two         *)
(* contents.  A stage may also go to JitPack, mapped by jitpack.py.        *)
(*                                                                         *)
(* The tools are processes that take minutes, may be killed, and leave     *)
(* their files behind.  A checksum manifest is modelled as the repository  *)
(* it lists, and a ledger as the repositories whose checksums it has.  The *)
(* maintainer may discard a repository and package again in the same       *)
(* stage, but leaves a stage alone while a tool works on it.               *)
(***************************************************************************)
EXTENDS Packaging

CONSTANTS
  Stages,  \* stage directories
  Exports  \* runs of sign.py, each with an output of its own

ASSUME CandidateAssumption == None \notin Exports

VARIABLES
  raw,         \* the raw publication in a stage
  repository,  \* the packaged repository
  sums,        \* SHA256SUMS: what repository was listed
  audit,       \* audit.json: TRUE when it has no findings
  staged,      \* TRUE once stage.sh has ended well
  testing,     \* what a running consumer build validated
  receipt,     \* consumer-result.json: the manifest it is bound to
  consumed,    \* the repositories that some consumer build resolved from
  lock,        \* the export that holds the ledger's lock
  pc, job, seen, bundle,  \* of an export: where it is, its stage, the ledger it read, its output
  ledger       \* the retained ledger

stages == <<raw, repository, sums, audit, staged>>
consumer == <<testing, receipt, consumed>>
exports == <<lock, pc, job, seen, bundle, ledger>>
vars == <<stages, consumer, exports>>

Init ==
  /\ raw = [d \in Stages |-> None]
  /\ repository = [d \in Stages |-> None]
  /\ sums = [d \in Stages |-> None]
  /\ audit = [d \in Stages |-> FALSE]
  /\ staged = [d \in Stages |-> FALSE]
  /\ testing = [d \in Stages |-> None]
  /\ receipt = [d \in Stages |-> None]
  /\ consumed = {}
  /\ lock = None
  /\ pc = [x \in Exports |-> "new"]
  /\ job = [x \in Exports |-> None]
  /\ seen = [x \in Exports |-> {}]
  /\ bundle = [x \in Exports |-> None]
  /\ ledger = {}

\* Nobody reads the files of the stage.
Unattended(d) ==
  /\ testing[d] = None
  /\ \A x \in Exports : pc[x] = "checked" => job[x] # d

-----------------------------------------------------------------------------
(* Staging *)

\* stage.sh refuses a directory that exists; Gradle publishes into a new one.
Publish(d, b) ==
  /\ raw[d] = None
  /\ raw' = [raw EXCEPT ![d] = b]
  /\ UNCHANGED <<repository, sums, audit, staged, consumer, exports>>

Packageable(d) ==
  raw[d] # None /\ repository[d] = None /\ Unattended(d) /\ ExactlyAllowed(Olds(raw[d]))

\* The whole repository is written and audited; the manifest only follows a clean audit.
Package(d, developer) ==
  /\ Packageable(d)
  /\ Resolvable(raw[d])
  /\ LET written == [build |-> raw[d], developer |-> developer]
     IN  /\ repository' = [repository EXCEPT ![d] = written]
         /\ audit' = [audit EXCEPT ![d] = Clean(written)]
         /\ sums' = [sums EXCEPT ![d] = IF Clean(written) THEN written ELSE @]
  /\ UNCHANGED <<raw, staged, consumer, exports>>

\* A dependency without a version, or a kill, ends package.py with part of the files.
PackagePartly(d) ==
  /\ Packageable(d)
  /\ repository' = [repository EXCEPT ![d] = Partial]
  /\ UNCHANGED <<raw, sums, audit, staged, consumer, exports>>

\* validate.py: the manifest lists the files, the audit passed, the graph is closed.
Valid(d) ==
  repository[d] # None /\ sums[d] = repository[d] /\ audit[d] /\ repository[d] \in Wellformed

Validate(d) ==
  /\ Valid(d)
  /\ staged' = [staged EXCEPT ![d] = TRUE]
  /\ UNCHANGED <<raw, repository, sums, audit, consumer, exports>>

\* The maintainer removes the repository, which package.py would refuse to overwrite.
Discard(d) ==
  /\ repository[d] # None /\ Unattended(d)
  /\ repository' = [repository EXCEPT ![d] = None]
  /\ staged' = [staged EXCEPT ![d] = FALSE]
  /\ UNCHANGED <<raw, sums, audit, consumer, exports>>

-----------------------------------------------------------------------------
(* consumer.py *)

ConsumerBegins(d) ==
  /\ testing[d] = None /\ Valid(d)
  /\ testing' = [testing EXCEPT ![d] = repository[d]]
  /\ UNCHANGED <<stages, receipt, consumed, exports>>

\* Both variants built, hooks and cached versions checked.  The manifest that the receipt
\* is bound to is read only now.
ConsumerPasses(d) ==
  /\ testing[d] # None
  /\ receipt' = [receipt EXCEPT ![d] = sums[d]]
  /\ consumed' = consumed \union {testing[d]}
  /\ testing' = [testing EXCEPT ![d] = None]
  /\ UNCHANGED <<stages, exports>>

ConsumerFails(d) ==
  /\ testing[d] # None
  /\ testing' = [testing EXCEPT ![d] = None]
  /\ UNCHANGED <<stages, receipt, consumed, exports>>

-----------------------------------------------------------------------------
(* sign.py *)

\* Faulty variant: any receipt will do.
BoundToAny(d) == receipt[d] # None

Bound(d) == receipt[d] # None /\ receipt[d] = sums[d]

\* No coordinate has two contents.
Agrees(r, q) ==
  \A p \in Contents[r], o \in Contents[q] : p.coordinate = o.coordinate => p = o

\* Faulty variant: exports do not exclude one another.
SignChecksUnlocked(x, d) ==
  /\ pc[x] = "new"
  /\ repository[d] # None /\ sums[d] = repository[d] /\ audit[d] /\ Bound(d)
  /\ repository[d].developer # None
  /\ \A r \in ledger : Agrees(sums[d], r)
  /\ pc' = [pc EXCEPT ![x] = "checked"]
  /\ job' = [job EXCEPT ![x] = d]
  /\ seen' = [seen EXCEPT ![x] = ledger]
  /\ lock' = x
  /\ UNCHANGED <<stages, consumer, bundle, ledger>>

\* Under the lock, which a second export does not wait for: the manifest lists the files,
\* audit and receipt belong to it, every POM names a developer, the ledger agrees.
SignChecks(x, d) ==
  /\ pc[x] = "new" /\ lock = None
  /\ repository[d] # None /\ sums[d] = repository[d] /\ audit[d] /\ Bound(d)
  /\ repository[d].developer # None
  /\ \A r \in ledger : Agrees(sums[d], r)
  /\ pc' = [pc EXCEPT ![x] = "checked"]
  /\ job' = [job EXCEPT ![x] = d]
  /\ seen' = [seen EXCEPT ![x] = ledger]
  /\ lock' = x
  /\ UNCHANGED <<stages, consumer, bundle, ledger>>

\* A copy is signed, every signature verified, and the bundle created exclusively.
SignOutput(x) ==
  /\ pc[x] = "checked"
  /\ bundle' = [bundle EXCEPT ![x] = repository[job[x]]]
  /\ pc' = [pc EXCEPT ![x] = "output"]
  /\ UNCHANGED <<stages, consumer, lock, job, seen, ledger>>

\* The ledger that was read, updated, replaces the file.
SignRecord(x) ==
  /\ pc[x] = "output"
  /\ ledger' = seen[x] \union {bundle[x]}
  /\ pc' = [pc EXCEPT ![x] = "recorded"]
  /\ lock' = None
  /\ job' = [job EXCEPT ![x] = None]
  /\ seen' = [seen EXCEPT ![x] = {}]
  /\ UNCHANGED <<stages, consumer, bundle>>

\* Failed or killed, before the bundle or between the bundle and the ledger.
SignStops(x) ==
  /\ pc[x] \in {"checked", "output"}
  /\ pc' = [pc EXCEPT ![x] = "stopped"]
  /\ lock' = None
  /\ job' = [job EXCEPT ![x] = None]
  /\ seen' = [seen EXCEPT ![x] = {}]
  /\ UNCHANGED <<stages, consumer, bundle, ledger>>

-----------------------------------------------------------------------------
Next ==
  \/ \E d \in Stages, b \in Builds : Publish(d, b)
  \/ \E d \in Stages, developer \in Developers \union {None} : Package(d, developer)
  \/ \E d \in Stages : PackagePartly(d) \/ Validate(d) \/ Discard(d)
  \/ \E d \in Stages : ConsumerBegins(d) \/ ConsumerPasses(d) \/ ConsumerFails(d)
  \/ \E x \in Exports, d \in Stages : SignChecks(x, d)
  \/ \E x \in Exports : SignOutput(x) \/ SignRecord(x) \/ SignStops(x)

Spec == Init /\ [][Next]_vars

-----------------------------------------------------------------------------
(* Properties *)

\* Any two bundles whose export completed hold the same content wherever they share a
\* coordinate, whatever exports ran, overlapped or were killed meanwhile.
BundlesAgree ==
  \A x, y \in Exports :
    pc[x] = "recorded" /\ pc[y] = "recorded" => Agrees(bundle[x], bundle[y])

\* What is signed, even by an export that was then killed, was resolved as it is by an
\* application built from nothing else, has a clean audit and a closed graph.
SignedWasConsumed ==
  \A x \in Exports : bundle[x] # None =>
    bundle[x] \in consumed /\ Clean(bundle[x]) /\ bundle[x] \in Wellformed

\* An internal coordinate names one content: two stages that both have it have the same
\* POM, metadata and archives for it, whatever they were built from.
InternalPinsBytes ==
  \A d, e \in Stages :
    staged[d] /\ staged[e] =>
      \A p \in Contents[repository[d]], q \in Contents[repository[e]] :
        p.coordinate = q.coordinate /\ p.coordinate.name \in Rehosted => p = q

\* A stage that validated can always be mapped for JitPack; the result depends on nothing
\* under Dootah's own groups, and holds whatever the stage depended on under them.
JitPackIsClosed ==
  \A d \in Stages : staged[d] =>
    /\ Accepted(repository[d])
    /\ \A p \in ForJitPack(repository[d]) : \A c \in p.dependencies \union p.module : c.group \notin Dootah
    /\ \A p \in Contents[repository[d]] : \A c \in p.dependencies \union p.module :
         c.group \in Dootah => \E q \in ForJitPack(repository[d]) : q.coordinate = Recoordinated(c)
=============================================================================
