--------------------------- MODULE CandidateProofs ---------------------------
(***************************************************************************)
(* Four results about release candidates.  Bundles agree because an export *)
(* holds the ledger's lock from the moment it compares its stage with the  *)
(* ledger until the ledger has the stage, and because the stage stays as   *)
(* it is meanwhile.  What is signed was consumed because the manifest that *)
(* a receipt is bound to is still the one that the consumer validated.  An *)
(* internal coordinate pins its content because its version is a digest of *)
(* all that the content depends on.  The JitPack mapping is closed because *)
(* what validates has, resolved, all that it names under Dootah's groups.  *)
(***************************************************************************)
EXTENDS Candidate, TLAPS

\* What package.py writes when it ends well.
Packaged == {r \in Repositories : ExactlyAllowed(Olds(r.build))}

\* What the audit lets through.
Audited == {r \in Packaged : Clean(r)}

\* The places of an export that holds the lock.
Locking == {"checked", "output"}

Types ==
  /\ raw \in [Stages -> Builds \union {None}]
  /\ repository = [d \in Stages |-> repository[d]]
  /\ sums \in [Stages -> Audited \union {None}]
  /\ testing = [d \in Stages |-> testing[d]]
  /\ receipt = [d \in Stages |-> receipt[d]]
  /\ pc = [x \in Exports |-> pc[x]]
  /\ job = [x \in Exports |-> job[x]]
  /\ seen = [x \in Exports |-> seen[x]]
  /\ bundle = [x \in Exports |-> bundle[x]]

\* A repository that agrees with itself and with everything in the ledger.
Recordable(r) == Agrees(r, r) /\ \A q \in ledger : Agrees(r, q)

\* The ledger holds what was recorded, and never one coordinate with two contents.
LedgerAgrees ==
  /\ \A x \in Exports : pc[x] = "recorded" => bundle[x] \in ledger
  /\ \A r, q \in ledger : Agrees(r, q)

\* The export that holds the lock has read the ledger as it is, and what it is about to
\* sign or to record may be recorded.
LockProtects ==
  \A x \in Exports :
    /\ pc[x] \in Locking => lock = x /\ seen[x] = ledger
    /\ pc[x] = "checked" => job[x] \in Stages /\ Recordable(repository[job[x]])
    /\ pc[x] = "output" => Recordable(bundle[x])

LInv == Types /\ LedgerAgrees /\ LockProtects

-----------------------------------------------------------------------------
(* Contents *)

LEMMA AgreesBothWays == \A r, q : Agrees(r, q) => Agrees(q, r)
BY DEF Agrees

LEMMA MappedName ==
  ASSUME NEW b, NEW developer, NEW c
  PROVE  Mapped(b, developer, c).name = c.name
BY DEF Mapped

\* A repository holds each coordinate once.
LEMMA AgreesWithItself ==
  ASSUME NEW r \in Packaged
  PROVE  Agrees(r, r)
<1> SUFFICES ASSUME NEW p \in Contents[r], NEW o \in Contents[r], p.coordinate = o.coordinate
             PROVE  p = o
  BY DEF Agrees
<1> DEFINE b == r.build
           developer == r.developer
<1>1. r \in Repositories /\ b \in Builds /\ ExactlyAllowed(Olds(b))
  BY DEF Packaged, Repositories
<1>2. Contents[r] = {Rendered(b, developer, u) : u \in Publications[b]}
  BY <1>1 DEF Contents
<1>3. PICK u \in Publications[b] : p = Rendered(b, developer, u)
  BY <1>2
<1>4. PICK v \in Publications[b] : o = Rendered(b, developer, v)
  BY <1>2
<1>5. Mapped(b, developer, u.old) = Mapped(b, developer, v.old)
  BY <1>3, <1>4 DEF Rendered
<1>6. u.old.name = v.old.name
  BY <1>5, MappedName
<1>7. u.old \in Olds(b) /\ v.old \in Olds(b)
  BY DEF Olds
<1>8. u.old = v.old
  BY <1>1, <1>6, <1>7 DEF ExactlyAllowed
<1>9. u = v
  BY <1>1, <1>8, PackagingAssumption
<1> QED
  BY <1>3, <1>4, <1>9

-----------------------------------------------------------------------------
LEMMA InitLedger == Init => LInv
BY DEF Init, LInv, Types, LedgerAgrees, LockProtects, Locking

\* What package.py writes.
LEMMA PackageWrites ==
  ASSUME Types, NEW d \in Stages, NEW developer \in Developers \union {None}, Package(d, developer)
  PROVE  sums' \in [Stages -> Audited \union {None}]
<1> DEFINE written == [build |-> raw[d], developer |-> developer]
<1>1. raw[d] \in Builds /\ ExactlyAllowed(Olds(raw[d]))
  BY DEF Types, Package, Packageable
<1>2. written \in Packaged
  BY <1>1 DEF Packaged, Repositories
<1>3. sums' = [sums EXCEPT ![d] = IF Clean(written) THEN written ELSE @]
  BY DEF Package
<1> HIDE DEF written
<1> QED
  BY <1>2, <1>3 DEF Types, Audited

\* A step that touches no export leaves the ledger agreeing, if the stage that the holder
\* of the lock works on stays as it is.
LEMMA StageStep ==
  ASSUME LInv, UNCHANGED exports, Types',
         \A d \in Stages : repository'[d] # repository[d] => Unattended(d)
  PROVE  LInv'
<1>1. LedgerAgrees'
  BY DEF LInv, LedgerAgrees, exports
<1>2. \A x \in Exports : pc[x] = "checked" => repository'[job[x]] = repository[job[x]]
  BY DEF LInv, LockProtects, Unattended
<1>3. LockProtects'
  BY <1>2 DEF LInv, LockProtects, Recordable, exports
<1> QED
  BY <1>1, <1>3 DEF LInv

LEMMA StagingHolds ==
  ASSUME LInv, NEW d \in Stages,
         (\E b \in Builds : Publish(d, b))
           \/ (\E developer \in Developers \union {None} : Package(d, developer))
           \/ PackagePartly(d) \/ Validate(d) \/ Discard(d)
           \/ ConsumerBegins(d) \/ ConsumerPasses(d) \/ ConsumerFails(d)
  PROVE  LInv'
<1>1. UNCHANGED exports
  BY DEF Publish, Package, PackagePartly, Validate, Discard, ConsumerBegins, ConsumerPasses, ConsumerFails
<1>2. sums' \in [Stages -> Audited \union {None}]
  BY PackageWrites DEF LInv, Types, Publish, PackagePartly, Validate, Discard, ConsumerBegins,
     ConsumerPasses, ConsumerFails, stages
<1>3. /\ raw' \in [Stages -> Builds \union {None}]
      /\ repository' = [e \in Stages |-> repository'[e]]
      /\ \A e \in Stages : repository'[e] # repository[e] => Unattended(e)
  BY DEF LInv, Types, Publish, Package, PackagePartly, Packageable, Validate, Discard,
     ConsumerBegins, ConsumerPasses, ConsumerFails, stages
<1>4. testing' = [e \in Stages |-> testing'[e]] /\ receipt' = [e \in Stages |-> receipt'[e]]
  BY DEF LInv, Types, Publish, Package, PackagePartly, Validate, Discard, ConsumerBegins,
     ConsumerPasses, ConsumerFails, consumer
<1>5. Types'
  BY <1>1, <1>2, <1>3, <1>4 DEF LInv, Types, exports
<1> QED
  BY <1>1, <1>3, <1>5, StageStep

-----------------------------------------------------------------------------
(* Exports *)

LEMMA ChecksHolds ==
  ASSUME LInv, NEW x \in Exports, NEW d \in Stages, SignChecks(x, d)
  PROVE  LInv'
<1>1. /\ lock = None /\ lock' = x /\ pc' = [pc EXCEPT ![x] = "checked"]
      /\ job' = [job EXCEPT ![x] = d] /\ seen' = [seen EXCEPT ![x] = ledger]
      /\ UNCHANGED <<raw, repository, sums, testing, receipt, bundle, ledger>>
  BY DEF SignChecks, stages, consumer
<1>2. Recordable(repository[d])
  <2>1. repository[d] \in Packaged
    BY DEF SignChecks, LInv, Types, Audited
  <2> QED
    BY <2>1, AgreesWithItself DEF SignChecks, Recordable
<1>3. \A y \in Exports : pc[y] \notin Locking
  BY <1>1, CandidateAssumption DEF LInv, LockProtects
<1>4. Types'
  BY <1>1 DEF LInv, Types
<1>5. \A y \in Exports : pc'[y] = IF y = x THEN "checked" ELSE pc[y]
  BY <1>1 DEF LInv, Types
<1>6. LedgerAgrees'
  BY <1>1, <1>5 DEF LInv, LedgerAgrees
<1>7. job'[x] = d /\ seen'[x] = ledger'
  BY <1>1 DEF LInv, Types
<1>8. Recordable(repository[d])'
  BY <1>1, <1>2 DEF Recordable
<1>9. LockProtects'
  BY <1>1, <1>3, <1>5, <1>7, <1>8 DEF LockProtects, Locking
<1> QED
  BY <1>4, <1>6, <1>9 DEF LInv

LEMMA OutputHolds ==
  ASSUME LInv, NEW x \in Exports, SignOutput(x)
  PROVE  LInv'
<1>1. /\ pc[x] = "checked" /\ bundle' = [bundle EXCEPT ![x] = repository[job[x]]]
      /\ pc' = [pc EXCEPT ![x] = "output"]
      /\ UNCHANGED <<raw, repository, sums, testing, receipt, lock, job, seen, ledger>>
  BY DEF SignOutput, stages, consumer
<1>2. Recordable(repository[job[x]])
  BY <1>1 DEF LInv, LockProtects
<1>3. Types'
  BY <1>1 DEF LInv, Types
<1>4. \A y \in Exports : /\ pc'[y] = IF y = x THEN "output" ELSE pc[y]
                         /\ bundle'[y] = IF y = x THEN repository[job[x]] ELSE bundle[y]
  BY <1>1 DEF LInv, Types
<1>5. LedgerAgrees'
  BY <1>1, <1>4 DEF LInv, LedgerAgrees
<1>6. LockProtects'
  BY <1>1, <1>2, <1>4 DEF LInv, LockProtects, Recordable, Locking
<1> QED
  BY <1>3, <1>5, <1>6 DEF LInv

LEMMA RecordHolds ==
  ASSUME LInv, NEW x \in Exports, SignRecord(x)
  PROVE  LInv'
<1>1. /\ pc[x] = "output" /\ ledger' = seen[x] \union {bundle[x]}
      /\ pc' = [pc EXCEPT ![x] = "recorded"] /\ job' = [job EXCEPT ![x] = None]
      /\ seen' = [seen EXCEPT ![x] = {}]
      /\ UNCHANGED <<raw, repository, sums, testing, receipt, bundle>>
  BY DEF SignRecord, stages, consumer
<1>2. seen[x] = ledger /\ Recordable(bundle[x])
  BY <1>1 DEF LInv, LockProtects, Locking
<1>3. \A y \in Exports : y # x => pc[y] \notin Locking
  BY <1>1 DEF LInv, LockProtects, Locking
<1>4. Types'
  BY <1>1 DEF LInv, Types
<1>5. \A y \in Exports : pc'[y] = IF y = x THEN "recorded" ELSE pc[y]
  BY <1>1 DEF LInv, Types
<1>6. LedgerAgrees'
  <2>1. \A r, q \in ledger' : Agrees(r, q)
    BY <1>1, <1>2, AgreesBothWays DEF LInv, LedgerAgrees, Recordable
  <2>2. \A y \in Exports : pc'[y] = "recorded" => bundle'[y] \in ledger'
    BY <1>1, <1>2, <1>5 DEF LInv, LedgerAgrees
  <2> QED
    BY <2>1, <2>2 DEF LedgerAgrees
<1>7. LockProtects'
  BY <1>3, <1>5 DEF LockProtects, Locking
<1> QED
  BY <1>4, <1>6, <1>7 DEF LInv

LEMMA StopsHolds ==
  ASSUME LInv, NEW x \in Exports, SignStops(x)
  PROVE  LInv'
<1>1. /\ pc[x] \in Locking /\ pc' = [pc EXCEPT ![x] = "stopped"]
      /\ job' = [job EXCEPT ![x] = None] /\ seen' = [seen EXCEPT ![x] = {}]
      /\ UNCHANGED <<raw, repository, sums, testing, receipt, bundle, ledger>>
  BY DEF SignStops, stages, consumer, Locking
<1>2. \A y \in Exports : y # x => pc[y] \notin Locking
  BY <1>1 DEF LInv, LockProtects
<1>3. \A y \in Exports : pc'[y] = IF y = x THEN "stopped" ELSE pc[y]
  BY <1>1 DEF LInv, Types
<1>4. Types'
  BY <1>1 DEF LInv, Types
<1>5. LedgerAgrees'
  BY <1>1, <1>3 DEF LInv, LedgerAgrees
<1>6. LockProtects'
  BY <1>2, <1>3 DEF LockProtects, Locking
<1> QED
  BY <1>4, <1>5, <1>6 DEF LInv

LEMMA StutterHolds == LInv /\ UNCHANGED vars => LInv'
BY DEF LInv, Types, LedgerAgrees, LockProtects, Recordable, vars, stages, consumer, exports

LEMMA LedgerStep == LInv /\ [Next]_vars => LInv'
BY StagingHolds, ChecksHolds, OutputHolds, RecordHolds, StopsHolds, StutterHolds DEF Next

\* However many exports run, overlap, fail or are killed, and whatever stages they are of,
\* two bundles whose export completed never disagree about a coordinate.
THEOREM BundlesNeverClash == Spec => []BundlesAgree
<1>1. Init => LInv
  BY InitLedger
<1>2. LInv /\ [Next]_vars => LInv'
  BY LedgerStep
<1>3. LInv => BundlesAgree
  BY DEF LInv, LedgerAgrees, BundlesAgree
<1> QED
  BY <1>1, <1>2, <1>3, PTL DEF Spec

-----------------------------------------------------------------------------
(* Receipts *)

\* While a consumer build runs, the manifest is of what it validated.
TestsTheManifest ==
  \A d \in Stages : testing[d] # None => testing[d] = sums[d] /\ testing[d] \in Wellformed

\* A receipt is bound to something that was consumed.
ReceiptsTell == \A d \in Stages : receipt[d] # None => receipt[d] \in consumed

\* So is what an export has checked, and what it has signed.
SignsConsumed ==
  \A x \in Exports :
    /\ pc[x] = "checked" => repository[job[x]] \in consumed
    /\ bundle[x] # None => bundle[x] \in consumed

CInv ==
  /\ consumed \subseteq Audited \intersect Wellformed
  /\ TestsTheManifest /\ ReceiptsTell /\ SignsConsumed

LEMMA InitConsumed == Init => CInv
BY DEF Init, CInv, TestsTheManifest, ReceiptsTell, SignsConsumed

\* A step of the consumer or of staging keeps what exports have checked and signed.
LEMMA SignsConsumedStays ==
  ASSUME LInv, CInv, UNCHANGED exports, consumed \subseteq consumed',
         \A d \in Stages : repository'[d] # repository[d] => Unattended(d)
  PROVE  SignsConsumed'
<1>1. \A x \in Exports : pc[x] = "checked" => repository'[job[x]] = repository[job[x]]
  BY DEF LInv, LockProtects, Unattended
<1> QED
  BY <1>1 DEF CInv, SignsConsumed, exports

LEMMA StagingConsumed ==
  ASSUME LInv, CInv, NEW d \in Stages,
         (\E b \in Builds : Publish(d, b))
           \/ (\E developer \in Developers \union {None} : Package(d, developer))
           \/ PackagePartly(d) \/ Validate(d) \/ Discard(d)
  PROVE  CInv'
<1>1. UNCHANGED <<exports, testing, receipt, consumed>>
  BY DEF Publish, Package, PackagePartly, Validate, Discard, consumer
<1>2. \A e \in Stages : /\ repository'[e] # repository[e] => Unattended(e)
                        /\ sums'[e] # sums[e] => testing[e] = None
  BY DEF LInv, Types, Publish, Package, PackagePartly, Packageable, Validate, Discard, stages, Unattended
<1>3. SignsConsumed'
  BY <1>1, <1>2, SignsConsumedStays
<1>4. TestsTheManifest' /\ ReceiptsTell'
  BY <1>1, <1>2 DEF CInv, TestsTheManifest, ReceiptsTell
<1> QED
  BY <1>1, <1>3, <1>4 DEF CInv

LEMMA ConsumingConsumed ==
  ASSUME LInv, CInv, NEW d \in Stages, ConsumerBegins(d) \/ ConsumerPasses(d) \/ ConsumerFails(d)
  PROVE  CInv'
<1>1. UNCHANGED <<exports, repository, sums>>
  BY DEF ConsumerBegins, ConsumerPasses, ConsumerFails, stages
<1>2. consumed \subseteq consumed'
  BY DEF ConsumerBegins, ConsumerPasses, ConsumerFails
<1>3. SignsConsumed'
  BY <1>1, <1>2, SignsConsumedStays
<1>4. CASE ConsumerBegins(d)
  BY <1>1, <1>3, <1>4 DEF LInv, Types, CInv, ConsumerBegins, Valid, TestsTheManifest, ReceiptsTell
<1>5. CASE ConsumerPasses(d)
  <2>1. /\ testing[d] # None /\ receipt' = [receipt EXCEPT ![d] = sums[d]]
        /\ consumed' = consumed \union {testing[d]} /\ testing' = [testing EXCEPT ![d] = None]
    BY <1>5 DEF ConsumerPasses
  <2>2. testing[d] = sums[d] /\ testing[d] \in Audited \intersect Wellformed
    BY <2>1 DEF LInv, Types, CInv, TestsTheManifest
  <2>3. TestsTheManifest' /\ ReceiptsTell'
    BY <1>1, <2>1, <2>2 DEF LInv, Types, CInv, TestsTheManifest, ReceiptsTell
  <2> QED
    BY <1>3, <2>1, <2>2, <2>3 DEF CInv
<1>6. CASE ConsumerFails(d)
  BY <1>1, <1>3, <1>6 DEF LInv, Types, CInv, ConsumerFails, TestsTheManifest, ReceiptsTell
<1> QED
  BY <1>4, <1>5, <1>6

LEMMA ExportsConsumed ==
  ASSUME LInv, CInv, NEW x \in Exports,
         (\E d \in Stages : SignChecks(x, d)) \/ SignOutput(x) \/ SignRecord(x) \/ SignStops(x)
  PROVE  CInv'
<1>1. UNCHANGED <<repository, sums, testing, receipt, consumed>>
  BY DEF SignChecks, SignOutput, SignRecord, SignStops, stages, consumer
<1>2. TestsTheManifest' /\ ReceiptsTell' /\ consumed' \subseteq Audited \intersect Wellformed
  BY <1>1 DEF CInv, TestsTheManifest, ReceiptsTell
<1>3. ASSUME NEW d \in Stages, SignChecks(x, d)
      PROVE  SignsConsumed'
  <2>1. repository[d] \in consumed
    BY <1>3 DEF SignChecks, Bound, CInv, ReceiptsTell
  <2> QED
    BY <1>1, <1>3, <2>1 DEF SignChecks, LInv, Types, CInv, SignsConsumed
<1>4. CASE SignOutput(x)
  <2>1. /\ repository[job[x]] \in consumed /\ UNCHANGED job
        /\ pc' = [pc EXCEPT ![x] = "output"] /\ bundle' = [bundle EXCEPT ![x] = repository[job[x]]]
    BY <1>4 DEF SignOutput, CInv, SignsConsumed
  <2>2. \A y \in Exports : /\ pc'[y] = IF y = x THEN "output" ELSE pc[y]
                           /\ bundle'[y] = IF y = x THEN repository[job[x]] ELSE bundle[y]
    BY <2>1 DEF LInv, Types
  <2>3. repository' = repository /\ consumed' = consumed /\ job' = job
    BY <1>1, <2>1
  <2>4. \A y \in Exports : /\ pc[y] = "checked" => repository[job[y]] \in consumed
                           /\ bundle[y] # None => bundle[y] \in consumed
    BY DEF CInv, SignsConsumed
  <2>5. repository[job[x]] \in consumed
    BY <2>1
  <2> QED
    BY <1>2, <2>2, <2>3, <2>4, <2>5 DEF CInv, SignsConsumed
<1>5. CASE SignRecord(x) \/ SignStops(x)
  <2>1. /\ job' = [job EXCEPT ![x] = None] /\ UNCHANGED bundle
        /\ pc' = [pc EXCEPT ![x] = "recorded"] \/ pc' = [pc EXCEPT ![x] = "stopped"]
    BY <1>5 DEF SignRecord, SignStops
  <2>2. \A y \in Exports : pc'[y] = "checked" => pc[y] = "checked" /\ job'[y] = job[y]
    BY <2>1 DEF LInv, Types
  <2>3. repository' = repository /\ consumed' = consumed /\ bundle' = bundle
    BY <1>1, <2>1
  <2> QED
    BY <1>2, <2>2, <2>3 DEF CInv, SignsConsumed
<1> QED
  BY <1>2, <1>3, <1>4, <1>5 DEF CInv

\* Whatever is packaged again, retried or killed around it, a signed bundle is one that an
\* application was built from, with a clean audit and a closed graph.
THEOREM SignedConsumed == Spec => []SignedWasConsumed
<1>1. Init => CInv
  BY InitConsumed
<1>2. LInv /\ CInv /\ [Next]_vars => CInv'
  <2>1. LInv /\ CInv /\ UNCHANGED vars => CInv'
    BY DEF CInv, TestsTheManifest, ReceiptsTell, SignsConsumed, vars, stages, consumer, exports
  <2> QED
    BY <2>1, StagingConsumed, ConsumingConsumed, ExportsConsumed DEF Next
<1>3. CInv => SignedWasConsumed
  BY DEF CInv, SignsConsumed, SignedWasConsumed, Audited
<1>4. Init => LInv
  BY InitLedger
<1>5. LInv /\ [Next]_vars => LInv'
  BY LedgerStep
<1> QED
  BY <1>1, <1>2, <1>3, <1>4, <1>5, PTL DEF Spec

-----------------------------------------------------------------------------
(* Stages that validated *)

\* A stage stays what validate.py found it to be until its repository is discarded.
SInv ==
  /\ staged = [d \in Stages |-> staged[d]]
  /\ \A d \in Stages : staged[d] =>
       repository[d] # None /\ repository[d] \in Packaged \intersect Wellformed

LEMMA InitStaged == Init => SInv
BY DEF Init, SInv

LEMMA StagingStaged ==
  ASSUME LInv, SInv, NEW d \in Stages,
         (\E b \in Builds : Publish(d, b))
           \/ (\E developer \in Developers \union {None} : Package(d, developer))
           \/ PackagePartly(d) \/ Validate(d) \/ Discard(d)
  PROVE  SInv'
<1>1. CASE \E b \in Builds : Publish(d, b)
  BY <1>1 DEF Publish, SInv
<1>2. CASE PackagePartly(d) \/ \E developer \in Developers \union {None} : Package(d, developer)
  <2>1. repository[d] = None /\ UNCHANGED staged
    BY <1>2 DEF Package, PackagePartly, Packageable
  <2>2. ~staged[d]
    BY <2>1 DEF SInv
  <2>3. \A e \in Stages : e # d => repository'[e] = repository[e]
    BY <1>2 DEF Package, PackagePartly, LInv, Types
  <2> QED
    BY <2>1, <2>2, <2>3 DEF SInv
<1>3. CASE Validate(d)
  <2>1. repository[d] # None /\ repository[d] \in Packaged \intersect Wellformed
    BY <1>3 DEF Validate, Valid, LInv, Types, Audited
  <2>2. staged' = [staged EXCEPT ![d] = TRUE] /\ UNCHANGED repository
    BY <1>3 DEF Validate
  <2> QED
    BY <2>1, <2>2 DEF SInv
<1>4. CASE Discard(d)
  BY <1>4 DEF Discard, SInv, LInv, Types
<1> QED
  BY <1>1, <1>2, <1>3, <1>4

LEMMA StagedInvariance == Spec => []SInv
<1>1. Init => SInv
  BY InitStaged
<1>2. LInv /\ SInv /\ [Next]_vars => SInv'
  <2> SUFFICES ASSUME LInv, SInv, [Next]_vars PROVE SInv'
    OBVIOUS
  <2>1. ASSUME NEW d \in Stages, ConsumerBegins(d) \/ ConsumerPasses(d) \/ ConsumerFails(d)
        PROVE  UNCHANGED <<repository, staged>>
    BY <2>1 DEF ConsumerBegins, ConsumerPasses, ConsumerFails, stages
  <2>2. ASSUME NEW x \in Exports,
               (\E d \in Stages : SignChecks(x, d)) \/ SignOutput(x) \/ SignRecord(x) \/ SignStops(x)
        PROVE  UNCHANGED <<repository, staged>>
    BY <2>2 DEF SignChecks, SignOutput, SignRecord, SignStops, stages
  <2>3. UNCHANGED vars => UNCHANGED <<repository, staged>>
    BY DEF vars, stages
  <2>4. UNCHANGED <<repository, staged>> => SInv'
    BY DEF SInv
  <2> QED
    BY <2>1, <2>2, <2>3, <2>4, StagingStaged DEF Next
<1>3. Init => LInv
  BY InitLedger
<1>4. LInv /\ [Next]_vars => LInv'
  BY LedgerStep
<1> QED
  BY <1>1, <1>2, <1>3, <1>4, PTL DEF Spec

-----------------------------------------------------------------------------
(* Internal coordinates *)

\* Where the digests are equal, so is everything that is digested of an artifact.
LEMMA DigestTells ==
  ASSUME NEW b \in Builds, NEW c \in Builds, NEW m, NEW n, Digest(b, m) = Digest(c, n),
         NEW u \in Internals(b)
  PROVE  \E w \in Internals(c) :
           /\ m = n /\ u.old = w.old /\ u.dependencies = w.dependencies /\ u.module = w.module
           /\ u.payload = w.payload /\ Inventory[b] = Inventory[c]
<1>1. <<m, u.old, u.dependencies, u.module, Binaries(b, u)>> \in Digest(c, n)
  BY DEF Digest
<1>2. PICK w \in Internals(c) : <<m, u.old, u.dependencies, u.module, Binaries(b, u)>> =
                                <<n, w.old, w.dependencies, w.module, Binaries(c, w)>>
  BY <1>1 DEF Digest
<1>3. m = n /\ u.old = w.old /\ u.dependencies = w.dependencies /\ u.module = w.module
      /\ Binaries(b, u) = Binaries(c, w)
  BY <1>2
<1>4. u.payload = w.payload /\ Inventory[b] = Inventory[c]
  BY <1>3 DEF Binaries
<1> QED
  BY <1>3, <1>4

\* The internal artifacts are those the digest names.
LEMMA DigestNames ==
  ASSUME NEW b \in Builds, NEW c \in Builds, NEW m, NEW n, Digest(b, m) = Digest(c, n),
         NEW x, x \in Olds(b), x.name \in Rehosted
  PROVE  x \in Olds(c)
<1>1. PICK u \in Publications[b] : u.old = x
  BY DEF Olds
<1>2. u \in Internals(b)
  BY <1>1 DEF Internals
<1>3. PICK w \in Internals(c) : u.old = w.old
  BY <1>2, DigestTells
<1> QED
  BY <1>1, <1>3 DEF Internals, Olds

\* They are therefore mapped alike.
LEMMA DigestMaps ==
  ASSUME NEW b \in Builds, NEW c \in Builds, NEW m, NEW n, Digest(b, m) = Digest(c, n), NEW x
  PROVE  Mapped(b, m, x) = Mapped(c, n, x)
<1>1. x \in Olds(b) /\ x.name \in Rehosted <=> x \in Olds(c) /\ x.name \in Rehosted
  BY DigestNames
<1> QED
  BY <1>1 DEF Mapped

\* A dependency without a version that a wellformed repository has was resolved: it was not
\* taken for an artifact of the build itself.
LEMMA WellformedResolves ==
  ASSUME NEW b \in Builds, NEW m, [build |-> b, developer |-> m] \in Wellformed,
         NEW v \in Publications[b], NEW x \in v.dependencies, x \in Olds(b), x.version = <<>>
  PROVE  x.name \in Rehosted
<1> DEFINE r == [build |-> b, developer |-> m]
           p == Rendered(b, m, v)
<1>1. r \in Repositories
  BY DEF Wellformed
<1>2. p \in Contents[r]
  BY <1>1 DEF Contents
<1>3. Resolved(b, m, x) \in p.dependencies
  BY DEF Rendered
<1>4. \A d \in p.dependencies : Admissible(r, d)
  BY <1>2 DEF Wellformed
<1>5. Immutable(Resolved(b, m, x))
  BY <1>3, <1>4 DEF Admissible
<1>6. Resolved(b, m, x) = Mapped(b, m, x)
  BY DEF Resolved
<1>7. Mapped(b, m, x) # x
  BY <1>5, <1>6 DEF Immutable
<1> QED
  BY <1>7 DEF Mapped

\* Builds with one digest resolve a dependency alike.
LEMMA DigestResolves ==
  ASSUME NEW b \in Builds, NEW c \in Builds, NEW m, NEW n, Digest(b, m) = Digest(c, n),
         Inventory[b] = Inventory[c],
         [build |-> b, developer |-> m] \in Wellformed, [build |-> c, developer |-> n] \in Wellformed,
         NEW u \in Publications[b], NEW v \in Publications[c], u.dependencies = v.dependencies,
         NEW x \in u.dependencies
  PROVE  Resolved(b, m, x) = Resolved(c, n, x)
<1>1. Known(b, x) = Known(c, x) /\ Mapped(b, m, x) = Mapped(c, n, x)
  BY DigestMaps DEF Known
<1>2. x.version = <<>> => (x \in Olds(b) <=> x \in Olds(c))
  <2>1. x.version = <<>> /\ x \in Olds(b) => x \in Olds(c)
    BY WellformedResolves, DigestNames
  <2>2. x.version = <<>> /\ x \in Olds(c) => x \in Olds(b)
    BY WellformedResolves, DigestNames
  <2> QED
    BY <2>1, <2>2
<1> QED
  BY <1>1, <1>2 DEF Resolved

LEMMA PinsBytes ==
  ASSUME NEW r \in Packaged \intersect Wellformed, NEW s \in Packaged \intersect Wellformed,
         NEW p \in Contents[r], NEW q \in Contents[s],
         p.coordinate = q.coordinate, p.coordinate.name \in Rehosted
  PROVE  p = q
<1> DEFINE b == r.build
           m == r.developer
           c == s.build
           n == s.developer
<1>1. /\ r \in Repositories /\ b \in Builds /\ r = [build |-> b, developer |-> m]
      /\ s \in Repositories /\ c \in Builds /\ s = [build |-> c, developer |-> n]
  BY DEF Wellformed, Repositories
<1>2. PICK u \in Publications[b] : p = Rendered(b, m, u)
  BY <1>1 DEF Contents
<1>3. PICK v \in Publications[c] : q = Rendered(c, n, v)
  BY <1>1 DEF Contents
<1>4. Mapped(b, m, u.old) = Mapped(c, n, v.old) /\ u.old.name \in Rehosted /\ v.old.name \in Rehosted
  BY <1>2, <1>3, MappedName DEF Rendered
<1>5. u.old \in Olds(b) /\ v.old \in Olds(c)
  BY DEF Olds
<1>6. <<"sha256", Digest(b, m)>> = <<"sha256", Digest(c, n)>> /\ u.old.name = v.old.name
  BY <1>4, <1>5 DEF Mapped
<1>7. Digest(b, m) = Digest(c, n)
  BY <1>6
<1>8. u \in Internals(b)
  BY <1>4 DEF Internals
<1>9. PICK w \in Internals(c) :
           /\ m = n /\ u.old = w.old /\ u.dependencies = w.dependencies /\ u.module = w.module
           /\ u.payload = w.payload /\ Inventory[b] = Inventory[c]
  BY <1>1, <1>7, <1>8, DigestTells
<1>10. w = v
  <2>1. w \in Publications[c] /\ w.old \in Olds(c) /\ w.old.name = v.old.name
    BY <1>6, <1>9 DEF Internals, Olds
  <2>2. w.old = v.old
    BY <1>5, <2>1 DEF Packaged, ExactlyAllowed
  <2> QED
    BY <1>1, <2>1, <2>2, PackagingAssumption
<1>11. p.binaries = q.binaries /\ p.developer = q.developer
  BY <1>2, <1>3, <1>9, <1>10 DEF Rendered, Binaries
<1>12. p.module = q.module
  <2>1. \A x : Mapped(b, m, x) = Mapped(c, n, x)
    BY <1>1, <1>7, DigestMaps
  <2> QED
    BY <1>2, <1>3, <1>9, <1>10, <2>1 DEF Rendered
<1>13. p.dependencies = q.dependencies
  <2>1. \A x \in u.dependencies : Resolved(b, m, x) = Resolved(c, n, x)
    BY <1>1, <1>7, <1>9, <1>10, DigestResolves
  <2>2. /\ p.dependencies = {Resolved(b, m, x) : x \in u.dependencies}
        /\ q.dependencies = {Resolved(c, n, x) : x \in u.dependencies}
    BY <1>2, <1>3, <1>9, <1>10 DEF Rendered
  <2> QED
    BY <2>1, <2>2
<1> QED
  BY <1>2, <1>3, <1>11, <1>12, <1>13 DEF Rendered

\* An internal coordinate names one POM, one set of metadata and one set of archives, for
\* all builds there are and however often stages are discarded and packaged again.
THEOREM InternalsPinned == Spec => []InternalPinsBytes
<1>1. SInv => InternalPinsBytes
  BY PinsBytes DEF SInv, InternalPinsBytes
<1> QED
  BY <1>1, StagedInvariance, PTL

-----------------------------------------------------------------------------
(* JitPack *)

LEMMA JitPackCloses ==
  ASSUME NEW r \in Wellformed
  PROVE  /\ Accepted(r)
         /\ \A p \in ForJitPack(r) : \A c \in p.dependencies \union p.module : c.group \notin Dootah
         /\ \A p \in Contents[r] : \A c \in p.dependencies \union p.module :
              c.group \in Dootah => \E q \in ForJitPack(r) : q.coordinate = Recoordinated(c)
<1>1. \A p \in Contents[r] : \A d \in p.dependencies \union p.module :
        d.group \in Dootah => d \in Coordinates(r)
  BY DEF Wellformed, Admissible
<1>2. \A p \in Contents[r] : p.coordinate.group \in Dootah
  BY DEF Wellformed, Dootah
<1>3. Accepted(r)
  <2>1. \A c, d \in Coordinates(r) : c.name = d.name => c = d
    BY DEF Wellformed, ExactlyAllowed
  <2>2. \A c \in Coordinates(r) : c.group \in Dootah
    BY <1>2 DEF Coordinates
  <2> QED
    BY <1>1, <2>1, <2>2 DEF Accepted
<1>4. \A c : Recoordinated(c).group \notin Dootah
  BY DEF Recoordinated, Dootah, JitPack
<1>5. \A p \in Contents[r] :
        p = [coordinate |-> p.coordinate, dependencies |-> p.dependencies, module |-> p.module,
             binaries |-> p.binaries, developer |-> p.developer]
  <2>1. r \in Repositories
    BY DEF Wellformed
  <2> QED
    BY <2>1 DEF Contents, Rendered
<1> DEFINE Moved(p) == [p EXCEPT !.coordinate = Recoordinated(p.coordinate),
                                 !.dependencies = {Recoordinated(d) : d \in p.dependencies},
                                 !.module = {Recoordinated(d) : d \in p.module}]
<1>6. \A p \in Contents[r] :
        /\ Moved(p).coordinate = Recoordinated(p.coordinate)
        /\ Moved(p).dependencies = {Recoordinated(d) : d \in p.dependencies}
        /\ Moved(p).module = {Recoordinated(d) : d \in p.module}
  BY <1>5
<1>7. ForJitPack(r) = {Moved(p) : p \in Contents[r]}
  BY DEF ForJitPack
<1> HIDE DEF Moved
<1>8. \A p \in ForJitPack(r) : \A c \in p.dependencies \union p.module : c.group \notin Dootah
  <2> SUFFICES ASSUME NEW p \in Contents[r], NEW c \in Moved(p).dependencies \union Moved(p).module
               PROVE  c.group \notin Dootah
    BY <1>7
  <2>1. PICK d \in p.dependencies \union p.module : c = Recoordinated(d)
    BY <1>6
  <2> QED
    BY <1>4, <2>1
<1>9. \A p \in Contents[r] : \A c \in p.dependencies \union p.module :
        c.group \in Dootah => \E q \in ForJitPack(r) : q.coordinate = Recoordinated(c)
  <2> SUFFICES ASSUME NEW p \in Contents[r], NEW c \in p.dependencies \union p.module, c.group \in Dootah
               PROVE  \E q \in ForJitPack(r) : q.coordinate = Recoordinated(c)
    OBVIOUS
  <2>1. PICK o \in Contents[r] : o.coordinate = c
    BY <1>1 DEF Coordinates
  <2> QED
    BY <1>6, <1>7, <2>1
<1> QED
  BY <1>3, <1>8, <1>9

\* Whatever Gradle published and resolved, a stage that validated maps to JitPack's scheme
\* with every artifact of Dootah that it depends on.
THEOREM JitPackClosed == Spec => []JitPackIsClosed
<1>1. SInv => JitPackIsClosed
  BY JitPackCloses DEF SInv, JitPackIsClosed
<1> QED
  BY <1>1, StagedInvariance, PTL
=============================================================================
