------------------------------ MODULE Delivery ------------------------------
(***************************************************************************)
(* The delivery gateway (delivery() in cloud/server.mjs) answering devices *)
(* while release control changes the rows it reads.                        *)
(*                                                                         *)
(* A request takes no lock and runs in no transaction: it reads the        *)
(* environment, then the head's release, then writes a grant, then fetches *)
(* from the upstream service, and every step of ReleaseControl can fall    *)
(* between two of these.  A device has one request at a time.  Requests    *)
(* refused for their form or rate are left out.                            *)
(***************************************************************************)
EXTENDS ReleaseControl

CONSTANTS
  Devices,    \* installations
  Home,       \* the environment each device's app, channel and runtime name
  Bucket,     \* the rollout bucket of a device for a release: a hash modulo 10000
  MaxBroken   \* bound: requests that break off or whose answer is lost

ASSUME DeliveryAssumption ==
  /\ Home \in [Devices -> Environments]
  /\ Bucket \in [Devices \X Releases -> 0..9999]
  /\ MaxBroken \in Nat

VARIABLES
  grants,   \* table grants: the releases each device was offered
  request,  \* each device's request in the gateway and what it has read
  told,     \* the branch each device was last answered with
  passed,   \* history: the releases and directives a device has moved on from
  holds,    \* the releases whose program a device has downloaded
  broken    \* requests broken off so far

deliveryVars == <<grants, request, told, passed, holds, broken>>

allVars == <<vars, deliveryVars>>

Request == [pc: {"idle", "read", "eligible", "selected", "asset"},
            head: Releases \union {None},
            directive: Operations \union {None},
            branch: Branches \union {None}]

NoRequest == [pc |-> "idle", head |-> None, directive |-> None, branch |-> None]

\* A request that goes on with a branch has no more use for what it read.
RequestFor(pc, b) == [pc |-> pc, head |-> None, directive |-> None, branch |-> b]

DeliveryInit ==
  /\ grants = {}
  /\ request = [d \in Devices |-> NoRequest]
  /\ told = [d \in Devices |-> None]
  /\ passed = [d \in Devices |-> {}]
  /\ holds = [d \in Devices |-> {}]
  /\ broken = 0

\* A device is in the cohort of a release at a percentage.
Eligible(d, r, percentage) == Bucket[d, r] < percentage * 100

\* Faulty variant: the head is offered without looking at its status.
OfferedToCohort(d, r) == Eligible(d, r, release[r].percentage)

\* The release is being offered to the device's cohort.
OfferedTo(d, r) ==
  release[r].status \in Distributing /\ Eligible(d, r, release[r].percentage)

-----------------------------------------------------------------------------
(* GET /manifest *)

\* The environment row is read.
AskManifest(d) ==
  /\ request[d].pc = "idle"
  /\ request' = [request EXCEPT
                   ![d] = [pc |-> "read", head |-> environment[Home[d]].head,
                           directive |-> environment[Home[d]].directive, branch |-> None]]
  /\ UNCHANGED <<grants, told, passed, holds, broken>>

\* Faulty variant: the directive yields to a head.
SelectDirectiveIfHeadless(d) ==
  /\ request[d].pc = "read"
  /\ request[d].directive # None
  /\ request[d].head = None
  /\ request' = [request EXCEPT ![d] = RequestFor("selected", request[d].directive)]
  /\ UNCHANGED <<grants, told, passed, holds, broken>>

\* A directive that was in force takes precedence.
SelectDirective(d) ==
  /\ request[d].pc = "read"
  /\ request[d].directive # None
  /\ request' = [request EXCEPT ![d] = RequestFor("selected", request[d].directive)]
  /\ UNCHANGED <<grants, told, passed, holds, broken>>

\* What was the head when the environment was read is offered now.
HeadOffered(d) == request[d].head # None /\ OfferedTo(d, request[d].head)

\* The row of what was the head is read: it is offered, to this device too.
SelectRelease(d) ==
  /\ request[d].pc = "read"
  /\ request[d].directive = None
  /\ HeadOffered(d)
  /\ request' = [request EXCEPT ![d] = RequestFor("eligible", request[d].head)]
  /\ UNCHANGED <<grants, told, passed, holds, broken>>

\* 204: there was no head, or its row says that it is not offered to this device.
NothingNew(d) ==
  /\ request[d].pc = "read"
  /\ request[d].directive = None
  /\ ~HeadOffered(d)
  /\ request' = [request EXCEPT ![d] = NoRequest]
  /\ UNCHANGED <<grants, told, passed, holds, broken>>

\* The grant is written before the manifest is fetched.
Grant(d) ==
  /\ request[d].pc = "eligible"
  /\ grants' = grants \union {<<d, request[d].branch>>}
  /\ request' = [request EXCEPT ![d] = RequestFor("selected", request[d].branch)]
  /\ UNCHANGED <<told, passed, holds, broken>>

\* What a device told of branch b has moved on from: what it was told of
\* before, and the release that a directive recalls.
LeftFor(d, b) ==
  ({told[d]} \ {b, None}) \union {operation[k].resource : k \in Operations \intersect {b}}

\* The manifest or directive on the selected branch reaches the device.
AnswerManifest(d) ==
  LET b == request[d].branch IN
  /\ request[d].pc = "selected"
  /\ served[b] # <<>>
  /\ told' = [told EXCEPT ![d] = b]
  /\ passed' = [passed EXCEPT ![d] = @ \union LeftFor(d, b)]
  /\ request' = [request EXCEPT ![d] = NoRequest]
  /\ UNCHANGED <<grants, holds, broken>>

-----------------------------------------------------------------------------
(* GET /assets *)

\* Faulty variant: a download needs the release to be offered still.
AskAssetWhileOffered(d) ==
  /\ request[d].pc = "idle"
  /\ told[d] \in Releases \ holds[d]
  /\ <<d, told[d]>> \in grants
  /\ release[told[d]].status \in Distributing
  /\ request' = [request EXCEPT ![d] = RequestFor("asset", told[d])]
  /\ UNCHANGED <<grants, told, passed, holds, broken>>

\* One query joins the release with the device's grant.
AskAsset(d) ==
  /\ request[d].pc = "idle"
  /\ told[d] \in Releases \ holds[d]
  /\ <<d, told[d]>> \in grants
  /\ release[told[d]].status # "killed"
  /\ request' = [request EXCEPT ![d] = RequestFor("asset", told[d])]
  /\ UNCHANGED <<grants, told, passed, holds, broken>>

\* The program is fetched and reaches the device.
ServeAsset(d) ==
  /\ request[d].pc = "asset"
  /\ holds' = [holds EXCEPT ![d] = @ \union {request[d].branch}]
  /\ request' = [request EXCEPT ![d] = NoRequest]
  /\ UNCHANGED <<grants, told, passed, broken>>

\* The request fails on its way, or its answer is lost.
Break(d) ==
  /\ request[d].pc # "idle"
  /\ broken < MaxBroken
  /\ broken' = broken + 1
  /\ request' = [request EXCEPT ![d] = NoRequest]
  /\ UNCHANGED <<grants, told, passed, holds>>

-----------------------------------------------------------------------------
\* What the gateway does with a request it has.
Handle(d) ==
  \/ SelectDirective(d) \/ SelectRelease(d) \/ NothingNew(d) \/ Grant(d)
  \/ AnswerManifest(d) \/ ServeAsset(d)

Gateway == \E d \in Devices : AskManifest(d) \/ AskAsset(d) \/ Handle(d) \/ Break(d)

DeliveryNext ==
  \/ Next /\ UNCHANGED deliveryVars
  \/ Gateway /\ UNCHANGED vars

DeliverySpec == Init /\ DeliveryInit /\ [][DeliveryNext]_allVars

\* A device checks for updates whenever it is launched and finishes a download
\* before it checks again; the gateway carries each request to its end.
FairDeliverySpec ==
  /\ DeliverySpec
  /\ \A d \in Devices :
       /\ WF_allVars(Handle(d) /\ UNCHANGED vars)
       /\ WF_allVars(AskManifest(d) /\ UNCHANGED vars)
       /\ SF_allVars(AskAsset(d) /\ UNCHANGED vars)

-----------------------------------------------------------------------------
(* Properties *)

\* What the rows say, at this moment, of what the device is to be answered.
PolicyFor(d) ==
  LET row == environment[Home[d]] IN
  IF row.directive # None THEN row.directive
  ELSE IF row.head # None /\ OfferedTo(d, row.head) THEN row.head
  ELSE None

\* The gateway's rows and requests are well-formed.
DeliveryTypeOK ==
  /\ grants \subseteq Devices \X Releases
  /\ request \in [Devices -> Request]
  /\ told \in [Devices -> Branches \union {None}]
  /\ passed \in [Devices -> SUBSET Branches]
  /\ holds \in [Devices -> SUBSET Releases]
  /\ broken \in Nat

\* The environment is read first and the release later, yet a release that is
\* selected is, when it is, what the environment's policy offers the device:
\* no head switch, pause or directive in between lets an outdated one through.
OffersAreCurrent ==
  [][\A d \in Devices :
       request[d].pc = "read" /\ request'[d].pc = "eligible"
       => request'[d].branch = PolicyFor(d)]_allVars

\* Whatever is selected has been sealed upstream: a manifest request is never
\* sent to a branch without content.
SelectedIsServed ==
  \A d \in Devices : request[d].branch # None => served[request[d].branch] # <<>>

\* A device is never taken back to what it has moved on from: neither to a
\* superseded or recalled release, nor to an old directive.
NoReturn == \A d \in Devices : told[d] \notin passed[d]

\* A device that keeps checking is told of the policy, unless it changes first.
PolicyReaches ==
  \A d \in Devices : \A b \in Branches :
    PolicyFor(d) = b ~> told[d] = b \/ PolicyFor(d) # b

\* A device that was offered a release can download it, also when the release
\* is paused or rolled back meanwhile, unless it is killed or the device is
\* told of something else first.
DownloadsFinish ==
  \A d \in Devices : \A r \in Releases :
    told[d] = r ~> r \in holds[d] \/ release[r].status = "killed" \/ told[d] # r
=============================================================================
