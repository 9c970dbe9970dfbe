---------------------------- MODULE DeliveryProofs ----------------------------
(***************************************************************************)
(* What devices can rely on.  ReleaseControl implements EnvironmentPolicy: *)
(* every step of the tables, the workers and the upstream service is an    *)
(* offer, a withholding or a recall for one environment, or changes        *)
(* nothing a device can notice.  The gateway keeps to that policy although *)
(* it reads the tables piece by piece, without a transaction, while        *)
(* commands and workers change them.                                       *)
(***************************************************************************)
EXTENDS Delivery, ReleaseControlProofs

(***************************************************************************)
(* ReleaseControl implements EnvironmentPolicy                             *)
(***************************************************************************)

\* The statuses of a release that has been offered.
Offered == {"paused"} \union Distributing \union Terminal

\* A release becomes head by being offered, so it is not merely ready.
HeadsWereOffered ==
  \A e \in Environments :
    environment[e].head # None =>
      release[environment[e].head].status \in Offered

\* No step takes that back.
LEMMA StaysOffered ==
  ASSUME ~LostCommits, Inv, [Next]_vars, NEW r \in Releases, release[r].status \in Offered
  PROVE  release'[r].status \in Offered
<1>1. release'[r] = release[r] \/ Controlled(release[r], release'[r])
  BY ReleaseWritten, PublishedRow DEF Offered, Distributing, Terminal
<1>2. release'[r].status \in Statuses
  BY NextInv DEF Inv, TypeOK, ReleaseRow
<1>3. QED
  BY <1>1, <1>2 DEF Controlled, Statuses, Offered

\* What is retired stays retired.
LEMMA StaysRetired ==
  ASSUME ~LostCommits, Inv, [Next]_vars, NEW r \in Releases, r \in Retired
  PROVE  r \in Retired'
<1>1. CASE release[r].status \in Terminal
  BY <1>1, TerminalStep DEF Retired
<1>2. CASE release[r].status = "paused" /\ environment[release[r].environment].head # r
  <2>1. release'[r].status = "paused" /\ release'[r].environment = release[r].environment
    BY <1>2, DisplacedStep, StaysPlaced
  <2>2. release[r].environment \in Environments
    BY <1>2 DEF Inv, TableInv, ReleasesArePlaced
  <2>3. environment'[release[r].environment].head # r
    <3>1. ASSUME NEW c \in Clients, NEW q \in Releases, NEW p \in Percentages, Rollout(c, q, p)
          PROVE  environment'[release[r].environment].head # r
      BY <1>2, <2>2, <3>1 DEF Rollout, Inv, TypeOK, EnvironmentRow
    <3>2. ASSUME NEW w \in Workers, Complete(w)
          PROVE  environment'[release[r].environment].head # r
      BY <1>2, <2>2, <3>2 DEF Complete, Concludes, Inv, TypeOK, EnvironmentRow
    <3>3. CASE environment' = environment
      BY <1>2, <3>3
    <3>4. QED
      BY FailureIsVoid, <3>1, <3>2, <3>3
      DEF Next, Command, Work, Publish, ReadRelease, Pause, Resume, RequestDirective, Claim,
          Inspect, Issue, RefuseReceipt, Retain, Abandon, Land, vars
  <2>4. QED
    BY <2>1, <2>3 DEF Retired
<1>3. QED
  BY <1>1, <1>2 DEF Retired
-----------------------------------------------------------------------------
(* Steps *)

\* An environment's answer in a step that leaves its row and its head's status alone.
LEMMA SameAnswer ==
  ASSUME NEW e \in Environments, environment'[e] = environment[e],
         environment[e].head # None =>
           release'[environment[e].head].status = release[environment[e].head].status
  PROVE  Answer(e)' = Answer(e)
  BY DEF Answer

\* The answers after a step that changes one environment's.
LEMMA OneAnswer ==
  ASSUME NEW e \in Environments, NEW answer, Answer(e)' = answer,
         \A f \in Environments : f # e => Answer(f)' = Answer(f)
  PROVE  [f \in Environments |-> Answer(f)]' =
           [[f \in Environments |-> Answer(f)] EXCEPT ![e] = answer]
  OBVIOUS

\* The heads after a step that changes at most one environment's.
LEMMA OneHead ==
  ASSUME NEW e \in Environments, NEW head, environment'[e].head = head,
         \A f \in Environments : f # e => environment'[f].head = environment[f].head
  PROVE  [f \in Environments |-> environment[f].head]' =
           [[f \in Environments |-> environment[f].head] EXCEPT ![e] = head]
  OBVIOUS

\* A step that keeps the environments' rows and every release's standing.
LEMMA PolicyStutters ==
  ASSUME Inv, environment' = environment,
         \A r \in Releases :
           release'[r] = release[r]
           \/ {release[r].status, release'[r].status} \subseteq {"absent", "draft", "ready"}
  PROVE  UNCHANGED Policy!vars
<1>1. \A r \in Releases : r \in Retired' <=> r \in Retired
  BY DEF Retired, Terminal
<1>2. Retired' = Retired
  BY <1>1 DEF Retired
<1>3. ASSUME NEW e \in Environments
      PROVE  Answer(e)' = Answer(e)
  <2>1. environment[e].head # None => environment[e].head \in Releases
    BY DEF Inv, TypeOK, EnvironmentRow
  <2>2. QED
    BY <2>1 DEF Answer, Distributing
<1>4. QED
  BY <1>2, <1>3 DEF Policy!vars

\* What a step has to do for an environment to make an offer of a release.
LEMMA MakesOffer ==
  ASSUME NEW e \in Environments, NEW r \in Releases, r \notin Retired,
         Answer(e)' = "offer", environment'[e].head = r,
         \A f \in Environments : f # e =>
           Answer(f)' = Answer(f) /\ environment'[f].head = environment[f].head,
         Retired' = Retired \union ({environment[e].head} \ {r, None})
  PROVE  Policy!Offer(e, r)
<1>1. [f \in Environments |-> Answer(f)]' =
        [[f \in Environments |-> Answer(f)] EXCEPT ![e] = "offer"]
  BY OneAnswer
<1>2. [f \in Environments |-> environment[f].head]' =
        [[f \in Environments |-> environment[f].head] EXCEPT ![e] = r]
  BY OneHead
<1>3. [f \in Environments |-> environment[f].head][e] = environment[e].head
  OBVIOUS
<1>4. QED
  BY <1>1, <1>2, <1>3 DEF Policy!Offer

\* What a step has to do to withhold an environment's offer.
LEMMA Withholds ==
  ASSUME NEW e \in Environments, Answer(e) = "offer", Answer(e)' = "nothing",
         \A f \in Environments : f # e => Answer(f)' = Answer(f),
         environment' = environment, Retired' = Retired
  PROVE  Policy!Withhold(e)
<1>1. [f \in Environments |-> Answer(f)]' =
        [[f \in Environments |-> Answer(f)] EXCEPT ![e] = "nothing"]
  BY OneAnswer
<1>2. [f \in Environments |-> Answer(f)][e] = "offer"
  OBVIOUS
<1>3. QED
  BY <1>1, <1>2 DEF Policy!Withhold

\* What a step has to do to send an environment's devices back.
LEMMA Recalls ==
  ASSUME NEW e \in Environments, environment[e].head \notin Retired \union {None},
         Answer(e)' = "embedded",
         \A f \in Environments : f # e => Answer(f)' = Answer(f),
         \A f \in Environments : environment'[f].head = environment[f].head,
         Retired' = Retired \union {environment[e].head}
  PROVE  Policy!Recall(e)
<1>1. [f \in Environments |-> Answer(f)]' =
        [[f \in Environments |-> Answer(f)] EXCEPT ![e] = "embedded"]
  BY OneAnswer
<1>2. [f \in Environments |-> environment[f].head]' = [f \in Environments |-> environment[f].head]
  OBVIOUS
<1>3. [f \in Environments |-> environment[f].head][e] = environment[e].head
  OBVIOUS
<1>4. QED
  BY <1>1, <1>2, <1>3 DEF Policy!Recall

\* A rollout is an offer, and what it takes over from is retired.
LEMMA RolloutOffers ==
  ASSUME Inv, HeadsWereOffered, NEW c \in Clients, NEW r \in Releases, NEW p \in Percentages,
         Rollout(c, r, p), NEW e, e = release[r].environment,
         NEW old, old = environment[e].head
  PROVE  Policy!Offer(e, r)
<1>1. /\ release[r] \in ReleaseRow
      /\ release[r].status \notin {"absent", "draft", "paused"} \union Terminal
      /\ e \in Environments
      /\ p \in Percent
  BY ConstantsAssumption DEF Rollout, Accepts, Inv, TypeOK, TableInv, ReleasesArePlaced
<1>2. StatusAt(p) \in Distributing /\ StatusAt(p) \in Statuses
  BY DEF StatusAt, Distributing, Statuses
<1>3. release'[r].status \in Distributing /\ release'[r].environment = e
  BY <1>1, <1>2, UpdatedRow DEF Rollout
<1>4. \A q \in Releases : q # r => release'[q] = IF q = old THEN Displaced(release[q]) ELSE release[q]
  BY DEF Rollout
<1>5. /\ environment'[e].head = r
      /\ environment'[e].directive = None
      /\ \A f \in Environments : f # e => environment'[f] = environment[f]
  BY <1>1 DEF Rollout, Inv, TypeOK
<1>6. \A f \in Environments : environment[f].head # None =>
        /\ environment[f].head \in Releases
        /\ release[environment[f].head].environment = f
  BY DEF Inv, TypeOK, EnvironmentRow, TableInv, HeadsArePublished
<1>7. r \notin Retired
  BY <1>1 DEF Retired
<1>8. Answer(e)' = "offer"
  BY <1>3, <1>5, ConstantsAssumption DEF Answer, Branches
<1>9. \A f \in Environments : f # e => Answer(f)' = Answer(f)
  <2>1. ASSUME NEW f \in Environments, f # e, environment[f].head # None
        PROVE  release'[environment[f].head] = release[environment[f].head]
    <3>1. environment[f].head \in Releases /\ release[environment[f].head].environment = f
      BY <1>6, <2>1
    <3>2. environment[f].head # r
      BY <2>1, <3>1
    <3>3. environment[f].head = old => old \in Releases /\ release[old].environment = e
      BY <1>1, <1>6, <2>1
    <3>4. QED
      BY <1>4, <2>1, <3>1, <3>2, <3>3
  <2>2. QED
    BY <1>5, <2>1, SameAnswer
<1>10. Retired' = Retired \union ({old} \ {r, None})
  <2>1. ASSUME NEW q \in Releases, q # r, q = old
        PROVE  q \in Retired'
    <3>1. release[q] \in ReleaseRow /\ release[q].environment = e
      BY <1>1, <1>6, <2>1, ConstantsAssumption DEF Inv, TypeOK, Branches
    <3>2. /\ release'[q].status \in {"paused"} \union Terminal
          /\ release'[q].environment = e
      <4>1. release[q].status \in {"paused"} \union Distributing \union Terminal
        BY <1>1, <2>1, ConstantsAssumption DEF HeadsWereOffered, Branches, Offered
      <4>2. QED
        BY <1>4, <2>1, <3>1, <4>1, DisplacedRow
    <3>3. QED
      BY <1>5, <2>1, <3>2 DEF Retired
  <2>2. ASSUME NEW q \in Releases, q # r, q # old
        PROVE  q \in Retired' <=> q \in Retired
    <3>1. release'[q] = release[q]
      BY <1>4, <2>2
    <3>2. release[q].status = "paused" => release[q].environment \in Environments
      BY DEF Inv, TableInv, ReleasesArePlaced
    <3>3. release[q].status = "paused" =>
            (environment'[release[q].environment].head = q
             <=> environment[release[q].environment].head = q)
      BY <1>5, <2>2, <3>2
    <3>4. QED
      BY <3>1, <3>3 DEF Retired
  <2>3. r \notin Retired'
    BY <1>3 DEF Retired, Terminal, Distributing
  <2>4. old \in Releases \union {None}
    BY <1>1 DEF Inv, TypeOK, EnvironmentRow
  <2>5. Retired \subseteq Releases /\ Retired' \subseteq Releases /\ None \notin Releases
    BY ConstantsAssumption DEF Retired, Branches
  <2>6. ASSUME NEW q \in Releases
        PROVE  q \in Retired' <=> q \in Retired \union ({old} \ {r, None})
    BY <1>7, <2>1, <2>2, <2>3, <2>5
  <2>7. QED
    BY <2>4, <2>5, <2>6
<1>11. QED
  BY <1>1, <1>5, <1>7, <1>8, <1>9, <1>10, MakesOffer

\* A pause withholds the offer.
LEMMA PauseWithholds ==
  ASSUME Inv, NEW c \in Clients, NEW r \in Releases, Pause(c, r),
         NEW e, e = release[r].environment
  PROVE  Policy!Withhold(e)
<1>1. /\ release[r] \in ReleaseRow
      /\ release[r].status \in Distributing
      /\ e \in Environments
      /\ environment[e].head = r
      /\ environment[e].directive = None
  <2>1. release[r].status \in Distributing /\ release[r] \in ReleaseRow
    BY DEF Pause, Inv, TypeOK
  <2>2. e \in Environments /\ environment[e].head = r /\ release[r].status \notin Terminal
    BY <2>1 DEF Inv, TableInv, ReleasesArePlaced, OnlyHeadDistributes, Distributing, Terminal
  <2>3. QED
    BY <2>1, <2>2 DEF Inv, TableInv, DirectivesRetireHeads
<1>2. /\ environment' = environment
      /\ release' = [release EXCEPT ![r] = Updated(release[r], "paused", release[r].percentage)]
  BY DEF Pause
<1>3. release'[r].status = "paused" /\ release'[r].environment = e
  BY <1>1, <1>2, UpdatedRow DEF Statuses, ReleaseRow, Inv, TypeOK
<1>4. \A q \in Releases : q # r => release'[q] = release[q]
  BY <1>2 DEF Inv, TypeOK
<1>5. Answer(e) = "offer" /\ Answer(e)' = "nothing"
  BY <1>1, <1>2, <1>3, ConstantsAssumption DEF Answer, Branches, Distributing
<1>6. \A f \in Environments : f # e => Answer(f)' = Answer(f)
  <2>1. \A f \in Environments : f # e /\ environment[f].head # None =>
          environment[f].head \in Releases \ {r}
    BY DEF Inv, TypeOK, EnvironmentRow, TableInv, HeadsArePublished
  <2>2. QED
    BY <1>2, <1>4, <2>1, SameAnswer
<1>7. Retired' = Retired
  <2>1. r \notin Retired /\ r \notin Retired'
    BY <1>1, <1>2, <1>3 DEF Retired, Terminal, Distributing
  <2>2. \A q \in Releases : q \in Retired' <=> q \in Retired
    BY <1>2, <1>4, <2>1 DEF Retired
  <2>3. QED
    BY <2>2 DEF Retired
<1>8. QED
  BY <1>1, <1>2, <1>5, <1>6, <1>7, Withholds

\* Resuming offers the head again.
LEMMA ResumeOffers ==
  ASSUME Inv, NEW c \in Clients, NEW r \in Releases, Resume(c, r),
         NEW e, e = release[r].environment
  PROVE  Policy!Offer(e, r)
<1>1. /\ release[r] \in ReleaseRow
      /\ release[r].status = "paused"
      /\ release[r].percentage \in Percent
      /\ e \in Environments
      /\ environment[e].head = r
      /\ environment[e].directive = None
  <2>1. release[r].status = "paused" /\ release[r] \in ReleaseRow /\ environment[e].head = r
    BY DEF Resume, Inv, TypeOK
  <2>2. e \in Environments /\ release[r].percentage \in Percent
    BY <2>1 DEF Inv, TableInv, ReleasesArePlaced, ReleaseRow
  <2>3. QED
    BY <2>1, <2>2 DEF Inv, TableInv, DirectivesRetireHeads, Terminal
<1>2. /\ environment' = environment
      /\ release' = [release EXCEPT ![r] =
                       Updated(release[r], StatusAt(release[r].percentage), release[r].percentage)]
  BY DEF Resume
<1>3. release'[r].status \in Distributing /\ release'[r].environment = e
  <2>1. StatusAt(release[r].percentage) \in Distributing \intersect Statuses
    BY DEF StatusAt, Distributing, Statuses
  <2>2. QED
    BY <1>1, <1>2, <2>1, UpdatedRow DEF Inv, TypeOK
<1>4. \A q \in Releases : q # r => release'[q] = release[q]
  BY <1>2 DEF Inv, TypeOK
<1>5. Answer(e)' = "offer"
  BY <1>1, <1>2, <1>3, ConstantsAssumption DEF Answer, Branches
<1>6. \A f \in Environments : f # e => Answer(f)' = Answer(f)
  <2>1. \A f \in Environments : f # e /\ environment[f].head # None =>
          environment[f].head \in Releases \ {r}
    BY DEF Inv, TypeOK, EnvironmentRow, TableInv, HeadsArePublished
  <2>2. QED
    BY <1>2, <1>4, <2>1, SameAnswer
<1>7. r \notin Retired /\ Retired' = Retired
  <2>1. r \notin Retired /\ r \notin Retired'
    BY <1>1, <1>2, <1>3 DEF Retired, Terminal, Distributing
  <2>2. \A q \in Releases : q \in Retired' <=> q \in Retired
    BY <1>2, <1>4, <2>1 DEF Retired
  <2>3. QED
    BY <2>1, <2>2 DEF Retired
<1>8. Retired' = Retired \union ({environment[e].head} \ {r, None})
  BY <1>1, <1>7
<1>9. QED
  BY <1>1, <1>2, <1>5, <1>6, <1>7, <1>8, MakesOffer

\* A completed directive recalls the head.
LEMMA DirectiveRecalls ==
  ASSUME Inv, NEW w \in Workers, Complete(w),
         NEW k, k = worker[w].op, operation[k].action \in Directives,
         NEW r, r = operation[k].resource, NEW e, e = release[r].environment
  PROVE  Policy!Recall(e)
<1>1. /\ k \in Operations /\ r \in Releases /\ e \in Environments
      /\ release[r] \in ReleaseRow
      /\ release[r].environment = e
      /\ environment[e].head = r
      /\ release[r].status \notin Terminal
  BY BusyWorker DEF Complete, Concludes, Inv, TypeOK, TableInv, DirectivesAreOfHeads, EnvironmentOf
<1>2. /\ RetiredBy(operation[k].action) \in Terminal
      /\ RetiredBy(operation[k].action) \in Statuses
  BY DEF RetiredBy, Terminal, Statuses
<1>3. \A q \in Releases :
        release'[q] = IF q = r THEN Moved(release[q], RetiredBy(operation[k].action))
                      ELSE IF release[q].environment = release[r].environment
                           THEN Displaced(release[q])
                           ELSE release[q]
  BY DEF Complete, Concludes, ReleasesAfter, Directives
<1>4. release'[r].status \in Terminal /\ release'[r].environment = e
  <2>1. release'[r] = Moved(release[r], RetiredBy(operation[k].action))
    BY <1>1, <1>3
  <2>2. QED
    BY <1>1, <1>2, <2>1, MovedRow
<1>5. \A q \in Releases : q # r => release'[q] = release[q]
  <2>1. ASSUME NEW q \in Releases, q # r, release[q].environment = e
        PROVE  Displaced(release[q]) = release[q]
    BY <1>1, <2>1 DEF Inv, TableInv, OnlyHeadDistributes, Displaced
  <2>2. QED
    BY <1>1, <1>3, <2>1
<1>6. /\ environment'[e].directive = k
      /\ \A f \in Environments : f # e => environment'[f] = environment[f]
      /\ \A f \in Environments : environment'[f].head = environment[f].head
  <2>1. environment' = [environment EXCEPT ![e].directive = k]
    BY <1>1 DEF Complete, Concludes, Directives, EnvironmentOf
  <2>2. QED
    BY <1>1, <2>1 DEF Inv, TypeOK, EnvironmentRow
<1>7. Answer(e)' = "embedded"
  BY <1>1, <1>6, ConstantsAssumption DEF Answer, Branches
<1>8. \A f \in Environments : f # e => Answer(f)' = Answer(f)
  <2>1. \A f \in Environments : f # e /\ environment[f].head # None =>
          environment[f].head \in Releases \ {r}
    BY <1>1 DEF Inv, TypeOK, EnvironmentRow, TableInv, HeadsArePublished
  <2>2. QED
    BY <1>5, <1>6, <2>1, SameAnswer
<1>9. r \notin Retired /\ r # None
  BY <1>1, ConstantsAssumption DEF Retired, Branches
<1>10. Retired' = Retired \union {environment[e].head}
  <2>1. r \in Retired'
    BY <1>1, <1>4 DEF Retired
  <2>2. ASSUME NEW q \in Releases, q # r
        PROVE  q \in Retired' <=> q \in Retired
    <3>1. release'[q] = release[q]
      BY <1>5, <2>2
    <3>2. release[q].status # "absent" => release[q].environment \in Environments
      BY DEF Inv, TableInv, ReleasesArePlaced
    <3>3. QED
      BY <1>6, <3>1, <3>2 DEF Retired
  <2>3. QED
    BY <1>1, <2>1, <2>2 DEF Retired
<1>11. QED
  BY <1>1, <1>6, <1>7, <1>8, <1>9, <1>10, Recalls
-----------------------------------------------------------------------------
(* The refinement *)

\* Initially nothing is offered and nothing is retired.
LEMMA InitPolicy ==
  ASSUME Init
  PROVE  HeadsWereOffered /\ Policy!Init
<1>1. Retired = {}
  BY DEF Init, Retired, NoRelease, Terminal
<1>2. \A e \in Environments : environment[e].head = None /\ Answer(e) = "nothing"
  BY DEF Init, Answer
<1>3. QED
  BY <1>1, <1>2 DEF HeadsWereOffered, Policy!Init

\* Heads only change by a rollout, and no command makes a release merely ready.
LEMMA HeadsStep ==
  ASSUME ~LostCommits, Inv, HeadsWereOffered, [Next]_vars
  PROVE  HeadsWereOffered'
<1> SUFFICES ASSUME NEW e \in Environments, NEW r, environment'[e].head = r, r # None
             PROVE  release'[r].status \in Offered
  BY DEF HeadsWereOffered
<1>1. CASE environment[e].head = r
  <2>1. /\ r \in Releases
        /\ release[r].status \in Offered
    BY <1>1 DEF HeadsWereOffered, Inv, TypeOK, EnvironmentRow
  <2>2. QED
    BY <2>1, StaysOffered
<1>2. CASE environment[e].head # r
  <2>1. ASSUME NEW c \in Clients, NEW q \in Releases, NEW p \in Percentages, Rollout(c, q, p)
        PROVE  release'[r].status \in Distributing
    <3>1. q = r
      BY <1>2, <2>1 DEF Rollout, Inv, TypeOK
    <3>2. release[q] \in ReleaseRow /\ p \in Percent
      BY ConstantsAssumption DEF Inv, TypeOK
    <3>3. StatusAt(p) \in Distributing /\ StatusAt(p) \in Statuses
      BY DEF StatusAt, Distributing, Statuses
    <3>4. QED
      BY <2>1, <3>1, <3>2, <3>3, UpdatedRow DEF Rollout
  <2>2. ASSUME NEW w \in Workers, Complete(w)
        PROVE  FALSE
    BY <1>2, <2>2 DEF Complete, Concludes, Inv, TypeOK, EnvironmentRow
  <2>3. CASE environment' = environment
    BY <1>2, <2>3
  <2>4. QED
    BY FailureIsVoid, <2>1, <2>2, <2>3
    DEF Offered, Next, Command, Work, Publish, ReadRelease, Pause, Resume, RequestDirective, Claim,
        Inspect, Issue, RefuseReceipt, Retain, Abandon, Land, vars
<1>3. QED
  BY <1>1, <1>2

\* A publication is not noticed before it is rolled out.
LEMMA PublicationStutters ==
  ASSUME Inv, NEW w \in Workers, Complete(w), operation[worker[w].op].action = "publish"
  PROVE  UNCHANGED Policy!vars
<1>1. \A q \in Releases :
        release'[q] = release[q] \/ Publishes(w, q)
  BY DEF Complete, Concludes, ReleasesAfter, Publishes, Inv, TypeOK
<1>2. \A q \in Releases :
        release'[q] = release[q]
        \/ {release[q].status, release'[q].status} \subseteq {"absent", "draft", "ready"}
  BY <1>1, PublishedRow
<1>3. environment' = environment
  BY DEF Complete, Concludes
<1>4. QED
  BY <1>2, <1>3, PolicyStutters

\* Every step is a step of the policy of one environment or changes nothing in it.
LEMMA NextPolicy ==
  ASSUME ~LostCommits, Inv, HeadsWereOffered, [Next]_vars
  PROVE  [Policy!Next]_(Policy!vars)
<1>1. ASSUME NEW c \in Clients, NEW r \in Releases, NEW p \in Percentages, Rollout(c, r, p)
      PROVE  Policy!Next
  <2>1. PICK e \in Environments : e = release[r].environment
    BY <1>1 DEF Rollout, Accepts, Inv, TableInv, ReleasesArePlaced
  <2>2. Policy!Offer(e, r)
    BY <1>1, <2>1, RolloutOffers
  <2>3. QED
    BY <2>2 DEF Policy!Next
<1>2. ASSUME NEW c \in Clients, NEW r \in Releases, Pause(c, r)
      PROVE  Policy!Next
  <2>1. PICK e \in Environments : e = release[r].environment
    BY <1>2 DEF Pause, Accepts, Inv, TableInv, ReleasesArePlaced
  <2>2. Policy!Withhold(e)
    BY <1>2, <2>1, PauseWithholds
  <2>3. QED
    BY <2>2 DEF Policy!Next
<1>3. ASSUME NEW c \in Clients, NEW r \in Releases, Resume(c, r)
      PROVE  Policy!Next
  <2>1. PICK e \in Environments : e = release[r].environment
    BY <1>3 DEF Resume, Accepts, Inv, TableInv, ReleasesArePlaced
  <2>2. Policy!Offer(e, r)
    BY <1>3, <2>1, ResumeOffers
  <2>3. QED
    BY <2>2 DEF Policy!Next
<1>4. ASSUME NEW w \in Workers, Complete(w)
      PROVE  Policy!Next \/ UNCHANGED Policy!vars
  <2>1. PICK k : k = worker[w].op
    OBVIOUS
  <2>2. PICK r : r = operation[k].resource
    OBVIOUS
  <2>3. PICK e \in Environments : e = release[r].environment
    BY <1>4, <2>1, <2>2, BusyWorker DEF Complete, Concludes, EnvironmentOf
  <2>4. operation[k].action \in {"publish"} \union Directives
    BY <1>4, <2>1, BusyWorker DEF Complete, Concludes
  <2>5. CASE operation[k].action = "publish"
    BY <1>4, <2>1, <2>5, PublicationStutters
  <2>6. CASE operation[k].action \in Directives
    <3>1. Policy!Recall(e)
      BY <1>4, <2>1, <2>2, <2>3, <2>6, DirectiveRecalls
    <3>2. QED
      BY <3>1 DEF Policy!Next
  <2>7. QED
    BY <2>4, <2>5, <2>6
<1>5. ASSUME NEW e \in Environments, NEW r \in Releases, NEW k \in Operations, Publish(e, r, k)
      PROVE  UNCHANGED Policy!vars
  <2>1. \A q \in Releases :
          release'[q] = release[q]
          \/ {release[q].status, release'[q].status} \subseteq {"absent", "draft", "ready"}
    BY <1>5 DEF Publish, Inv, TypeOK
  <2>2. QED
    BY <1>5, <2>1, PolicyStutters DEF Publish
<1>6. ASSUME release' = release, environment' = environment
      PROVE  UNCHANGED Policy!vars
  BY <1>6, PolicyStutters
<1>7. QED
  BY FailureIsVoid, <1>1, <1>2, <1>3, <1>4, <1>5, <1>6
  DEF Next, Command, Work, ReadRelease, RequestDirective, Claim, Inspect, Issue, RefuseReceipt,
      Retain, Abandon, Land, vars

\* The tables, the command handlers and the workers implement the promise the
\* delivery documentation makes for an environment's policy, for any number of
\* releases, clients, workers and failures.
THEOREM PolicyImplemented ==
  ASSUME ~LostCommits
  PROVE  Spec => ImplementsPolicy
<1>1. Init => HeadsWereOffered /\ Policy!Init
  BY InitPolicy
<1>2. Inv /\ HeadsWereOffered /\ [Next]_vars => HeadsWereOffered' /\ [Policy!Next]_(Policy!vars)
  BY HeadsStep, NextPolicy
<1>3. QED
  BY <1>1, <1>2, Invariance, PTL DEF Spec, ImplementsPolicy, Policy!Spec

(***************************************************************************)
(* The gateway                                                             *)
(***************************************************************************)

\* A branch a device of this environment may at some time have been told of:
\* a release that has been offered or a directive that has been carried out.
Settled(d, b) ==
  /\ served[b] # <<>>
  /\ b \in Releases => release[b].environment = Home[d] /\ release[b].status \in Offered
  /\ b \in Operations =>
       /\ operation[b].status = "succeeded"
       /\ EnvironmentOf(b) = Home[d]
       /\ release[operation[b].resource].status \in Terminal

\* A release or directive that will never again be an environment's policy.
Over(b) ==
  \/ b \in Retired
  \/ /\ b \in Operations
     /\ operation[b].status = "succeeded"
     /\ environment[EnvironmentOf(b)].directive # b

\* The branch a request of the device is about to answer with.
Picked(d, b) ==
  \/ request[d].pc = "read" /\ request[d].directive = b
  \/ request[d].pc \in {"eligible", "selected"} /\ request[d].branch = b

\* It is no way back, and what the device leaves for it is over.
Onward(d, b) ==
  /\ Settled(d, b)
  /\ b \notin passed[d]
  /\ \A a \in Branches : told[d] = a /\ a # b => Over(a)

DeviceInv(d) ==
  /\ \A b \in Branches : told[d] = b => Settled(d, b)
  /\ \A b \in passed[d] : Over(b) /\ told[d] # b
  /\ \A b \in Branches : Picked(d, b) => Onward(d, b)
  /\ \A b \in Branches : request[d].branch = b => Settled(d, b)
  /\ \A r \in Releases :
       request[d].pc = "read" /\ request[d].head = r =>
         release[r].environment = Home[d] /\ release[r].status # "absent"
  /\ request[d].pc \in {"idle", "read"} => request[d].branch = None
  /\ request[d].pc \in {"eligible", "asset"} => request[d].branch \in Releases
  /\ request[d].pc = "selected" => request[d].branch \in Branches

DeliveryInv == DeliveryTypeOK /\ \A d \in Devices : DeviceInv(d)

\* What the tables are known to satisfy, proved in the modules before.
TablesInv ==
  Inv /\ ReceiptBeforeReady /\ DirectiveIsSigned

LEMMA TablesStep ==
  ASSUME ~LostCommits, TablesInv, [Next]_vars
  PROVE  TablesInv'
  BY NextInv, ReceiptStep, SignedStep DEF TablesInv
-----------------------------------------------------------------------------
(* Steps of the tables, the workers and the upstream service *)

LEMMA SettledStays ==
  ASSUME ~LostCommits, Inv, [Next]_vars, NEW d \in Devices, NEW b \in Branches, Settled(d, b)
  PROVE  Settled(d, b)'
<1>1. served'[b] # <<>>
  <2>1. served[b] \in Seq(BOOLEAN) /\ served'[b] \in Seq(BOOLEAN)
    BY NextInv DEF Inv, TypeOK
  <2>2. 1 \in 1..Len(served[b])
    BY <2>1 DEF Settled
  <2>3. 1 \in 1..Len(served'[b])
    BY <2>2, StaysServed
  <2>4. QED
    BY <2>1, <2>3
<1>2. ASSUME b \in Releases
      PROVE  release'[b].environment = Home[d] /\ release'[b].status \in Offered
  <2>1. release[b].status \in Offered /\ release[b].environment = Home[d]
    BY <1>2 DEF Settled
  <2>2. release[b].status # "absent"
    BY <2>1 DEF Offered, Distributing, Terminal
  <2>3. QED
    BY <1>2, <2>1, <2>2, StaysOffered, StaysPlaced
<1>3. ASSUME b \in Operations
      PROVE  /\ operation'[b].status = "succeeded"
             /\ release'[operation'[b].resource].environment = Home[d]
             /\ release'[operation'[b].resource].status \in Terminal
  <2>1. /\ operation[b].status = "succeeded"
        /\ EnvironmentOf(b) = Home[d]
        /\ release[operation[b].resource].status \in Terminal
    BY <1>3 DEF Settled
  <2>2. operation'[b] = operation[b]
    BY <1>3, <2>1, SucceededStep
  <2>3. operation[b].resource \in Releases /\ release[operation[b].resource].status # "absent"
    BY <1>3, <2>1 DEF Inv, TableInv, OperationsAreOfReleases
  <2>4. QED
    BY <2>1, <2>2, <2>3, StaysPlaced, TerminalStep DEF EnvironmentOf
<1>4. QED
  BY <1>1, <1>2, <1>3 DEF Settled, EnvironmentOf

LEMMA OverStays ==
  ASSUME ~LostCommits, Inv, [Next]_vars, NEW b \in Branches, Over(b)
  PROVE  Over(b)'
<1>1. CASE b \in Retired
  BY <1>1, StaysRetired DEF Over, Retired
<1>2. ASSUME b \in Operations, operation[b].status = "succeeded",
             NEW e, e = EnvironmentOf(b), environment[e].directive # b
      PROVE  Over(b)'
  <2>1. operation'[b] = operation[b]
    BY <1>2, SucceededStep
  <2>2. /\ operation[b].resource \in Releases
        /\ release[operation[b].resource].status # "absent"
        /\ e \in Environments
    BY <1>2 DEF Inv, TableInv, OperationsAreOfReleases, ReleasesArePlaced, EnvironmentOf
  <2>3. release'[operation'[b].resource].environment = e
    BY <1>2, <2>1, <2>2, StaysPlaced DEF EnvironmentOf
  <2>4. environment'[e].directive # b
    <3>1. ASSUME NEW c \in Clients, NEW q \in Releases, NEW p \in Percentages, Rollout(c, q, p)
          PROVE  environment'[e].directive # b
      BY <1>2, <2>2, <3>1, ConstantsAssumption DEF Rollout, Inv, TypeOK, Branches
    <3>2. ASSUME NEW w \in Workers, Complete(w)
          PROVE  environment'[e].directive # b
      <4>1. worker[w].op # b
        BY <1>2, <3>2, BusyWorker DEF Complete, Concludes
      <4>2. QED
        BY <1>2, <2>2, <3>2, <4>1 DEF Complete, Concludes, Inv, TypeOK, EnvironmentRow
    <3>3. CASE environment' = environment
      BY <1>2, <3>3
    <3>4. QED
      BY FailureIsVoid, <3>1, <3>2, <3>3
      DEF Next, Command, Work, Publish, ReadRelease, Pause, Resume, RequestDirective, Claim,
          Inspect, Issue, RefuseReceipt, Retain, Abandon, Land, vars
  <2>5. QED
    BY <1>2, <2>1, <2>3, <2>4 DEF Over, EnvironmentOf
<1>3. QED
  BY <1>1, <1>2 DEF Over

LEMMA TablesKeepDevice ==
  ASSUME ~LostCommits, Inv, DeliveryTypeOK, [Next]_vars, UNCHANGED deliveryVars, NEW d \in Devices, DeviceInv(d)
  PROVE  DeviceInv(d)'
<1>1. UNCHANGED <<told, passed, request>>
  BY DEF deliveryVars
<1>2. \A b \in Branches : Settled(d, b) => Settled(d, b)'
  BY SettledStays
<1>3. \A b \in Branches : Over(b) => Over(b)'
  BY OverStays
<1>4. \A b \in passed[d] : b \in Branches
  BY DEF DeliveryTypeOK
<1>5. \A b \in Branches : Onward(d, b) => Onward(d, b)'
  BY <1>1, <1>2, <1>3 DEF Onward
<1>6. \A b \in Branches : Picked(d, b)' => Picked(d, b)
  BY <1>1 DEF Picked
<1>7. ASSUME NEW r \in Releases, request[d].pc = "read", request[d].head = r
      PROVE  release'[r].environment = Home[d] /\ release'[r].status # "absent"
  BY <1>7, StaysPlaced DEF DeviceInv
<1>8. QED
  BY <1>1, <1>2, <1>3, <1>4, <1>5, <1>6, <1>7 DEF DeviceInv
-----------------------------------------------------------------------------
(* What the rows say now is no way back for a device *)

\* A release that is distributed is the whole policy of its environment.
LEMMA OfferIsPolicy ==
  ASSUME TablesInv, NEW r \in Releases, release[r].status \in Distributing,
         NEW e, e = release[r].environment
  PROVE  e \in Environments /\ environment[e].head = r /\ environment[e].directive = None
<1>1. e \in Environments /\ environment[e].head = r
  BY DEF TablesInv, Inv, TableInv, ReleasesArePlaced, OnlyHeadDistributes, Distributing
<1>2. release[r].status \notin Terminal
  BY DEF Terminal, Distributing
<1>3. QED
  BY <1>1, <1>2 DEF TablesInv, Inv, TableInv, DirectivesRetireHeads

LEMMA OfferIsOnward ==
  ASSUME TablesInv, NEW d \in Devices, DeviceInv(d), NEW r \in Releases,
         release[r].environment = Home[d], release[r].status \in Distributing
  PROVE  Onward(d, r)
<1>1. r \in Branches /\ r \notin Operations
  BY ConstantsAssumption DEF Branches
<1>2. /\ Home[d] \in Environments
      /\ environment[Home[d]].head = r
      /\ environment[Home[d]].directive = None
  BY OfferIsPolicy
<1>3. Settled(d, r)
  <2>1. /\ release[r].upstream \in 1..Len(served[r])
        /\ served[r] \in Seq(BOOLEAN)
    BY <1>1 DEF TablesInv, ReceiptBeforeReady, Distributing, Inv, TypeOK
  <2>2. served[r] # <<>>
    BY <2>1
  <2>3. QED
    BY <1>1, <2>2 DEF Settled, Offered
<1>4. r \notin passed[d]
  BY <1>1 DEF DeviceInv, Over, Retired, Distributing, Terminal
<1>5. ASSUME NEW a \in Branches, told[d] = a, a # r
      PROVE  Over(a)
  <2>1. Settled(d, a)
    BY <1>5 DEF DeviceInv
  <2>2. CASE a \in Releases
    <3>1. release[a].environment = Home[d] /\ release[a].status \in Offered
      BY <2>1, <2>2 DEF Settled
    <3>2. release[a].status \notin Distributing
      BY <1>2, <1>5, <2>2, <3>1 DEF TablesInv, Inv, TableInv, OnlyHeadDistributes
    <3>3. QED
      BY <1>2, <1>5, <2>2, <3>1, <3>2 DEF Over, Retired, Offered
  <2>3. CASE a \in Operations
    BY <1>2, <2>1, <2>3, ConstantsAssumption DEF Settled, Over, Branches
  <2>4. QED
    BY <2>2, <2>3 DEF Branches
<1>6. QED
  BY <1>3, <1>4, <1>5 DEF Onward

LEMMA DirectiveIsOnward ==
  ASSUME TablesInv, NEW d \in Devices, DeviceInv(d), Home[d] \in Environments,
         NEW k \in Operations, environment[Home[d]].directive = k
  PROVE  Onward(d, k)
<1>1. k \in Branches /\ k \notin Releases /\ k # None
  BY ConstantsAssumption DEF Branches
<1>2. /\ operation[k].status = "succeeded"
      /\ EnvironmentOf(k) = Home[d]
      /\ release[operation[k].resource].status \in Terminal
      /\ \E i \in 1..Len(served[k]) : served[k][i]
  BY <1>1 DEF TablesInv, DirectiveIsSigned
<1>3. Settled(d, k)
  <2>1. served[k] # <<>>
    BY <1>2
  <2>2. QED
    BY <1>1, <1>2, <2>1 DEF Settled
<1>4. k \notin passed[d]
  BY <1>1, <1>2 DEF DeviceInv, Over, Retired
<1>5. ASSUME NEW a \in Branches, told[d] = a, a # k
      PROVE  Over(a)
  <2>1. Settled(d, a)
    BY <1>5 DEF DeviceInv
  <2>2. CASE a \in Releases
    <3>1. release[a].environment = Home[d] /\ release[a].status \in Offered
      BY <2>1, <2>2 DEF Settled
    <3>2. release[environment[Home[d]].head].status \in Terminal
      BY <1>1 DEF TablesInv, Inv, TableInv, DirectivesRetireHeads
    <3>3. release[a].status \in Terminal \/ environment[Home[d]].head # a
      BY <3>2
    <3>4. release[a].status \in {"paused"} \union Terminal
      BY <2>2, <3>1, <3>2
      DEF TablesInv, Inv, TableInv, OnlyHeadDistributes, Offered, Distributing, Terminal
    <3>5. QED
      BY <2>2, <3>1, <3>3, <3>4 DEF Over, Retired
  <2>3. CASE a \in Operations
    BY <1>5, <2>1, <2>3 DEF Settled, Over
  <2>4. QED
    BY <2>2, <2>3 DEF Branches
<1>6. QED
  BY <1>3, <1>4, <1>5 DEF Onward
-----------------------------------------------------------------------------
(* Steps of the gateway *)

LEMMA SameBranchFacts ==
  ASSUME UNCHANGED vars, NEW d \in Devices, NEW b
  PROVE  /\ Settled(d, b)' <=> Settled(d, b)
         /\ Over(b)' <=> Over(b)
  BY DEF vars, Settled, Over, Retired, EnvironmentOf

\* Devices a step has nothing to do with.
LEMMA OtherDevice ==
  ASSUME UNCHANGED vars, NEW d \in Devices, DeviceInv(d),
         request'[d] = request[d], told'[d] = told[d], passed'[d] = passed[d]
  PROVE  DeviceInv(d)'
<1>1. \A b \in Branches : Onward(d, b) => Onward(d, b)'
  BY SameBranchFacts DEF Onward
<1>2. \A b \in Branches : Picked(d, b)' => Picked(d, b)
  BY DEF Picked
<1>3. \A b : (Settled(d, b)' <=> Settled(d, b)) /\ (Over(b)' <=> Over(b))
  BY SameBranchFacts
<1>4. release' = release
  BY DEF vars
<1>5. QED
  BY <1>1, <1>2, <1>3, <1>4 DEF DeviceInv

\* A request that ends without an answer.
LEMMA RequestEnds ==
  ASSUME UNCHANGED vars, NEW d \in Devices, DeviceInv(d),
         request'[d] = NoRequest, told'[d] = told[d], passed'[d] = passed[d]
  PROVE  DeviceInv(d)'
<1>1. \A b \in Branches : ~Picked(d, b)' /\ request'[d].branch # b
  BY ConstantsAssumption DEF Picked, NoRequest
<1>2. \A b : (Settled(d, b)' <=> Settled(d, b)) /\ (Over(b)' <=> Over(b))
  BY SameBranchFacts
<1>3. request'[d].pc = "idle" /\ request'[d].branch = None
  BY DEF NoRequest
<1>4. QED
  BY <1>1, <1>2, <1>3 DEF DeviceInv

\* A request that goes on with a branch that is no way back.
LEMMA RequestGoesOn ==
  ASSUME UNCHANGED vars, NEW d \in Devices, DeviceInv(d), NEW b \in Branches, Onward(d, b),
         NEW pc \in {"eligible", "selected"}, pc = "eligible" => b \in Releases,
         request'[d] = RequestFor(pc, b), told'[d] = told[d], passed'[d] = passed[d]
  PROVE  DeviceInv(d)'
<1>1. Onward(d, b)'
  BY SameBranchFacts DEF Onward
<1>2. request'[d].pc = pc /\ request'[d].branch = b
  BY DEF RequestFor
<1>3. \A a \in Branches : Picked(d, a)' => a = b
  BY <1>2 DEF Picked
<1>4. \A a : (Settled(d, a)' <=> Settled(d, a)) /\ (Over(a)' <=> Over(a))
  BY SameBranchFacts
<1>5. Settled(d, b)'
  BY <1>4 DEF Onward
<1>6. QED
  BY <1>1, <1>2, <1>3, <1>4, <1>5 DEF DeviceInv

LEMMA AskManifestKeeps ==
  ASSUME TablesInv, UNCHANGED vars, NEW d \in Devices, DeviceInv(d), Home[d] \in Environments,
         AskManifest(d), request \in [Devices -> Request]
  PROVE  DeviceInv(d)'
<1>1. /\ request'[d].pc = "read"
      /\ request'[d].head = environment[Home[d]].head
      /\ request'[d].directive = environment[Home[d]].directive
      /\ request'[d].branch = None
      /\ told' = told /\ passed' = passed
  BY DEF AskManifest
<1>2. \A b : (Settled(d, b)' <=> Settled(d, b)) /\ (Over(b)' <=> Over(b))
  BY SameBranchFacts
<1>3. ASSUME NEW b \in Branches, Picked(d, b)'
      PROVE  Onward(d, b)'
  <2>1. environment[Home[d]].directive = b
    BY <1>1, <1>3 DEF Picked
  <2>2. b \in Operations
    BY <2>1, ConstantsAssumption DEF TablesInv, Inv, TypeOK, EnvironmentRow, Branches
  <2>3. Onward(d, b)
    BY <2>1, <2>2, DirectiveIsOnward
  <2>4. QED
    BY <1>1, <1>2, <2>3 DEF Onward
<1>4. ASSUME NEW r \in Releases, request'[d].head = r
      PROVE  release'[r].environment = Home[d] /\ release'[r].status # "absent"
  <2>1. r # None /\ release' = release
    BY ConstantsAssumption DEF Branches, vars
  <2>2. QED
    BY <1>1, <1>4, <2>1 DEF TablesInv, Inv, TableInv, HeadsArePublished
<1>5. None \notin Branches
  BY ConstantsAssumption
<1>6. QED
  BY <1>1, <1>2, <1>3, <1>4, <1>5 DEF DeviceInv

\* The one step at which a device learns something.
LEMMA AnswerKeeps ==
  ASSUME TablesInv, UNCHANGED vars, NEW d \in Devices, DeviceInv(d), DeliveryTypeOK,
         AnswerManifest(d), NEW b, b = request[d].branch
  PROVE  DeviceInv(d)'
<1>1. /\ b \in Branches
      /\ Onward(d, b)
  BY DEF AnswerManifest, DeviceInv, Picked
<1>2. /\ told'[d] = b
      /\ passed'[d] = passed[d] \union LeftFor(d, b)
      /\ request'[d] = NoRequest
  BY DEF AnswerManifest, DeliveryTypeOK
<1>3. \A a : (Settled(d, a)' <=> Settled(d, a)) /\ (Over(a)' <=> Over(a))
  BY SameBranchFacts
<1>4. ASSUME NEW a \in LeftFor(d, b)
      PROVE  Over(a) /\ a # b
  <2>1. CASE a \in {told[d]} \ {b, None}
    <3>1. a \in Branches /\ told[d] = a /\ a # b
      BY <2>1 DEF DeliveryTypeOK
    <3>2. QED
      BY <1>1, <3>1 DEF Onward
  <2>2. CASE b \in Operations /\ a = operation[b].resource
    <3>1. operation[b].status = "succeeded" /\ release[a].status \in Terminal
      BY <1>1, <2>2 DEF Onward, Settled
    <3>2. a \in Releases
      BY <2>2, <3>1 DEF TablesInv, Inv, TableInv, OperationsAreOfReleases
    <3>3. QED
      BY <2>2, <3>1, <3>2, ConstantsAssumption DEF Over, Retired
  <2>3. QED
    BY <2>1, <2>2 DEF LeftFor
<1>5. \A a \in passed'[d] : Over(a)' /\ told'[d] # a
  BY <1>1, <1>2, <1>3, <1>4 DEF DeviceInv, Onward
<1>6. Settled(d, b)'
  BY <1>1, <1>3 DEF Onward
<1>7. /\ request'[d].pc = "idle" /\ request'[d].branch = None
      /\ \A a \in Branches : ~Picked(d, a)' /\ request'[d].branch # a
  BY <1>2, ConstantsAssumption DEF NoRequest, Picked
<1>8. QED
  BY <1>2, <1>5, <1>6, <1>7 DEF DeviceInv

\* The device whose request it is.
LEMMA GatewayDevice ==
  ASSUME TablesInv, DeliveryTypeOK, UNCHANGED vars, NEW d \in Devices, DeviceInv(d),
         AskManifest(d) \/ AskAsset(d) \/ Handle(d) \/ Break(d)
  PROVE  DeviceInv(d)'
<1>1. /\ request \in [Devices -> Request] /\ request[d] \in Request
      /\ told \in [Devices -> Branches \union {None}]
      /\ Home[d] \in Environments
      /\ holds \in [Devices -> SUBSET Releases]
  BY DeliveryAssumption DEF DeliveryTypeOK
<1>2. CASE AskManifest(d)
  BY <1>1, <1>2, AskManifestKeeps
<1>3. CASE SelectDirective(d)
  <2>1. PICK b \in Operations : b = request[d].directive
    BY <1>1, <1>3 DEF SelectDirective, Request
  <2>2. b \in Branches /\ Onward(d, b)
    BY <1>3, <2>1 DEF SelectDirective, DeviceInv, Picked, Branches
  <2>3. request'[d] = RequestFor("selected", b) /\ told' = told /\ passed' = passed
    BY <1>1, <1>3, <2>1 DEF SelectDirective
  <2>4. QED
    BY <2>2, <2>3, RequestGoesOn
<1>4. CASE SelectRelease(d)
  <2>1. PICK r \in Releases : r = request[d].head
    BY <1>1, <1>4 DEF SelectRelease, HeadOffered, Request
  <2>2. /\ release[r].environment = Home[d]
        /\ release[r].status \in Distributing
    BY <1>4, <2>1 DEF SelectRelease, HeadOffered, OfferedTo, DeviceInv
  <2>3. r \in Branches /\ Onward(d, r)
    BY <2>2, OfferIsOnward DEF Branches
  <2>4. request'[d] = RequestFor("eligible", r) /\ told' = told /\ passed' = passed
    BY <1>1, <1>4, <2>1 DEF SelectRelease
  <2>5. QED
    BY <2>3, <2>4, RequestGoesOn
<1>5. CASE Grant(d)
  <2>1. PICK b \in Releases : b = request[d].branch
    BY <1>5 DEF Grant, DeviceInv
  <2>2. b \in Branches /\ Onward(d, b)
    BY <1>5, <2>1 DEF Grant, DeviceInv, Picked, Branches
  <2>3. request'[d] = RequestFor("selected", b) /\ told' = told /\ passed' = passed
    BY <1>1, <1>5, <2>1 DEF Grant
  <2>4. QED
    BY <2>2, <2>3, RequestGoesOn
<1>6. CASE AnswerManifest(d)
  BY <1>6, AnswerKeeps
<1>7. CASE AskAsset(d)
  <2>1. PICK b \in Releases : b = told[d]
    BY <1>7 DEF AskAsset
  <2>2. /\ request'[d] = RequestFor("asset", b)
        /\ told' = told /\ passed' = passed
    BY <1>1, <1>7, <2>1 DEF AskAsset
  <2>3. /\ request'[d].pc = "asset" /\ request'[d].branch = b
        /\ \A a \in Branches : ~Picked(d, a)'
    BY <2>2 DEF RequestFor, Picked
  <2>4. \A a : (Settled(d, a)' <=> Settled(d, a)) /\ (Over(a)' <=> Over(a))
    BY SameBranchFacts
  <2>5. Settled(d, b)
    BY <2>1 DEF DeviceInv, Branches
  <2>6. QED
    BY <2>1, <2>2, <2>3, <2>4, <2>5 DEF DeviceInv
<1>8. CASE NothingNew(d) \/ ServeAsset(d) \/ Break(d)
  <2>1. request'[d] = NoRequest /\ told' = told /\ passed' = passed
    BY <1>1, <1>8 DEF NothingNew, ServeAsset, Break
  <2>2. QED
    BY <2>1, RequestEnds
<1>9. QED
  BY <1>2, <1>3, <1>4, <1>5, <1>6, <1>7, <1>8 DEF Handle

LEMMA GatewayTyped ==
  ASSUME TablesInv, DeliveryTypeOK, NEW d \in Devices, DeviceInv(d),
         AskManifest(d) \/ AskAsset(d) \/ Handle(d) \/ Break(d)
  PROVE  DeliveryTypeOK'
<1>1. /\ request[d] \in Request /\ Home[d] \in Environments
      /\ environment[Home[d]] \in EnvironmentRow
  BY DeliveryAssumption DEF DeliveryTypeOK, TablesInv, Inv, TypeOK
<1>2. NoRequest \in Request
  BY DEF NoRequest, Request
<1>3. \A b \in Branches \union {None}, pc \in {"eligible", "selected", "asset"} :
        RequestFor(pc, b) \in Request
  BY DEF RequestFor, Request
<1>4. CASE AskManifest(d)
  <2>1. [pc |-> "read", head |-> environment[Home[d]].head,
         directive |-> environment[Home[d]].directive, branch |-> None] \in Request
    BY <1>1 DEF EnvironmentRow, Request
  <2>2. QED
    BY <1>4, <2>1 DEF AskManifest, DeliveryTypeOK
<1>5. CASE SelectDirective(d) \/ SelectRelease(d) \/ NothingNew(d)
  <2>1. request[d].head \in Branches \union {None} /\ request[d].directive \in Branches \union {None}
    BY <1>1 DEF Request, Branches
  <2>2. PICK state \in Request : request' = [request EXCEPT ![d] = state]
    BY <1>2, <1>3, <1>5, <2>1 DEF SelectDirective, SelectRelease, NothingNew
  <2>3. QED
    BY <1>5, <2>2 DEF SelectDirective, SelectRelease, NothingNew, DeliveryTypeOK
<1>6. CASE Grant(d)
  <2>1. request[d].branch \in Releases
    BY <1>6 DEF Grant, DeviceInv
  <2>2. QED
    BY <1>3, <1>6, <2>1 DEF Grant, DeliveryTypeOK, Branches
<1>7. CASE AnswerManifest(d)
  <2>1. PICK b \in Branches : b = request[d].branch
    BY <1>7 DEF AnswerManifest, DeviceInv
  <2>2. ASSUME b \in Operations
        PROVE  operation[b].resource \in Branches
    <3>1. Settled(d, b)
      BY <2>1 DEF DeviceInv
    <3>2. QED
      BY <2>2, <3>1 DEF Settled, TablesInv, Inv, TableInv, OperationsAreOfReleases, Branches
  <2>3. LeftFor(d, b) \subseteq Branches
    BY <2>1, <2>2 DEF LeftFor, DeliveryTypeOK
  <2>4. QED
    BY <1>2, <1>7, <2>1, <2>3 DEF AnswerManifest, DeliveryTypeOK
<1>8. CASE AskAsset(d)
  BY <1>3, <1>8 DEF AskAsset, DeliveryTypeOK, Branches
<1>9. CASE ServeAsset(d)
  <2>1. request[d].branch \in Releases
    BY <1>9 DEF ServeAsset, DeviceInv
  <2>2. QED
    BY <1>2, <1>9, <2>1 DEF ServeAsset, DeliveryTypeOK
<1>10. CASE Break(d)
  BY <1>2, <1>10 DEF Break, DeliveryTypeOK
<1>11. QED
  BY <1>4, <1>5, <1>6, <1>7, <1>8, <1>9, <1>10 DEF Handle

LEMMA OthersUntouched ==
  ASSUME DeliveryTypeOK, NEW d \in Devices, NEW c \in Devices, c # d,
         AskManifest(d) \/ AskAsset(d) \/ Handle(d) \/ Break(d)
  PROVE  request'[c] = request[c] /\ told'[c] = told[c] /\ passed'[c] = passed[c]
  BY DEF DeliveryTypeOK, AskManifest, AskAsset, Handle, Break, SelectDirective, SelectRelease,
         NothingNew, Grant, AnswerManifest, ServeAsset

LEMMA DeliveryInitInv ==
  ASSUME Init, DeliveryInit
  PROVE  TablesInv /\ DeliveryInv
<1>1. TablesInv
  BY InitInv DEF TablesInv, Init, NoRelease, ReceiptBeforeReady, DirectiveIsSigned
<1>2. DeliveryTypeOK
  BY DEF DeliveryInit, DeliveryTypeOK, NoRequest, Request
<1>3. ASSUME NEW d \in Devices
      PROVE  DeviceInv(d)
  BY ConstantsAssumption DEF DeliveryInit, DeviceInv, Picked, NoRequest
<1>4. QED
  BY <1>1, <1>2, <1>3 DEF DeliveryInv

LEMMA DeliveryStep ==
  ASSUME ~LostCommits, TablesInv, DeliveryInv, [DeliveryNext]_allVars
  PROVE  TablesInv' /\ DeliveryInv'
<1>1. [Next]_vars
  BY DEF DeliveryNext, allVars
<1>2. TablesInv'
  BY <1>1, TablesStep
<1>3. CASE UNCHANGED deliveryVars
  <2>1. DeliveryTypeOK'
    BY <1>3 DEF deliveryVars, DeliveryInv, DeliveryTypeOK
  <2>2. \A d \in Devices : DeviceInv(d)'
    BY <1>1, <1>3, TablesKeepDevice DEF TablesInv, DeliveryInv
  <2>3. QED
    BY <1>2, <2>1, <2>2 DEF DeliveryInv
<1>4. ASSUME NEW d \in Devices, AskManifest(d) \/ AskAsset(d) \/ Handle(d) \/ Break(d),
             UNCHANGED vars
      PROVE  DeliveryInv'
  <2>1. DeliveryTypeOK'
    BY <1>4, GatewayTyped DEF DeliveryInv
  <2>2. DeviceInv(d)'
    BY <1>4, GatewayDevice DEF DeliveryInv
  <2>3. ASSUME NEW c \in Devices, c # d
        PROVE  DeviceInv(c)'
    BY <1>4, <2>3, OthersUntouched, OtherDevice DEF DeliveryInv
  <2>4. QED
    BY <2>1, <2>2, <2>3 DEF DeliveryInv
<1>5. QED
  BY <1>2, <1>3, <1>4 DEF DeliveryNext, Gateway, allVars

\* The gateway only reads the tables: release control behaves as without it.
THEOREM DeliveryIsPassive == DeliverySpec => Spec
<1>1. [DeliveryNext]_allVars => [Next]_vars
  BY DEF DeliveryNext, allVars
<1>2. QED
  BY <1>1, PTL DEF DeliverySpec, Spec

\* What a device was told, what it moved on from and what its request has read
\* fit the tables, however many commands fall between two reads.
THEOREM DeliveryInvariance ==
  ASSUME ~LostCommits
  PROVE  DeliverySpec => [](TablesInv /\ DeliveryInv)
<1>1. Init /\ DeliveryInit => TablesInv /\ DeliveryInv
  BY DeliveryInitInv
<1>2. TablesInv /\ DeliveryInv /\ [DeliveryNext]_allVars => TablesInv' /\ DeliveryInv'
  BY DeliveryStep
<1>3. QED
  BY <1>1, <1>2, PTL DEF DeliverySpec

\* Grants name devices and releases, requests what a request can have read.
THEOREM DeliveryTyped ==
  ASSUME ~LostCommits
  PROVE  DeliverySpec => []DeliveryTypeOK
<1>1. DeliveryInv => DeliveryTypeOK
  BY DEF DeliveryInv
<1>2. QED
  BY <1>1, DeliveryInvariance, PTL

\* No manifest or program is requested from a branch that has none.
THEOREM SelectedServed ==
  ASSUME ~LostCommits
  PROVE  DeliverySpec => []SelectedIsServed
<1>1. ASSUME DeliveryInv
      PROVE  SelectedIsServed
  <2>1. ASSUME NEW d \in Devices, request[d].branch # None
        PROVE  served[request[d].branch] # <<>>
    <3>1. request[d].branch \in Branches
      BY <1>1, <2>1 DEF DeliveryInv, DeliveryTypeOK, Request
    <3>2. QED
      BY <1>1, <3>1 DEF DeliveryInv, DeviceInv, Settled
  <2>2. QED
    BY <2>1 DEF SelectedIsServed
<1>2. QED
  BY <1>1, DeliveryInvariance, PTL

\* However slow its requests are and whatever commands fall between their
\* reads, no device is taken back to a release or directive it moved on from.
THEOREM NoWayBack ==
  ASSUME ~LostCommits
  PROVE  DeliverySpec => []NoReturn
<1>1. DeliveryInv => NoReturn
  BY DEF DeliveryInv, DeviceInv, NoReturn
<1>2. QED
  BY <1>1, DeliveryInvariance, PTL

\* Reading the environment first and the release later never lets an outdated
\* release through.
THEOREM OffersCurrent ==
  ASSUME ~LostCommits
  PROVE  DeliverySpec => OffersAreCurrent
<1>1. ASSUME TablesInv, DeliveryInv, [DeliveryNext]_allVars
      PROVE  [\A d \in Devices :
                request[d].pc = "read" /\ request'[d].pc = "eligible"
                => request'[d].branch = PolicyFor(d)]_allVars
  <2> SUFFICES ASSUME NEW d \in Devices, request[d].pc = "read", request'[d].pc = "eligible"
               PROVE  request'[d].branch = PolicyFor(d)
    OBVIOUS
  <2>1. SelectRelease(d)
    <3>1. PICK c \in Devices :
            UNCHANGED vars /\ (AskManifest(c) \/ AskAsset(c) \/ Handle(c) \/ Break(c))
      BY <1>1 DEF DeliveryNext, Gateway, allVars, deliveryVars
    <3>2. c = d
      BY <1>1, <3>1, OthersUntouched DEF DeliveryInv
    <3>3. QED
      BY <1>1, <3>1, <3>2
      DEF AskManifest, AskAsset, Handle, Break, SelectDirective, NothingNew, Grant,
          AnswerManifest, ServeAsset, RequestFor, NoRequest, DeliveryInv, DeliveryTypeOK
  <2>2. PICK r \in Releases : r = request[d].head
    BY <1>1, <2>1 DEF SelectRelease, HeadOffered, DeliveryInv, DeliveryTypeOK, Request
  <2>3. /\ release[r].environment = Home[d]
        /\ OfferedTo(d, r)
    BY <1>1, <2>1, <2>2 DEF SelectRelease, HeadOffered, DeliveryInv, DeviceInv
  <2>4. environment[Home[d]].head = r /\ environment[Home[d]].directive = None
    BY <1>1, <2>3, OfferIsPolicy DEF OfferedTo
  <2>5. request'[d].branch = r
    BY <1>1, <2>1, <2>2 DEF SelectRelease, RequestFor, DeliveryInv, DeliveryTypeOK
  <2>6. QED
    BY <2>3, <2>4, <2>5, ConstantsAssumption DEF PolicyFor, Branches
<1>2. QED
  BY <1>1, DeliveryInvariance, PTL DEF DeliverySpec, OffersAreCurrent
=============================================================================
