------------------------- MODULE EnvironmentPolicy -------------------------
(***************************************************************************)
(* What the delivery policy of an environment promises a device that asks  *)
(* it for an update: nothing new, the current release, or the directive    *)
(* back to the embedded code.  At most one release is current; one that    *)
(* was superseded or recalled is retired, and nothing brings it back.      *)
(***************************************************************************)
CONSTANTS Releases, Environments, None

VARIABLES
  answer,    \* per environment: "nothing", "offer" (of the current release) or "embedded"
  current,   \* per environment: the release last offered, or None
  retired    \* the releases that will never be offered again

vars == <<answer, current, retired>>

Init ==
  /\ answer = [e \in Environments |-> "nothing"]
  /\ current = [e \in Environments |-> None]
  /\ retired = {}

\* A release that is not retired is offered; the one it supersedes is retired.
Offer(e, r) ==
  /\ r \notin retired
  /\ answer' = [answer EXCEPT ![e] = "offer"]
  /\ current' = [current EXCEPT ![e] = r]
  /\ retired' = retired \union ({current[e]} \ {r, None})

\* New offers stop; the release stays current and may be offered again.
Withhold(e) ==
  /\ answer[e] = "offer"
  /\ answer' = [answer EXCEPT ![e] = "nothing"]
  /\ UNCHANGED <<current, retired>>

\* Devices are sent back to the embedded code and the current release is retired.
Recall(e) ==
  /\ current[e] \notin retired \union {None}
  /\ answer' = [answer EXCEPT ![e] = "embedded"]
  /\ retired' = retired \union {current[e]}
  /\ UNCHANGED current

Next ==
  \E e \in Environments :
    \/ \E r \in Releases : Offer(e, r)
    \/ Withhold(e)
    \/ Recall(e)

Spec == Init /\ [][Next]_vars
=============================================================================
