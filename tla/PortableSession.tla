-------------------------- MODULE PortableSession --------------------------
(***************************************************************************)
(* The event queue of one hooked call site rendered by an update           *)
(* (PortableOverride.kt) together with the host that evaluates its actions *)
(* (DootahApplication.kt).                                                 *)
(*                                                                         *)
(* Native components deliver events on the main thread.  An event's action *)
(* is evaluated in the sandbox, on the worker thread, from the call site's *)
(* state; its result comes back to the main thread, where its steps are    *)
(* applied: assignments to the state and calls of callbacks the installed  *)
(* application passed in.  The state is abstracted to the history of the   *)
(* computation it holds: an action evaluated in state s for event n        *)
(* assigns Append(s, n).                                                   *)
(***************************************************************************)
EXTENDS Naturals, Sequences, SequencesExt

CONSTANTS
  Actions,    \* step lists of the update's actions: sequences over {"set", "call"}
  Reentrant,  \* may an installed callback deliver another event before it returns?
  MaxEvents   \* bound: events delivered to the session

ASSUME SessionAssumption ==
  /\ Actions \subseteq Seq({"set", "call"})
  /\ Reentrant \in BOOLEAN
  /\ MaxEvents \in Nat

VARIABLES
  fired,      \* the actions of the accepted events, in the order of delivery
  queue,      \* events waiting, as positions in fired
  running,    \* an action is being evaluated
  active,     \* the call site is composed and its update not refused
  current,    \* the update is still the one dispatched
  failed,     \* a failed evaluation has rejected the update
  evaluation, \* what the worker thread evaluates: the event and the state read for it
  applying,   \* the action being applied on the main thread: event, state to assign, steps left
  state       \* the call site's state

sessionVars == <<fired, queue, running, active, current, failed, evaluation, applying, state>>

NoEvaluation == [phase |-> "none", event |-> 0, input |-> <<>>]
NoAction == [event |-> 0, value |-> <<>>, steps |-> <<>>]

SessionInit ==
  /\ fired = <<>>
  /\ queue = <<>>
  /\ running = FALSE
  /\ active = TRUE
  /\ current = TRUE
  /\ failed = FALSE
  /\ evaluation = NoEvaluation
  /\ applying = NoAction
  /\ state = <<>>

\* The main thread is in no task of this session.
MainIdle == applying = NoAction

\* The main thread is inside an installed callback that an action invoked.
InCallback == applying.steps # <<>> /\ Head(applying.steps) = "call"

\* Faulty variant: a running evaluation does not hold up the next one.
DrainAtOnce(q, busy) ==
  IF ~active \/ q = <<>>
  THEN queue' = q /\ running' = busy /\ UNCHANGED evaluation
  ELSE /\ queue' = Tail(q)
       /\ running' = TRUE
       /\ evaluation' = IF current
                        THEN [phase |-> "queued", event |-> Head(q), input |-> state]
                        ELSE evaluation

\* Faulty variant: the event taken is left in the queue.
DrainPeeking(q, busy) ==
  IF busy \/ ~active \/ q = <<>>
  THEN queue' = q /\ running' = busy /\ UNCHANGED evaluation
  ELSE /\ queue' = q
       /\ running' = TRUE
       /\ evaluation' = IF current
                        THEN [phase |-> "queued", event |-> Head(q), input |-> state]
                        ELSE evaluation

\* drain(): with the events in q, start evaluating the next one unless an
\* evaluation runs.  The host does not start it for an update that was
\* replaced, which leaves the session running forever.
Drain(q, busy) ==
  IF busy \/ ~active \/ q = <<>>
  THEN queue' = q /\ running' = busy /\ UNCHANGED evaluation
  ELSE /\ queue' = Tail(q)
       /\ running' = TRUE
       /\ evaluation' = IF current
                        THEN [phase |-> "queued", event |-> Head(q), input |-> state]
                        ELSE evaluation

-----------------------------------------------------------------------------
(* Main thread *)

\* The position an accepted event gets.
FirstFree == Len(fired) + 1

\* fire(): a native callback, from the UI or from inside an installed callback.
Fire(a) ==
  /\ MainIdle \/ (Reentrant /\ InCallback)
  /\ active
  /\ Len(fired) < MaxEvents
  /\ fired' = Append(fired, a)
  /\ Drain(Append(queue, FirstFree), running)
  /\ UNCHANGED <<active, current, failed, applying, state>>

\* fire() of an event whose value has another type: the update is refused.
FireMistyped ==
  /\ MainIdle \/ (Reentrant /\ InCallback)
  /\ active
  /\ active' = FALSE
  /\ current' = FALSE
  /\ UNCHANGED <<failed, fired, queue, running, evaluation, applying, state>>

\* Faulty variant: the result is applied although the call site is gone.
DoneRegardless ==
  /\ MainIdle
  /\ evaluation.phase = "posted"
  /\ evaluation' = NoEvaluation
  /\ running' = (running /\ ~current)
  /\ applying' = IF current
                 THEN [event |-> evaluation.event,
                       value |-> Append(evaluation.input, evaluation.event),
                       steps |-> fired[evaluation.event]]
                 ELSE NoAction
  /\ UNCHANGED <<fired, queue, active, current, failed, state>>

\* The posted result reaches the main thread; done() runs if the update is
\* still dispatched, and drops everything if the call site is gone.
Done ==
  /\ MainIdle
  /\ evaluation.phase = "posted"
  /\ evaluation' = NoEvaluation
  /\ running' = (running /\ ~current)
  /\ queue' = IF current /\ ~active THEN <<>> ELSE queue
  /\ applying' = IF current /\ active
                 THEN [event |-> evaluation.event,
                       value |-> Append(evaluation.input, evaluation.event),
                       steps |-> fired[evaluation.event]]
                 ELSE NoAction
  /\ UNCHANGED <<fired, active, current, failed, state>>

\* apply(): an assignment.
ApplySet ==
  /\ applying.steps # <<>>
  /\ Head(applying.steps) = "set"
  /\ state' = applying.value
  /\ applying' = [applying EXCEPT !.steps = Tail(@)]
  /\ UNCHANGED <<fired, queue, running, active, current, failed, evaluation>>

\* apply(): an installed callback returns.
ApplyCall ==
  /\ InCallback
  /\ applying' = [applying EXCEPT !.steps = Tail(@)]
  /\ UNCHANGED <<fired, queue, running, active, current, failed, evaluation, state>>

\* Faulty variant: the next event is not started.
ApplyEndWithoutDrain ==
  /\ applying # NoAction
  /\ applying.steps = <<>>
  /\ applying' = NoAction
  /\ UNCHANGED <<fired, queue, running, active, current, failed, evaluation, state>>

\* All steps are applied: done() drains the queue and its task ends.
ApplyEnd ==
  /\ applying # NoAction
  /\ applying.steps = <<>>
  /\ applying' = NoAction
  /\ Drain(queue, running)
  /\ UNCHANGED <<fired, active, current, failed, state>>

\* The call site leaves composition.
Dispose ==
  /\ MainIdle
  /\ active
  /\ active' = FALSE
  /\ UNCHANGED <<fired, queue, running, current, failed, evaluation, applying, state>>

\* Another call site refuses the update, or a rejection by the worker thread
\* reaches the main thread: the native fallback is dispatched.
Refuse ==
  /\ MainIdle
  /\ current
  /\ current' = FALSE
  /\ UNCHANGED <<fired, queue, running, active, failed, evaluation, applying, state>>

-----------------------------------------------------------------------------
(* Worker thread *)

\* The sandbox returns values and the coroutine posts them to the main thread.
Evaluate ==
  /\ evaluation.phase = "queued"
  /\ current /\ ~failed
  /\ evaluation' = [evaluation EXCEPT !.phase = "posted"]
  /\ UNCHANGED <<fired, queue, running, active, current, failed, applying, state>>

\* The sandbox fails, which rejects the update, or the update was replaced or
\* rejected before: the coroutine ends without calling done().
EvaluationEnds ==
  /\ evaluation.phase = "queued"
  /\ evaluation' = NoEvaluation
  /\ failed' = (failed \/ current)
  /\ UNCHANGED <<fired, queue, running, active, current, applying, state>>

-----------------------------------------------------------------------------
Main == Done \/ ApplySet \/ ApplyCall \/ ApplyEnd

SessionNext ==
  \/ \E a \in Actions : Fire(a)
  \/ FireMistyped
  \/ Main
  \/ Dispose
  \/ Refuse
  \/ Evaluate
  \/ EvaluationEnds

SessionSpec == SessionInit /\ [][SessionNext]_sessionVars

\* The main looper and the single-threaded worker run what is posted to them.
SessionFairSpec ==
  /\ SessionSpec
  /\ WF_sessionVars(Main) /\ WF_sessionVars(failed /\ Refuse)
  /\ WF_sessionVars(Evaluate \/ EvaluationEnds)

-----------------------------------------------------------------------------
(* Properties *)

\* The queue, the evaluation, the action and the state speak of accepted events only:
\* no position outlives or precedes the event it names.
SessionTypeOK ==
  /\ fired \in Seq(Actions)
  /\ queue \in Seq(1..Len(fired))
  /\ {running, active, current, failed} \subseteq BOOLEAN
  /\ evaluation.phase \in {"none", "queued", "posted"}
  /\ evaluation.event \in 0..Len(fired)
  /\ evaluation.input \in Seq(1..Len(fired))
  /\ applying.event \in 0..Len(fired)
  /\ state \in Seq(1..Len(fired))

\* The events among the first n whose action assigns the state.
Setters(n) == {i \in 1..n : "set" \in ToSet(fired[i])}

InOrder(s) == \A i, j \in DOMAIN s : i < j => s[i] < s[j]

\* s is the state the first n events leave when they run one after another.
Leaves(n, s) == ToSet(s) = Setters(n) /\ InOrder(s)

\* Each event reads the state as it is at its turn: what all earlier events,
\* and only they, have left.
ReadsStateAtItsTurn ==
  evaluation.phase # "none" => Leaves(evaluation.event - 1, evaluation.input)

\* Every event's assignments are applied exactly once, in the order of delivery.
AppliedOnceInOrder ==
  \E n \in 0..Len(fired) : Leaves(n, state)

\* A call site that left composition, or whose update was refused, changes no
\* state and invokes no callback any more.
NothingAfterDisposal ==
  [][~active => state' = state /\ (applying' = applying \/ applying' = NoAction)]_sessionVars

\* The nth event has left the queue, the worker and the main thread.
Handled(n) == n \notin ToSet(queue) \union {evaluation.event, applying.event}

\* An accepted event is applied unless its call site leaves or its update is
\* refused first: no order of deliveries and results loses the queue's wakeup.
EventsAreApplied ==
  \A n \in 1..MaxEvents :
    n <= Len(fired) ~> ~active \/ ~current \/ Handled(n)
=============================================================================
