----------------------- MODULE ProjectionCoordination -----------------------
(***************************************************************************)
(* How live projections and rebuilds of one process exclude each other     *)
(* (projection-coordination.service.ts).  A consumer wraps the projection  *)
(* of a message in runShared, a rebuild is wrapped in runExclusive         *)
(* (projection-runner.service.ts).                                         *)
(*                                                                         *)
(* Everything runs on one thread.  A continuation whose await is over is   *)
(* put at the end of the microtask queue; code between two awaits is one   *)
(* step, and what comes from outside (a message, an HTTP request, the end  *)
(* of the database work) waits until the queue is empty.  An `await` of an *)
(* async function that has already finished still costs a turn of the      *)
(* queue: that is where the test of a condition and the action it guards   *)
(* come apart.                                                             *)
(***************************************************************************)
EXTENDS FiniteSets, Naturals, Sequences

CONSTANTS
    Live,       \* consumers, each handling one message at a time
    Rebuilds    \* sources of rebuilds, each running one at a time

ASSUME CoordinationAssumption == Live \cap Rebuilds = {} /\ IsFiniteSet(Live)

VARIABLES
    active,         \* activeSharedOperations
    inProgress,     \* exclusiveOperationInProgress
    requested,      \* exclusiveOperationRequested
    exclusiveQueue, \* the rebuilds that wait for each other, the running one first
    waiters,        \* waitingResolvers, in the order they were pushed
    micro,          \* the microtask queue
    place,          \* where each task is
    behind          \* auxiliary: the rebuild had to wait for another one

coordination == <<active, inProgress, requested, exclusiveQueue, waiters, micro, place, behind>>
flags == <<active, inProgress, requested>>

Tasks == Live \cup Rebuilds

\* Not called; queued behind another rebuild; the promise of the predecessor is
\* resolved; waiting in waitUntil; woken there; waitUntil is over; at work.
Places == {"idle", "queued", "turn", "waiting", "woken", "enter", "work"}

CoordinationTypeOK ==
    /\ active \in Nat
    /\ inProgress \in BOOLEAN /\ requested \in BOOLEAN
    /\ exclusiveQueue \in Seq(Rebuilds)
    /\ waiters \in Seq(Tasks) /\ micro \in Seq(Tasks)
    /\ place \in [Tasks -> Places]
    /\ behind \in [Rebuilds -> BOOLEAN]

-----------------------------------------------------------------------------
(* Helpers *)

\* The predicates of the two waitUntil calls.
MayShare == ~requested /\ ~inProgress

\* Mutant: live projections at work do not matter.
MayExcludeAtOnce == ~inProgress

MayExclude == active = 0 /\ ~inProgress

\* The labels of the tasks once everybody in waitingResolvers is resolved.
Woken(label) ==
    [t \in Tasks |-> IF \E i \in DOMAIN waiters : waiters[i] = t THEN "woken" ELSE label[t]]

\* notifyWaiters: everybody in waitingResolvers gets a microtask.
NotifyWaiters(queue, label) ==
    /\ micro' = queue \o waiters
    /\ place' = Woken(label)
    /\ waiters' = <<>>

\* One turn of waitUntil for task t, with queue as the rest of the microtasks.
WaitUntil(t, predicate, queue) ==
    IF predicate
    THEN /\ micro' = Append(queue, t)
         /\ place' = [place EXCEPT ![t] = "enter"]
         /\ UNCHANGED waiters
    ELSE /\ waiters' = Append(waiters, t)
         /\ place' = [place EXCEPT ![t] = "waiting"]
         /\ micro' = queue

-----------------------------------------------------------------------------
(* runShared *)

CoordinationInit ==
    /\ active = 0 /\ inProgress = FALSE /\ requested = FALSE
    /\ exclusiveQueue = <<>> /\ waiters = <<>> /\ micro = <<>>
    /\ place = [t \in Tasks |-> "idle"]
    /\ behind = [r \in Rebuilds |-> FALSE]

\* eachMessage calls runShared; waitUntil tests its predicate for the first time.
CallShared(l) ==
    /\ micro = <<>> /\ place[l] = "idle"
    /\ WaitUntil(l, MayShare, micro)
    /\ UNCHANGED <<flags, exclusiveQueue, behind>>

\* Mutant: the projection is not counted.
EntersUncounted(l) ==
    /\ place[l] = "enter"
    /\ place' = [place EXCEPT ![l] = "work"]
    /\ micro' = Tail(micro)
    /\ UNCHANGED <<flags, exclusiveQueue, waiters, behind>>

EnterShared(l) ==
    /\ place[l] = "enter"
    /\ active' = active + 1
    /\ place' = [place EXCEPT ![l] = "work"]
    /\ micro' = Tail(micro)
    /\ UNCHANGED <<inProgress, requested, exclusiveQueue, waiters, behind>>

\* The projection has returned or thrown: the finally block.
FinishShared(l) ==
    /\ micro = <<>> /\ place[l] = "work"
    /\ active' = active - 1
    /\ NotifyWaiters(micro, [place EXCEPT ![l] = "idle"])
    /\ UNCHANGED <<inProgress, requested, exclusiveQueue, behind>>

-----------------------------------------------------------------------------
(* runExclusive *)

\* Mutant: the rebuild looks at the flag instead of its predecessor's promise.
CallsUnlessRunning(r) ==
    /\ micro = <<>> /\ place[r] = "idle"
    /\ exclusiveQueue' = Append(exclusiveQueue, r)
    /\ behind' = [behind EXCEPT ![r] = exclusiveQueue # <<>>]
    /\ IF ~inProgress
       THEN micro' = Append(micro, r) /\ place' = [place EXCEPT ![r] = "turn"]
       ELSE UNCHANGED micro /\ place' = [place EXCEPT ![r] = "queued"]
    /\ UNCHANGED <<flags, waiters>>

\* The rebuild takes its place in the queue and awaits its predecessor's promise,
\* which is resolved if there is none at work.
CallExclusive(r) ==
    /\ micro = <<>> /\ place[r] = "idle"
    /\ exclusiveQueue' = Append(exclusiveQueue, r)
    /\ behind' = [behind EXCEPT ![r] = exclusiveQueue # <<>>]
    /\ IF exclusiveQueue = <<>>
       THEN micro' = Append(micro, r) /\ place' = [place EXCEPT ![r] = "turn"]
       ELSE UNCHANGED micro /\ place' = [place EXCEPT ![r] = "queued"]
    /\ UNCHANGED <<flags, waiters>>

\* The rebuild's turn has come: live projections are to pause.  Those that wait
\* already are woken to find that they still have to.
TakeTurn(r) ==
    /\ place[r] = "turn"
    /\ requested' = TRUE
    /\ LET woken == Tail(micro) \o waiters
           label == Woken(place)
       IN IF MayExclude
          THEN /\ micro' = Append(woken, r)
               /\ place' = [label EXCEPT ![r] = "enter"]
               /\ waiters' = <<>>
          ELSE /\ micro' = woken
               /\ place' = [label EXCEPT ![r] = "waiting"]
               /\ waiters' = <<r>>
    /\ UNCHANGED <<active, inProgress, exclusiveQueue, behind>>

EnterExclusive(r) ==
    /\ place[r] = "enter"
    /\ inProgress' = TRUE
    /\ place' = [place EXCEPT ![r] = "work"]
    /\ micro' = Tail(micro)
    /\ UNCHANGED <<active, requested, exclusiveQueue, waiters, behind>>

\* Mutant: the next rebuild is not released.
FinishesWithoutRelease(r) ==
    /\ micro = <<>> /\ place[r] = "work"
    /\ inProgress' = FALSE /\ requested' = FALSE
    /\ NotifyWaiters(micro, [place EXCEPT ![r] = "idle"])
    /\ UNCHANGED <<active, exclusiveQueue, behind>>

\* The rebuild has returned or thrown: the finally block wakes the waiters first and
\* then releases the next rebuild.
FinishExclusive(r) ==
    /\ micro = <<>> /\ place[r] = "work"
    /\ inProgress' = FALSE /\ requested' = FALSE
    /\ exclusiveQueue' = Tail(exclusiveQueue)
    /\ LET label == Woken([place EXCEPT ![r] = "idle"])
           rest  == Tail(exclusiveQueue)
       IN IF rest = <<>>
          THEN micro' = waiters /\ place' = label
          ELSE micro' = Append(waiters, Head(rest)) /\ place' = [label EXCEPT ![Head(rest)] = "turn"]
    /\ waiters' = <<>>
    /\ UNCHANGED <<active, behind>>

-----------------------------------------------------------------------------
\* A woken task tests its predicate again.
Retest(t) ==
    /\ place[t] = "woken"
    /\ WaitUntil(t, IF t \in Live THEN MayShare ELSE MayExclude, Tail(micro))
    /\ UNCHANGED <<flags, exclusiveQueue, behind>>

\* The event loop runs the first microtask.
RunMicrotask ==
    /\ micro # <<>>
    /\ LET t == Head(micro) IN
       \/ Retest(t)
       \/ t \in Live /\ EnterShared(t)
       \/ t \in Rebuilds /\ (TakeTurn(t) \/ EnterExclusive(t))

Finish(t) == (t \in Live /\ FinishShared(t)) \/ (t \in Rebuilds /\ FinishExclusive(t))

CoordinationNext ==
    \/ RunMicrotask
    \/ \E l \in Live : CallShared(l)
    \/ \E r \in Rebuilds : CallExclusive(r)
    \/ \E t \in Tasks : Finish(t)

CoordinationSpec == CoordinationInit /\ [][CoordinationNext]_coordination

\* The event loop runs, and the work of every task ends.
FairCoordination ==
    /\ CoordinationSpec
    /\ WF_coordination(RunMicrotask)
    /\ \A t \in Tasks : WF_coordination(Finish(t))

-----------------------------------------------------------------------------
(* Properties *)

\* Two rebuilds never run at the same time: the second would reset the tables the first
\* is filling.
RebuildsAreSerial ==
    \A q, r \in Rebuilds : place[q] = "work" /\ place[r] = "work" => q = r

AtWork(r) == place[r] = "work" /\ \E l \in Live : place[l] = "work"

\* A rebuild that did not have to wait for another one runs with no live projection at
\* work, although the conditions are tested a turn before they are acted on.
FirstRebuildAlone == \A r \in Rebuilds : AtWork(r) => behind[r]

\* "Live projections paused. Running exclusive projection task": no rebuild runs while a
\* live projection is at work.
RebuildAlone == \A r \in Rebuilds : ~AtWork(r)

\* Nobody waits forever: every message is projected and every rebuild runs, whoever was
\* woken in vain before.
EveryoneGetsToWork == \A t \in Tasks : place[t] # "idle" ~> place[t] = "work"
=============================================================================
