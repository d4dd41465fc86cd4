---------------------------- MODULE FactoryLine ----------------------------
(***************************************************************************)
(* Work orders crossing a factory line.  A dispatch is one traversal of    *)
(* the line by an order: it runs an app at each step of its snapshot, or   *)
(* waits in the step's queue while the step is at its parallelism.         *)
(*                                                                         *)
(* Every transaction that counts, starts or queues holds the row lock of   *)
(* the line.  Orders are read without a lock, so the API requests and the  *)
(* finalizer read in one step and write in another.                        *)
(***************************************************************************)
EXTENDS Integers, FiniteSets, Sequences, Queues

CONSTANTS
    Orders,         \* work orders
    DispatchIds,    \* identifiers of line dispatches, bounds their number
    Apps,           \* apps the steps run
    Removable,      \* the apps whose entrypoint may be unpublished or deleted
    LineVersions,   \* the step lists the line may be edited to
    MaxSteps,       \* bound on the length of these lists
    Moved,          \* the orders that people close, reopen and return to draft
    Requests        \* concurrent API requests

ASSUME FactoryAssumption ==
    /\ DispatchIds \subseteq Nat /\ MaxSteps \in Nat \ {0}
    /\ Removable \subseteq Apps /\ Moved \subseteq Orders
    /\ LineVersions # {}
    /\ \A v \in LineVersions :
          /\ v \in Seq([app : Apps, max : Nat \ {0}])
          /\ Len(v) \in 1 .. MaxSteps

ASSUME FiniteDispatches == IsFiniteSet(DispatchIds)

VARIABLES
    order,      \* per order: its state
    line,       \* the line's steps as they are now
    app,        \* per app: does its entrypoint exist
    dispatch,   \* per dispatch: state, order and the snapshot of the steps
    exec,       \* per dispatch and step: the step's execution
    queue,      \* per step: the dispatches waiting for it, oldest first
    req,        \* per API request: what it has read
    advance     \* the finalizer that holds the line's lock, and what it has read

vars == <<order, line, app, dispatch, exec, queue, req, advance>>

-----------------------------------------------------------------------------
(* Types and the initial state. *)

StepIds     == 1 .. MaxSteps
OrderStates == {"draft", "open", "closed"}
InFlight    == {"pending", "running"}
Results     == {"passed", "stopped"}   \* "stopped" is failed or cancelled

NoDispatch  == [state |-> "none"]
DispatchRow == [state : {"active"} \cup Results, order : Orders, steps : LineVersions]
IdleRequest == [op |-> "idle"]
NoAdvance   == [op |-> "none"]

RequestRow ==
    [op : {"dispatch"}, order : Orders, seen : {"draft", "open"}, steps : LineVersions]
    \cup [op : {"status"}, order : Orders, seen : OrderStates, to : OrderStates]

TypeOK ==
    /\ order \in [Orders -> OrderStates]
    /\ line \in LineVersions
    /\ app \in [Apps -> {"live", "unpublished", "deleted"}]
    /\ dispatch \in [DispatchIds -> DispatchRow \cup {NoDispatch}]
    /\ exec \in [DispatchIds -> [StepIds -> {"none"} \cup InFlight \cup Results]]
    /\ queue \in [StepIds -> Seq(DispatchIds)]
    /\ req \in [Requests -> RequestRow \cup {IdleRequest}]
    /\ advance \in [op : {"advance"}, dispatch : DispatchIds, step : StepIds,
                    seen : OrderStates] \cup {NoAdvance}

Init ==
    /\ order = [o \in Orders |-> "draft"]
    /\ line \in LineVersions
    /\ app = [a \in Apps |-> "live"]
    /\ dispatch = [d \in DispatchIds |-> NoDispatch]
    /\ exec = [d \in DispatchIds |-> [s \in StepIds |-> "none"]]
    /\ queue = [s \in StepIds |-> <<>>]
    /\ req = [r \in Requests |-> IdleRequest]
    /\ advance = NoAdvance

-----------------------------------------------------------------------------
(* Admission.  The caller holds the line's lock. *)

LineUnlocked == advance = NoAdvance

(* countActiveFactoryStepExecutions. *)
Active(s) == {d \in DispatchIds : exec[d][s] \in InFlight}

(* admissionStep: the live line's limit, or the snapshot's if the line got shorter. *)
Limit(steps, s) == IF s <= Len(line) THEN line[s].max ELSE steps[s].max

(* The order of an existing dispatch is open. *)
ForOpenOrder(d) == order[dispatch[d].order] = "open"

(* Mutant of HasToWait: the limit is checked with > instead of >=. *)
HasToWaitLate(steps, s) ==
    \/ queue[s] # <<>>
    \/ Cardinality(Active(s)) > Limit(steps, s)

(* Mutant of HasToWait: only the free slots count. *)
HasToWaitForSlot(steps, s) == Cardinality(Active(s)) >= Limit(steps, s)

(* EnqueueOrStartStep: nobody overtakes the queue, even if a slot is free. *)
HasToWait(steps, s) ==
    \/ queue[s] # <<>>
    \/ Cardinality(Active(s)) >= Limit(steps, s)

(***************************************************************************)
(* AdmitQueuedForStep, after the execution of d ended at step s: the       *)
(* positions of the queue its loop reaches.  An item whose order is not    *)
(* open is dropped without taking a slot.                                  *)
(***************************************************************************)
OpenBefore(s, i) == {j \in 1 .. i - 1 : ForOpenOrder(queue[s][j])}

(* Mutant of ReachedFor: admission before the execution is marked finished. *)
ReachedTooEarly(d, s) ==
    {i \in 1 .. Len(queue[s]) : \A j \in 1 .. i :
        Cardinality(Active(s)) + Cardinality(OpenBefore(s, j))
            < Limit(dispatch[queue[s][j]].steps, s)}

ReachedFor(d, s) ==
    {i \in 1 .. Len(queue[s]) : \A j \in 1 .. i :
        Cardinality(Active(s) \ {d}) + Cardinality(OpenBefore(s, j))
            < Limit(dispatch[queue[s][j]].steps, s)}

Taken(d, s)    == {queue[s][i] : i \in ReachedFor(d, s)}
Admitted(d, s) == {e \in Taken(d, s) : ForOpenOrder(e)}
Dropped(d, s)  == Taken(d, s) \ Admitted(d, s)
QueueLeft(d, s) == SubSeq(queue[s], Cardinality(ReachedFor(d, s)) + 1, Len(queue[s]))

(* StartStep finds the entrypoint; an error rolls back the transaction. *)
CanStart(steps, s)    == app[steps[s].app] = "live"
CanAdmit(d, s)        == \A e \in Admitted(d, s) : CanStart(dispatch[e].steps, s)
(* enqueueStep needs the app itself. *)
CanEnqueue(steps, s)  == app[steps[s].app] # "deleted"

(* The executions after d's at step s ended and those in starts were created. *)
ExecsAfter(d, s, result, starts) ==
    [e \in DispatchIds |-> [i \in StepIds |->
        IF <<e, i>> = <<d, s>> THEN result
        ELSE IF <<e, i>> \in starts THEN "pending" ELSE exec[e][i]]]

(* FactoryWorkOrderLineDispatch.Finish. *)
Finished(ds, result) ==
    [e \in DispatchIds |-> IF e \in ds /\ dispatch[e].state = "active"
                           THEN [dispatch[e] EXCEPT !.state = result] ELSE dispatch[e]]

-----------------------------------------------------------------------------
(* The API: dispatching an order, moving it through its own states. *)

Traversals(o) == {d \in DispatchIds : dispatch[d].state = "active" /\ dispatch[d].order = o}
Waiting(s)    == {queue[s][i] : i \in 1 .. Len(queue[s])}

(* Mutant of ReadForDispatch: a closed order can be dispatched. *)
ReadAnyForDispatch(r, o) ==
    /\ req[r] = IdleRequest
    /\ Traversals(o) = {}
    /\ req' = [req EXCEPT ![r] = [op |-> "dispatch", order |-> o,
                                  seen |-> order[o], steps |-> line]]
    /\ UNCHANGED <<order, line, app, dispatch, exec, queue, advance>>

ReadForDispatch(r, o) ==
    /\ req[r] = IdleRequest
    /\ order[o] \in {"draft", "open"} /\ Traversals(o) = {}
    /\ req' = [req EXCEPT ![r] = [op |-> "dispatch", order |-> o,
                                  seen |-> order[o], steps |-> line]]
    /\ UNCHANGED <<order, line, app, dispatch, exec, queue, advance>>

(* Dispatch writes what it decided on the reads: a draft is promoted to open. *)
CommitDispatch(r, d) ==
    LET rq == req[r] IN
    /\ rq.op = "dispatch" /\ LineUnlocked
    /\ dispatch[d] = NoDispatch
    /\ \A e \in DispatchIds : dispatch[e] = NoDispatch => d <= e
    /\ \/ /\ HasToWait(rq.steps, 1) /\ CanEnqueue(rq.steps, 1)
          /\ queue' = [queue EXCEPT ![1] = Append(@, d)]
          /\ UNCHANGED exec
       \/ /\ ~HasToWait(rq.steps, 1) /\ CanStart(rq.steps, 1)
          /\ exec' = [exec EXCEPT ![d][1] = "pending"]
          /\ UNCHANGED queue
    /\ dispatch' = [dispatch EXCEPT ![d] =
                      [state |-> "active", order |-> rq.order, steps |-> rq.steps]]
    /\ order' = IF rq.seen = "draft" THEN [order EXCEPT ![rq.order] = "open"] ELSE order
    /\ req' = [req EXCEPT ![r] = IdleRequest]
    /\ UNCHANGED <<line, app, advance>>

(* factoryWorkOrderAllowedTransitions. *)
Transitions == {<<"draft", "open">>, <<"draft", "closed">>, <<"open", "closed">>,
                <<"open", "draft">>, <<"closed", "open">>}

ReadForStatus(r, o, to) ==
    /\ req[r] = IdleRequest
    /\ o \in Moved /\ <<order[o], to>> \in Transitions
    /\ req' = [req EXCEPT ![r] = [op |-> "status", order |-> o, seen |-> order[o], to |-> to]]
    /\ UNCHANGED <<order, line, app, dispatch, exec, queue, advance>>

(* dropQueuedLineWork; only an order with queued work waits for the line. *)
QueuedFor(o) == {d \in Traversals(o) : \E s \in StepIds : d \in Waiting(s)}

(* Mutant of CommitStatus: closing drops the queue items and leaves their dispatches. *)
CommitStatusOnly(r) ==
    LET rq == req[r]
        dropped == IF rq.to = "closed" THEN QueuedFor(rq.order) ELSE {}
    IN
    /\ rq.op = "status"
    /\ rq.seen = "open" /\ rq.to = "draft" => Traversals(rq.order) = {}
    /\ dropped # {} => LineUnlocked
    /\ order' = [order EXCEPT ![rq.order] = rq.to]
    /\ queue' = [s \in StepIds |-> Without(queue[s], dropped)]
    /\ req' = [req EXCEPT ![r] = IdleRequest]
    /\ UNCHANGED <<line, app, dispatch, exec, advance>>

(* UpdateStatus: moves the order it read, whatever its state is now. *)
CommitStatus(r) ==
    LET rq == req[r]
        dropped == IF rq.to = "closed" THEN QueuedFor(rq.order) ELSE {}
    IN
    /\ rq.op = "status"
    /\ rq.seen = "open" /\ rq.to = "draft" => Traversals(rq.order) = {}
    /\ dropped # {} => LineUnlocked
    /\ order' = [order EXCEPT ![rq.order] = rq.to]
    /\ queue' = [s \in StepIds |-> Without(queue[s], dropped)]
    /\ dispatch' = Finished(dropped, "stopped")
    /\ req' = [req EXCEPT ![r] = IdleRequest]
    /\ UNCHANGED <<line, app, exec, advance>>

(* A request that fails, or that loses a deadlock, changes nothing. *)
AbortRequest(r) ==
    /\ req[r] # IdleRequest
    /\ req' = [req EXCEPT ![r] = IdleRequest]
    /\ UNCHANGED <<order, line, app, dispatch, exec, queue, advance>>

(* UpdateFactoryLine: the new steps have existing entrypoints. *)
UpdateLine(v) ==
    /\ LineUnlocked /\ v # line
    /\ \A s \in 1 .. Len(v) : app[v[s].app] = "live"
    /\ line' = v
    /\ UNCHANGED <<order, app, dispatch, exec, queue, req, advance>>

(***************************************************************************)
(* A publish deletes the entrypoint of an app.  It does not come back: a   *)
(* node added later gets an identifier the app has never used.             *)
(***************************************************************************)
DeleteEntrypoint(a) ==
    /\ a \in Removable /\ app[a] = "live"
    /\ app' = [app EXCEPT ![a] = "unpublished"]
    /\ UNCHANGED <<order, line, dispatch, exec, queue, req, advance>>

SoftDelete(a) ==
    /\ a \in Removable /\ app[a] # "deleted"
    /\ app' = [app EXCEPT ![a] = "deleted"]
    /\ UNCHANGED <<order, line, dispatch, exec, queue, req, advance>>

-----------------------------------------------------------------------------
(* Workers. *)

(* The app a dispatch runs at a step. *)
StepApp(d, s) == dispatch[d].steps[s].app

(* initializeRun of a step's run: its entry node is there. *)
StartRun(d, s) ==
    /\ exec[d][s] = "pending" /\ CanStart(dispatch[d].steps, s)
    /\ exec' = [exec EXCEPT ![d][s] = "running"]
    /\ UNCHANGED <<order, line, app, dispatch, queue, req, advance>>

(* Mutant of EndRun: the slot is not handed on. *)
EndRunOnly(d, s) ==
    /\ exec[d][s] \in InFlight /\ LineUnlocked
    /\ exec' = [exec EXCEPT ![d][s] = "stopped"]
    /\ dispatch' = Finished({d}, "stopped")
    /\ UNCHANGED <<order, line, app, queue, req, advance>>

(***************************************************************************)
(* A run that ends without passing ends the traversal and hands its slot   *)
(* to the queue: failRun for a run that never started, the finalizer for   *)
(* one that failed or was cancelled.                                       *)
(***************************************************************************)
EndRun(d, s) ==
    /\ exec[d][s] \in InFlight /\ LineUnlocked
    /\ CanAdmit(d, s)
    /\ exec' = ExecsAfter(d, s, "stopped", Admitted(d, s) \X {s})
    /\ queue' = [queue EXCEPT ![s] = QueueLeft(d, s)]
    /\ dispatch' = [e \in DispatchIds |->
                      IF e = d THEN Finished({d}, "stopped")[d]
                      ELSE Finished(Dropped(d, s), "stopped")[e]]
    /\ UNCHANGED <<order, line, app, req, advance>>

(* executeNextFactoryLineStep of a passed run locks the line, reads the order ... *)
ReadForAdvance(d, s) ==
    /\ exec[d][s] = "running" /\ LineUnlocked
    /\ advance' = [op |-> "advance", dispatch |-> d, step |-> s,
                   seen |-> order[dispatch[d].order]]
    /\ UNCHANGED <<order, line, app, dispatch, exec, queue, req>>

(* Mutant of LastStep: the end of the live line ends the traversal. *)
LastLiveStep(d, s) == s >= Len(dispatch[d].steps) \/ s >= Len(line)

(* ... and ends the traversal, or starts the next step, or queues for it. *)
LastStep(d, s)  == s >= Len(dispatch[d].steps)
Continues       == advance.seen = "open" /\ ~LastStep(advance.dispatch, advance.step)
Outcome         == IF advance.seen = "open" THEN "passed" ELSE "stopped"

(* Every StartStep and enqueueStep it calls succeeds. *)
AdvanceSucceeds ==
    LET d == advance.dispatch
        s == advance.step
        steps == dispatch[d].steps
    IN
    /\ CanAdmit(d, s)
    /\ Continues => IF HasToWait(steps, s + 1) THEN CanEnqueue(steps, s + 1)
                                              ELSE CanStart(steps, s + 1)

Advance ==
    LET d == advance.dispatch
        s == advance.step
        admitted == Admitted(d, s) \X {s}
        left == [queue EXCEPT ![s] = QueueLeft(d, s)]
        rest == Finished(Dropped(d, s), "stopped")
        steps == dispatch[d].steps
    IN
    /\ advance # NoAdvance /\ AdvanceSucceeds
    /\ \/ /\ ~Continues
          /\ exec' = ExecsAfter(d, s, "passed", admitted)
          /\ queue' = left
          /\ dispatch' = [rest EXCEPT ![d] = Finished({d}, Outcome)[d]]
       \/ /\ Continues /\ HasToWait(steps, s + 1)
          /\ exec' = ExecsAfter(d, s, "passed", admitted)
          /\ queue' = [left EXCEPT ![s + 1] = Append(@, d)]
          /\ dispatch' = rest
       \/ /\ Continues /\ ~HasToWait(steps, s + 1)
          /\ exec' = ExecsAfter(d, s, "passed", admitted \cup {<<d, s + 1>>})
          /\ queue' = left
          /\ dispatch' = rest
    /\ advance' = NoAdvance
    /\ UNCHANGED <<order, line, app, req>>

(***************************************************************************)
(* An error in admitting an order or in starting the next step undoes the  *)
(* finish of the run; so does a crash before the commit.                   *)
(***************************************************************************)
RollBackAdvance ==
    /\ advance # NoAdvance
    /\ advance' = NoAdvance
    /\ UNCHANGED <<order, line, app, dispatch, exec, queue, req>>

(***************************************************************************)
(* The cleanup of a deleted app removes its runs, finished or not          *)
(* (abortInFlightFactoryStepForDeletedRun).  The slot is not handed on.    *)
(***************************************************************************)
DeleteRun(d, s) ==
    /\ exec[d][s] \in InFlight /\ app[StepApp(d, s)] = "deleted"
    /\ advance # NoAdvance => <<advance.dispatch, advance.step>> # <<d, s>>
    /\ exec' = [exec EXCEPT ![d][s] = "stopped"]
    /\ dispatch' = Finished({d}, "stopped")
    /\ UNCHANGED <<order, line, app, queue, req, advance>>

-----------------------------------------------------------------------------
Api ==
    \/ \E r \in Requests :
         \/ \E o \in Orders : \/ ReadForDispatch(r, o)
                              \/ \E to \in OrderStates : ReadForStatus(r, o, to)
         \/ \E d \in DispatchIds : CommitDispatch(r, d)
         \/ CommitStatus(r)
         \/ AbortRequest(r)
    \/ \E v \in LineVersions : UpdateLine(v)

Workers ==
    \/ \E d \in DispatchIds, s \in StepIds :
         \/ StartRun(d, s) \/ ReadForAdvance(d, s) \/ DeleteRun(d, s)
         \/ EndRun(d, s)
    \/ Advance \/ RollBackAdvance

Next == Api \/ Workers \/ \E a \in Apps : DeleteEntrypoint(a) \/ SoftDelete(a)

Spec == Init /\ [][Next]_vars

(* The workers poll; the run of a step ends. *)
WorkerFairness ==
    /\ SF_vars(Advance)
    /\ WF_vars(RollBackAdvance /\ ~AdvanceSucceeds)
    /\ \A d \in DispatchIds, s \in StepIds :
          /\ WF_vars(StartRun(d, s) \/ (exec[d][s] = "pending" /\ EndRun(d, s)))
          /\ WF_vars(ReadForAdvance(d, s)
                     \/ (exec[d][s] = "running" /\ EndRun(d, s)))

FairSpec == Spec /\ WorkerFairness

-----------------------------------------------------------------------------
(* Properties. *)

(***************************************************************************)
(* A traversal under way is in one place: either one of its steps has a    *)
(* run in flight, or it waits at one step.  A finished one is nowhere, so  *)
(* no slot and no place in a queue is held for it.                         *)
(***************************************************************************)
StepsOf(d)  == {s \in StepIds : exec[d][s] \in InFlight}
QueuesOf(d) == {s \in StepIds : d \in Waiting(s)}

OnePlacePerTraversal ==
    \A d \in DispatchIds :
        Cardinality(StepsOf(d)) + Cardinality(QueuesOf(d))
            = IF dispatch[d].state = "active" THEN 1 ELSE 0

(***************************************************************************)
(* Steps run in the order of the snapshot, and a traversal has passed only *)
(* when each step of its snapshot has, however the line was edited and     *)
(* whichever of them was queued.                                           *)
(***************************************************************************)
StepsInOrder ==
    \A d \in DispatchIds, s \in StepIds :
        /\ exec[d][s] # "none" =>
              /\ s <= Len(dispatch[d].steps)
              /\ s > 1 => exec[d][s - 1] = "passed"
        /\ dispatch[d].state = "passed" /\ s <= Len(dispatch[d].steps)
              => exec[d][s] = "passed"

(***************************************************************************)
(* A transaction that starts runs leaves the step within the limit that    *)
(* governs the last of them, with any number of finalizers and requests    *)
(* starting runs at the same line.                                         *)
(***************************************************************************)
NewlyStarted(s) == Active(s)' \ Active(s)

StepsWithinLimit ==
    [][\A s \in StepIds : NewlyStarted(s) # {} =>
         \E d \in NewlyStarted(s) : Cardinality(Active(s)') <= Limit(dispatch[d].steps, s)']_vars

(* A step's queue is first in, first out: nobody starts past a dispatch that still waits. *)
FifoAdmission ==
    [][\A s \in StepIds : \A d \in NewlyStarted(s), j \in 1 .. Len(queue[s]) :
         queue[s][j] \in Waiting(s)' => \E i \in 1 .. j - 1 : queue[s][i] = d]_vars

(***************************************************************************)
(* A queue is never left to nobody: while orders wait for a step, a run of *)
(* that step is in flight, and its end admits them.  Deleting an app       *)
(* breaks this: the cleanup frees slots without admitting anyone.          *)
(***************************************************************************)
QueueIsServed ==
    (\A a \in Apps : app[a] # "deleted") =>
        \A s \in StepIds : queue[s] # <<>> => Active(s) # {}

(***************************************************************************)
(* Every traversal ends if the runs of its steps do: no order waits for    *)
(* ever, whatever closes, is dispatched again, fails or is edited on the   *)
(* way.  The exception is an entrypoint that is gone before a traversal    *)
(* under way has come to it: the step before it cannot be left, nor can a  *)
(* step be whose queue has such a traversal in it.                         *)
(***************************************************************************)
LacksEntrypoint(d) ==
    /\ dispatch[d].state = "active"
    /\ \E s \in 1 .. Len(dispatch[d].steps) : exec[d][s] = "none" /\ app[StepApp(d, s)] # "live"

TraversalsEnd ==
    \A d \in DispatchIds :
        dispatch[d].state = "active"
            ~> (dispatch[d].state # "active" \/ \E e \in DispatchIds : LacksEntrypoint(e))
=============================================================================
