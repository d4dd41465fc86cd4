--------------------------- MODULE ReadCommitted ---------------------------
(***************************************************************************)
(* The run engine at the isolation level it runs at.  Under READ COMMITTED *)
(* a transaction that reads a row without locking it may write after other *)
(* transactions have changed it.  Runs are always locked before they move, *)
(* events and pending executions are locked by the worker that takes them, *)
(* and inserting a row of a run waits for the run's lock; those            *)
(* transactions stay single steps.  The ones below read without a lock and *)
(* are two steps here, a read and a write:                                 *)
(*                                                                         *)
(*   "pass"    the queue worker locks its node, but neither the runs nor   *)
(*             the items and executions it lists;                          *)
(*   "cancel"  the CancelExecution API and cancelNodeExecutions check the  *)
(*             state they read, then update unconditionally;               *)
(*   "finish"  PassInTransaction and FailInTransaction check findState,    *)
(*             then update unconditionally;                                *)
(*   "save"    a hook that does not finish the execution saves the whole   *)
(*             row it read before calling the component;                   *)
(*   "callback"  the dispatcher of a sub-run's end does the same to the     *)
(*             parent execution, finished or not;                          *)
(*   "delete"  a publish lists a node's active executions before it        *)
(*             deletes the node.                                           *)
(*                                                                         *)
(* StaleReads says which of them other transactions may interrupt; the     *)
(* rest take one step, as in RunEngine.                                    *)
(***************************************************************************)
EXTENDS RunEngine

CONSTANT StaleReads

ASSUME StaleReadsAssumption ==
    StaleReads \subseteq {"pass", "cancel", "finish", "save", "callback", "delete"}

VARIABLES
    listed,      \* per node: the items the pass in progress has listed and kept
    toCancel,    \* executions read as active by a cancellation in progress
    toFinish,    \* executions found unfinished by a hook that now finishes them
    toSave,      \* executions read as started by a hook or callback that saves them
    toDelete     \* per node: the active executions listed by its deletion

readVars == <<listed, toCancel, toFinish, toSave, toDelete>>
rcVars   == <<vars, readVars>>

NoPass     == [rows |-> <<>>, live |-> {}]
NotReading == {NoCause}      \* no deletion of the node is in progress

Idle ==
    /\ listed = [n \in Nodes |-> NoPass]
    /\ toCancel = {} /\ toFinish = {} /\ toSave = {}
    /\ toDelete = [n \in AllNodes |-> NotReading]

RCInit == Init /\ Idle

-----------------------------------------------------------------------------
(* LockAndProcessNode: the node stays locked from the read to the write. *)
ListBacklog(n) ==
    /\ "pass" \in StaleReads /\ listed[n] = NoPass
    /\ node[n] = "ready" /\ Window(n) # {}
    /\ listed' = [listed EXCEPT ![n] =
                    [rows |-> [d \in Window(n) |-> item[d]], live |-> Live(Window(n))]]
    /\ UNCHANGED <<vars, toCancel, toFinish, toSave, toDelete>>

(* Mutant of DispatchListed: the items of the node are deleted, not the listed ones. *)
DispatchAndClear(n) ==
    LET cleared == DOMAIN listed[n].rows \cup {d \in Deliveries : d[2] = n}
    IN  /\ listed[n] # NoPass
        /\ Dispatch(n, [d \in cleared |-> item[d]], listed[n].live)
        /\ listed' = [listed EXCEPT ![n] = NoPass]
        /\ UNCHANGED <<toCancel, toFinish, toSave, toDelete>>

DispatchListed(n) ==
    /\ listed[n] # NoPass
    /\ Dispatch(n, listed[n].rows, listed[n].live)
    /\ listed' = [listed EXCEPT ![n] = NoPass]
    /\ UNCHANGED <<toCancel, toFinish, toSave, toDelete>>

ReadForCancel(d) ==
    /\ "cancel" \in StaleReads /\ toCancel = {}
    /\ exec[d].state \in {"pending", "started"}
    /\ toCancel' = {d}
    /\ UNCHANGED <<vars, listed, toFinish, toSave, toDelete>>

RequestCancellation(d) ==
    /\ d \in toCancel
    /\ exec' = CancellingExecs({d})
    /\ toCancel' = {}
    /\ UNCHANGED <<run, event, item, node, listed, toFinish, toSave, toDelete>>

ReadForFinish(d) ==
    /\ "finish" \in StaleReads /\ toFinish = {}
    /\ exec[d].state = "started" /\ node[d[2]] # "deleted"
    /\ toFinish' = {d}
    /\ UNCHANGED <<vars, listed, toCancel, toSave, toDelete>>

FinishRead(d) ==
    /\ d \in toFinish
    /\ Pass(d) \/ Fail(d)
    /\ toFinish' = {}
    /\ UNCHANGED <<listed, toCancel, toSave, toDelete>>

ReadForSave(d) ==
    /\ {"save", "callback"} \cap StaleReads # {} /\ toSave = {}
    /\ exec[d].state = "started" /\ node[d[2]] # "deleted"
    /\ toSave' = {d}
    /\ UNCHANGED <<vars, listed, toCancel, toFinish, toDelete>>

(* NodeRequestWorker saves nothing when the execution is finished by now. *)
SaveHook(d) ==
    /\ "save" \in StaleReads /\ d \in toSave
    /\ exec' = IF exec[d].state = "finished" THEN exec
               ELSE [exec EXCEPT ![d].state = "started"]
    /\ toSave' = {}
    /\ UNCHANGED <<run, event, item, node, listed, toCancel, toFinish, toDelete>>

(***************************************************************************)
(* dispatchActionHook saves after a hook whose Pass or Fail found the      *)
(* execution finished or cancelling and did nothing.                       *)
(***************************************************************************)
SaveCallback(d) ==
    /\ "callback" \in StaleReads /\ d \in toSave
    /\ exec[d].state \in {"finished", "cancelling"}
    /\ exec' = [exec EXCEPT ![d] = [@ EXCEPT !.state = "started", !.result = "none"]]
    /\ toSave' = {}
    /\ UNCHANGED <<run, event, item, node, listed, toCancel, toFinish, toDelete>>

ReadForDelete(n) ==
    /\ "delete" \in StaleReads /\ toDelete[n] = NotReading
    /\ n \in Deletable /\ node[n] # "deleted"
    /\ toDelete' = [toDelete EXCEPT ![n] =
                      {d \in Deliveries : d[2] = n /\ exec[d].state \in {"pending", "started"}}]
    /\ UNCHANGED <<vars, listed, toCancel, toFinish, toSave>>

(* Deleting the node row waits for the pass that has it locked. *)
DeleteListed(n) ==
    /\ toDelete[n] # NotReading
    /\ n \in Nodes => listed[n] = NoPass
    /\ exec' = CancellingExecs(toDelete[n])
    /\ item' = [d \in Deliveries |-> IF d[2] = n THEN NoItem ELSE item[d]]
    /\ node' = [node EXCEPT ![n] = "deleted"]
    /\ toDelete' = [toDelete EXCEPT ![n] = NotReading]
    /\ UNCHANGED <<run, event, listed, toCancel, toFinish, toSave>>

-----------------------------------------------------------------------------
(* The transactions that take one step. *)

LockedByPass(n) == n \in Nodes /\ listed[n] # NoPass

RunStep(r) ==
    \/ InitializeRun(r) \/ FinalizeRun(r) \/ CancelRun(r) \/ DrainAgain(r)
    \/ \E n \in Triggers : EmitRootEvent(n, r) \/ CreatePendingRun(n, r)

NodeStep(n) ==
    /\ ~LockedByPass(n)
    /\ \/ UpdateNode(n)
       \/ "delete" \notin StaleReads /\ DeleteNode(n)

DeliveryStep(d) ==
    \/ Execute(d) \/ Terminate(d) \/ DeleteQueueItem(d)
    \/ "cancel" \notin StaleReads /\ CancelExecution(d)
    \/ "finish" \notin StaleReads /\ InvokeHook(d)

AtomicStep ==
    /\ \/ \E r \in RunIds : RunStep(r)
       \/ \E e \in EventIds : RouteEvent(e)
       \/ \E n \in Nodes : "pass" \notin StaleReads /\ ProcessNode(n)
       \/ \E n \in AllNodes : NodeStep(n)
       \/ \E d \in Deliveries : DeliveryStep(d)
    /\ UNCHANGED readVars

RCNext ==
    \/ AtomicStep
    \/ \E n \in Nodes : ListBacklog(n) \/ DispatchListed(n)
    \/ \E n \in AllNodes : ReadForDelete(n) \/ DeleteListed(n)
    \/ \E d \in Deliveries : \/ ReadForCancel(d) \/ RequestCancellation(d)
                             \/ ReadForFinish(d) \/ FinishRead(d)
                             \/ ReadForSave(d) \/ SaveHook(d) \/ SaveCallback(d)

RCSpec == RCInit /\ [][RCNext]_rcVars

(***************************************************************************)
(* Workers poll, and a transaction that has read goes on to write.  The    *)
(* sweep drains a cancelling run again on every tick.                      *)
(***************************************************************************)
Unread(A) == A /\ UNCHANGED readVars

RCFairness ==
    /\ \A r \in RunIds : /\ WF_rcVars(Unread(InitializeRun(r)))
                         /\ WF_rcVars(Unread(FinalizeRun(r)))
                         /\ WF_rcVars(Unread(DrainAgain(r)))
    /\ \A e \in EventIds : WF_rcVars(Unread(RouteEvent(e)))
    /\ \A n \in Nodes : WF_rcVars(ListBacklog(n)) /\ WF_rcVars(DispatchListed(n))
    /\ \A d \in Deliveries : /\ WF_rcVars(Unread(Execute(d)))
                             /\ WF_rcVars(Unread(Terminate(d)))
                             /\ WF_rcVars(RequestCancellation(d))
                             /\ WF_rcVars(FinishRead(d))

RCWorkerSpec == RCSpec /\ RCFairness

-----------------------------------------------------------------------------
(* Properties. *)

Ahead(s) ==
    CASE s = "none"       -> {"pending", "started"}
      [] s = "pending"    -> {"started", "cancelling", "finished"}
      [] s = "started"    -> {"cancelling", "finished"}
      [] s = "cancelling" -> {"finished"}
      [] s = "finished"   -> {}

(***************************************************************************)
(* The lock of the run row is enough for the run itself: its state only    *)
(* moves forward, and a finished run keeps its state and result for good,  *)
(* whatever is interleaved (LockCanvasRunInTransaction).                   *)
(***************************************************************************)
RunMovesForward ==
    [][\A r \in RunIds :
         \/ run'[r].state \in Ahead(run[r].state)
         \/ run'[r].state = run[r].state /\ run'[r].result = run[r].result]_rcVars

(***************************************************************************)
(* A delivery is picked up by an executor once: an execution that has left *)
(* the pending state never comes back to it, and a queue item that was     *)
(* dispatched is not dispatched again.                                     *)
(***************************************************************************)
DeliveryStartsOnce ==
    [][\A d \in Deliveries :
         exec[d].state \notin {"none", "pending"} => exec'[d].state # "pending"]_rcVars
=============================================================================
