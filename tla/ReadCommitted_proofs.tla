----------------------- MODULE ReadCommitted_proofs -----------------------
(***************************************************************************)
(* Proofs about the engine at the isolation level it runs at, for every    *)
(* canvas.  Whichever reads other transactions interrupt, the lock of the  *)
(* run row is enough for the runs themselves, and the locks of event and   *)
(* node rows for every delivery to start once.  If only passes and hooks   *)
(* are interrupted, queues keep their capacity, and if only hooks are,     *)
(* runs keep the results their executions justify; if nothing is, this is  *)
(* the run engine.                                                         *)
(***************************************************************************)
EXTENDS ReadCommitted, RunEngine_steps

(* A pass in progress keeps deliveries, and the rows have their types. *)
RCTypes ==
    /\ TypeOK
    /\ listed = [n \in Nodes |-> listed[n]]
    /\ \A n \in Nodes : listed[n].live \subseteq Deliveries

Forward(r) ==
    \/ run'[r].state \in Ahead(run[r].state)
    \/ run'[r].state = run[r].state /\ run'[r].result = run[r].result

-----------------------------------------------------------------------------
(* Runs started by a report did not exist; the others keep their rows. *)
LEMMA ReportForward ==
    ASSUME TypeOK, NEW failed \in SUBSET Deliveries,
           NEW report \in OnErrorReports(failed), run' = RunsWith(report)
    PROVE  \A r \in RunIds : Forward(r)
<1>1. DOMAIN report \subseteq FreshRuns
  BY ReportType
<1>2. ASSUME NEW r \in DOMAIN report PROVE Forward(r)
  <2>1. r \in RunIds /\ run[r].state = "none"
    BY <1>1 DEF FreshRuns
  <2>2. run'[r].state = "started"
    BY <2>1 DEF RunsWith, NewRun, AbsentRun
  <2>3. "started" \in Ahead("none")
    BY DEF Ahead
  <2> QED  BY <2>1, <2>2, <2>3 DEF Forward
<1>3. \A r \in RunIds \ DOMAIN report : Forward(r)
  BY DEF RunsWith, Forward
<1> QED  BY <1>2, <1>3

(* EmitRootEvent, CreatePendingRun, InitializeRun, FinalizeRun. *)
LEMMA RunRowsForward ==
    ASSUME TypeOK, NEW r \in RunIds,
           \/ \E n \in Triggers : EmitRootEvent(n, r) \/ CreatePendingRun(n, r)
           \/ InitializeRun(r) \/ FinalizeRun(r)
    PROVE  \A q \in RunIds : Forward(q)
<1>1. \A q \in RunIds \ {r} : run'[q] = run[q]
  BY DEF EmitRootEvent, CreatePendingRun, InitializeRun, StartRun, FailRun,
         FinalizeRun, TypeOK
<1>2. \A q \in RunIds \ {r} : Forward(q)
  BY <1>1 DEF Forward
<1>3. Forward(r)
  <2>1. CASE \E n \in Triggers : EmitRootEvent(n, r) \/ CreatePendingRun(n, r)
    <3>1. run[r].state = "none" /\ run'[r].state \in {"pending", "started"}
      BY <2>1 DEF EmitRootEvent, CreatePendingRun, FreshRuns, NewRun, AbsentRun, TypeOK
    <3>2. {"pending", "started"} \subseteq Ahead("none")
      BY DEF Ahead
    <3> QED  BY <3>1, <3>2 DEF Forward
  <2>2. CASE InitializeRun(r)
    <3>1. run[r].state = "pending" /\ run'[r].state \in {"started", "finished"}
      <4>1. CASE StartRun(r)
        BY <4>1 DEF StartRun, TypeOK, RunRecord
      <4>2. CASE FailRun(r)
        <5>1. [run[r] EXCEPT !.state = "finished", !.result = "failed",
                             !.errors = TRUE].state = "finished"
          BY DEF TypeOK, RunRecord
        <5> QED  BY <4>2, <5>1 DEF FailRun, TypeOK
      <4> QED  BY <2>2, <4>1, <4>2 DEF InitializeRun
    <3>2. {"started", "finished"} \subseteq Ahead("pending")
      BY DEF Ahead
    <3> QED  BY <3>1, <3>2 DEF Forward
  <2>3. CASE FinalizeRun(r)
    <3>1. run[r].state \in {"started", "cancelling"} /\ run'[r].state = "finished"
      <4>1. [run[r] EXCEPT !.state = "finished", !.result = ResultOf(r)].state = "finished"
        BY DEF TypeOK, RunRecord
      <4> QED  BY <2>3, <4>1 DEF FinalizeRun, TypeOK
    <3>2. "finished" \in Ahead("started") /\ "finished" \in Ahead("cancelling")
      BY DEF Ahead
    <3> QED  BY <3>1, <3>2 DEF Forward
  <2> QED  BY <2>1, <2>2, <2>3
<1> QED  BY <1>2, <1>3

(* CancelRun, DrainAgain. *)
LEMMA CancelForward ==
    ASSUME TypeOK, NEW r \in RunIds, CancelRun(r) \/ DrainAgain(r)
    PROVE  \A q \in RunIds : Forward(q)
<1>1. CASE CancelRun(r)
  <2>1. /\ run[r].state \in {"pending", "started"} /\ run'[r].state = "cancelling"
        /\ \A q \in RunIds \ {r} : run'[q] = run[q]
    BY <1>1 DEF CancelRun, TypeOK, RunRecord
  <2>2. "cancelling" \in Ahead("pending") /\ "cancelling" \in Ahead("started")
    BY DEF Ahead
  <2> QED  BY <2>1, <2>2 DEF Forward
<1>2. CASE DrainAgain(r)
  BY <1>2 DEF DrainAgain, Forward
<1> QED  BY <1>1, <1>2

(* The writes of a pass, whatever it has listed. *)
LEMMA DispatchForward ==
    ASSUME TypeOK, NEW n \in Nodes, NEW rows, NEW L \in SUBSET Deliveries,
           Dispatch(n, rows, L)
    PROVE  \A q \in RunIds : Forward(q)
<1>1. PICK name \in QueueNames(n, rows, L), bad \in SUBSET L :
        DispatchAs(n, rows, L, name, bad)
  BY DEF Dispatch
<1> DEFINE failed == bad \cup {d \in L : name[d] = KeyError}
<1>2. failed \in SUBSET Deliveries
  OBVIOUS
<1>3. PICK report \in OnErrorReports(failed) : run' = RunsWith(report)
  BY <1>1 DEF DispatchAs
<1> QED  BY <1>2, <1>3, ReportForward

(* Execute, InvokeHook and FinishRead. *)
LEMMA OutcomeForward ==
    ASSUME TypeOK, NEW d \in Deliveries, Begin(d) \/ Pass(d) \/ Fail(d)
    PROVE  \A q \in RunIds : Forward(q)
<1>1. CASE Begin(d)
  BY <1>1 DEF Begin, Forward
<1>2. CASE Pass(d)
  <2>1. \A r \in RunIds : run'[r].state = run[r].state /\ run'[r].result = run[r].result
    BY <1>2 DEF Pass, TypeOK, RunRecord
  <2> QED  BY <2>1 DEF Forward
<1>3. CASE Fail(d)
  <2>1. PICK report \in OnErrorReports({d}) : run' = RunsWith(report)
    BY <1>3 DEF Fail
  <2> QED  BY <2>1, ReportForward
<1> QED  BY <1>1, <1>2, <1>3

-----------------------------------------------------------------------------
(* The transactions of one step. *)
LEMMA AtomicForward ==
    ASSUME RCTypes, AtomicStep
    PROVE  TypeOK' /\ \A q \in RunIds : Forward(q)
<1>1. TypeOK
  BY DEF RCTypes
<1>2. ASSUME NEW r \in RunIds, RunStep(r) PROVE TypeOK' /\ \A q \in RunIds : Forward(q)
  BY <1>1, <1>2, RunRowsType, DrainType, RunRowsForward, CancelForward DEF RunStep
<1>3. ASSUME NEW e \in EventIds, RouteEvent(e)
      PROVE  TypeOK' /\ \A q \in RunIds : Forward(q)
  BY <1>1, <1>3, RouteType DEF RouteEvent, Forward
<1>4. ASSUME NEW n \in Nodes, ProcessNode(n)
      PROVE  TypeOK' /\ \A q \in RunIds : Forward(q)
  BY <1>1, <1>4, DispatchType, DispatchForward
     DEF ProcessNode, Live, Window, Actionable
<1>5. ASSUME NEW n \in AllNodes, NodeStep(n)
      PROVE  TypeOK' /\ \A q \in RunIds : Forward(q)
  BY <1>1, <1>5, NodeRowsType DEF NodeStep, UpdateNode, DeleteNode, Forward
<1>6. ASSUME NEW d \in Deliveries, DeliveryStep(d)
      PROVE  TypeOK' /\ \A q \in RunIds : Forward(q)
  <2>1. CASE Execute(d) \/ InvokeHook(d)
    BY <1>1, <2>1, OutcomeType, OutcomeForward DEF Execute, InvokeHook
  <2>2. CASE Terminate(d) \/ CancelExecution(d) \/ DeleteQueueItem(d)
    BY <1>1, <2>2, DeliveryRowsType
       DEF Terminate, CancelExecution, DeleteQueueItem, Forward
  <2> QED  BY <1>6, <2>1, <2>2 DEF DeliveryStep
<1> QED  BY <1>2, <1>3, <1>4, <1>5, <1>6 DEF AtomicStep

(* A node of a pass: what it keeps are deliveries. *)
LEMMA ListBacklogTypes ==
    ASSUME RCTypes, NEW n \in Nodes, ListBacklog(n)
    PROVE  RCTypes'
<1>1. vars' = vars
  BY DEF ListBacklog
<1>2. TypeOK'
  BY <1>1 DEF RCTypes, TypeOK, vars
<1>3. Live(Window(n)) \subseteq Deliveries
  BY DEF Live, Window, Actionable
<1>4. \A m \in Nodes : listed'[m].live \subseteq Deliveries
  BY <1>3 DEF ListBacklog, RCTypes
<1>5. listed' = [m \in Nodes |-> listed'[m]]
  BY DEF ListBacklog, RCTypes
<1> QED  BY <1>2, <1>4, <1>5 DEF RCTypes

\* A worker that reads the rows it listed earlier moves no run backward.
LEMMA DispatchListedForward ==
    ASSUME RCTypes, NEW n \in Nodes, DispatchListed(n)
    PROVE  RCTypes' /\ \A q \in RunIds : Forward(q)
<1>1. listed[n].live \in SUBSET Deliveries
  BY DEF RCTypes
<1>2. TypeOK' /\ \A q \in RunIds : Forward(q)
  BY <1>1, DispatchType, DispatchForward DEF DispatchListed, RCTypes
<1>3. \A m \in Nodes : listed'[m].live \subseteq Deliveries
  BY DEF DispatchListed, RCTypes, NoPass
<1>4. listed' = [m \in Nodes |-> listed'[m]]
  BY DEF DispatchListed, RCTypes
<1> QED  BY <1>2, <1>3, <1>4 DEF RCTypes

(* The reads of the others leave the rows alone ... *)
LEMMA ReadsForward ==
    ASSUME RCTypes,
           \/ \E d \in Deliveries : ReadForCancel(d) \/ ReadForFinish(d) \/ ReadForSave(d)
           \/ \E n \in AllNodes : ReadForDelete(n)
    PROVE  RCTypes' /\ \A q \in RunIds : Forward(q)
<1>1. vars' = vars /\ listed' = listed
  BY DEF ReadForCancel, ReadForFinish, ReadForSave, ReadForDelete
<1> QED  BY <1>1 DEF RCTypes, TypeOK, vars, Forward

(* ... and their writes change executions, items and nodes. *)
LEMMA WritesForward ==
    ASSUME RCTypes,
           \/ \E d \in Deliveries : RequestCancellation(d) \/ SaveHook(d) \/ SaveCallback(d)
           \/ \E n \in AllNodes : DeleteListed(n)
    PROVE  RCTypes' /\ \A q \in RunIds : Forward(q)
<1>1. run' = run /\ event' = event /\ listed' = listed
  BY DEF RequestCancellation, SaveHook, SaveCallback, DeleteListed
<1>2. exec' \in [Deliveries -> ExecRecord]
  <2>1. ASSUME NEW d \in Deliveries, SaveHook(d) PROVE exec' \in [Deliveries -> ExecRecord]
    BY <2>1 DEF SaveHook, RCTypes, TypeOK, ExecRecord, ActiveStates
  <2>2. ASSUME NEW d \in Deliveries, SaveCallback(d) PROVE exec' \in [Deliveries -> ExecRecord]
    <3>1. [exec[d] EXCEPT !.state = "started", !.result = "none"] \in ExecRecord
      BY DEF RCTypes, TypeOK, ExecRecord, ActiveStates, Results
    <3> QED  BY <2>2, <3>1 DEF SaveCallback, RCTypes, TypeOK
  <2>3. ASSUME NEW d \in Deliveries, RequestCancellation(d)
        PROVE  exec' \in [Deliveries -> ExecRecord]
    BY <2>3, CancellingType DEF RequestCancellation, RCTypes
  <2>4. ASSUME NEW n \in AllNodes, DeleteListed(n)
        PROVE  exec' \in [Deliveries -> ExecRecord]
    BY <2>4, CancellingType DEF DeleteListed, RCTypes
  <2> QED  BY <2>1, <2>2, <2>3, <2>4
<1>3. item' \in [Deliveries -> ItemRecord]
  BY NoItemType DEF RequestCancellation, SaveHook, SaveCallback, DeleteListed, RCTypes, TypeOK
<1>4. node' \in [AllNodes -> {"ready", "error", "deleted"}]
  BY DEF RequestCancellation, SaveHook, SaveCallback, DeleteListed, RCTypes, TypeOK
<1> QED  BY <1>1, <1>2, <1>3, <1>4 DEF RCTypes, TypeOK, Forward

\* A callback that writes an execution it read earlier moves no run backward.
LEMMA FinishReadForward ==
    ASSUME RCTypes, NEW d \in Deliveries, FinishRead(d)
    PROVE  RCTypes' /\ \A q \in RunIds : Forward(q)
<1>1. TypeOK' /\ \A q \in RunIds : Forward(q)
  BY OutcomeType, OutcomeForward DEF FinishRead, RCTypes
<1>2. listed' = listed
  BY DEF FinishRead
<1> QED  BY <1>1, <1>2 DEF RCTypes

-----------------------------------------------------------------------------
\* The read-committed model starts well typed.
LEMMA RCInitTypes == RCInit => RCTypes
<1> SUFFICES ASSUME RCInit PROVE RCTypes
  OBVIOUS
<1>1. listed = [n \in Nodes |-> NoPass] /\ NoPass.live = {}
  BY DEF RCInit, Idle, NoPass
<1> QED  BY <1>1, InitType DEF RCInit, RCTypes

\* Every read-committed step keeps the types and moves no run backward.
LEMMA RCNextForward ==
    RCTypes /\ [RCNext]_rcVars => RCTypes' /\ \A q \in RunIds : Forward(q)
<1> SUFFICES ASSUME RCTypes, [RCNext]_rcVars
             PROVE  RCTypes' /\ \A q \in RunIds : Forward(q)
  OBVIOUS
<1>1. CASE UNCHANGED rcVars
  BY <1>1 DEF rcVars, vars, readVars, RCTypes, TypeOK, Forward
<1>2. CASE AtomicStep
  BY <1>2, AtomicForward DEF AtomicStep, RCTypes, readVars
<1>3. CASE \E n \in Nodes : ListBacklog(n)
  BY <1>3, ListBacklogTypes DEF ListBacklog, vars, Forward
<1>4. CASE \E n \in Nodes : DispatchListed(n)
  BY <1>4, DispatchListedForward
<1>5. CASE \/ \E d \in Deliveries : ReadForCancel(d) \/ ReadForFinish(d) \/ ReadForSave(d)
           \/ \E n \in AllNodes : ReadForDelete(n)
  BY <1>5, ReadsForward
<1>6. CASE \/ \E d \in Deliveries : RequestCancellation(d) \/ SaveHook(d) \/ SaveCallback(d)
           \/ \E n \in AllNodes : DeleteListed(n)
  BY <1>6, WritesForward
<1>7. CASE \E d \in Deliveries : FinishRead(d)
  BY <1>7, FinishReadForward
<1> QED  BY <1>1, <1>2, <1>3, <1>4, <1>5, <1>6, <1>7 DEF RCNext

(***************************************************************************)
(* The state of a run only moves forward, and a finished run keeps its     *)
(* state and result, whatever is interleaved with what: every transaction  *)
(* that moves a run locks its row first.                                   *)
(***************************************************************************)
THEOREM RunsMoveForward == RCSpec => RunMovesForward
<1>1. RCTypes /\ [RCNext]_rcVars =>
        RCTypes' /\ [\A r \in RunIds :
                       \/ run'[r].state \in Ahead(run[r].state)
                       \/ run'[r].state = run[r].state
                          /\ run'[r].result = run[r].result]_rcVars
  BY RCNextForward DEF Forward
<1> QED  BY <1>1, RCInitTypes, PTL DEF RCSpec, RunMovesForward

-----------------------------------------------------------------------------
(* A delivery is started once: what a pass or another read keeps in hand    *)
(* still has the rows it was read with, as far as a start depends on them.  *)

(* An item whose delivery has started is gone. *)
QueuedIsNotStarted == \A d \in Deliveries : Queued(d) => exec[d].state = "none"

(* Nobody but its own pass starts what a pass has listed. *)
Startable(n, d) ==
    d[2] = n /\ exec[d].state = "none" /\ event[d[1]].state = "routed"

ListedIsNotStarted ==
    \A n \in Nodes :
        /\ listed[n].live \subseteq DOMAIN listed[n].rows
        /\ \A d \in listed[n].live : Startable(n, d)
        /\ listed[n].live # {} => "pass" \in StaleReads

(* What a read found as an execution is one. *)
ReadsHaveExecutions ==
    /\ \A d \in Deliveries :
          d \in toCancel \cup toFinish \cup toSave => exec[d].state # "none"
    /\ toDelete = [n \in AllNodes |-> toDelete[n]]
    /\ \A n \in AllNodes, d \in Deliveries :
          toDelete[n] # NotReading /\ d \in toDelete[n] => exec[d].state # "none"

StartInv ==
    /\ RCTypes
    /\ RootsAreNew
    /\ RowsAreRouted
    /\ QueuedIsNotStarted
    /\ ListedIsNotStarted
    /\ ReadsHaveExecutions

(* How a step that may start the items of L moves events, items and executions. *)
EventSteps ==
    \A e \in EventIds :
        \/ event'[e].state = event[e].state
        \/ event[e].state = "none" /\ event'[e].state = "pending"
        \/ event[e].state = "pending" /\ event'[e].state = "routed"

ItemSteps ==
    \A d \in Deliveries : item'[d].at # 0 =>
        \/ Queued(d)
        \/ event[d[1]].state = "pending" /\ event'[d[1]].state = "routed"

ExecSteps(L) ==
    \A d \in Deliveries :
        \/ exec'[d] = exec[d]
        \/ exec[d].state # "none" /\ exec'[d].state \notin {"none", "pending"}
        \/ d \in L /\ item'[d].at = 0 /\ exec'[d].state # "none"

StartStep(L) == RootsAreNew' /\ EventSteps /\ ItemSteps /\ ExecSteps(L)

\* Such a step starts nothing a second time, and keeps what others have read.
LEMMA StartsKept ==
    ASSUME StartInv, NEW L \in SUBSET Deliveries,
           \A d \in L : exec[d].state = "none" /\ event[d[1]].state = "routed",
           StartStep(L)
    PROVE  /\ RootsAreNew' /\ RowsAreRouted' /\ QueuedIsNotStarted'
           /\ \A d \in Deliveries : exec[d].state # "none" => exec'[d].state # "none"
           /\ \A d \in Deliveries : exec[d].state \notin {"none", "pending"}
                                       => exec'[d].state # "pending"
           /\ \A n \in Nodes, d \in Deliveries \ L : Startable(n, d) => Startable(n, d)'
<1>1. \A d \in Deliveries : d[1] \in EventIds
  BY DEF Deliveries
<1>2. \A e \in EventIds : event[e].state = "routed" => event'[e].state = "routed"
  BY DEF StartStep, EventSteps
<1>3. \A d \in Deliveries : exec[d].state # "none" => exec'[d].state # "none"
  BY DEF StartStep, ExecSteps
<1>4. RowsAreRouted'
  BY <1>1, <1>2 DEF StartStep, ItemSteps, ExecSteps, StartInv, RowsAreRouted, Queued
<1>5. QueuedIsNotStarted'
  <2> SUFFICES ASSUME NEW d \in Deliveries, item'[d].at # 0
               PROVE  exec'[d].state = "none"
    BY DEF QueuedIsNotStarted, Queued
  <2>1. exec[d].state = "none"
    BY <1>1 DEF StartStep, ItemSteps, StartInv, RowsAreRouted, QueuedIsNotStarted
  <2> QED  BY <2>1 DEF StartStep, ExecSteps
<1>6. \A d \in Deliveries : exec[d].state \notin {"none", "pending"}
                               => exec'[d].state # "pending"
  BY DEF StartStep, ExecSteps
<1>7. \A n \in Nodes, d \in Deliveries \ L : Startable(n, d) => Startable(n, d)'
  BY <1>1, <1>2 DEF StartStep, ExecSteps, Startable
<1> QED  BY <1>3, <1>4, <1>5, <1>6, <1>7 DEF StartStep

\* A report creates runs, and their root events, that did not exist.
LEMMA ReportStarts ==
    ASSUME StartInv, NEW failed \in SUBSET Deliveries,
           NEW report \in OnErrorReports(failed),
           run' = RunsWith(report), event' = EventsWith(report)
    PROVE  RootsAreNew' /\ EventSteps
<1>1. DOMAIN report \subseteq FreshRuns
  BY ReportType
<1>2. ASSUME NEW r \in DOMAIN report
      PROVE  /\ r \in RunIds /\ event[r].state = "none"
             /\ run'[r].state = "started" /\ event'[r].state = "pending"
  <2>1. r \in RunIds /\ r \in EventIds /\ run[r].state = "none"
    BY <1>1 DEF FreshRuns, EventIds
  <2>2. /\ run'[r] = NewRun("started", report[r].node, report[r].cause)
        /\ event'[r] = NewEvent(r, report[r].node, DefaultChannel)
    BY <2>1 DEF RunsWith, EventsWith
  <2> QED  BY <2>1, <2>2 DEF StartInv, RootsAreNew, NewRun, AbsentRun, NewEvent
<1>3. \A r \in RunIds \ DOMAIN report : run'[r] = run[r]
  BY DEF RunsWith
<1>4. \A e \in EventIds \ DOMAIN report : event'[e] = event[e]
  BY DEF EventsWith
<1>5. RootsAreNew'
  BY <1>2, <1>3, <1>4 DEF StartInv, RootsAreNew, EventIds
<1> QED  BY <1>2, <1>4, <1>5 DEF EventSteps

\* Creating, initializing and finalizing a run starts no delivery.
LEMMA RunRowsStart ==
    ASSUME StartInv, NEW r \in RunIds,
           \/ \E n \in Triggers : EmitRootEvent(n, r) \/ CreatePendingRun(n, r)
           \/ InitializeRun(r) \/ FinalizeRun(r)
    PROVE  StartStep({})
<1>1. item' = item /\ exec' = exec
  BY DEF EmitRootEvent, CreatePendingRun, InitializeRun, StartRun, FailRun, FinalizeRun
<1>2. ItemSteps /\ ExecSteps({})
  BY <1>1 DEF ItemSteps, ExecSteps, Queued
<1>3. /\ r \in EventIds
      /\ \A q \in RunIds \ {r} : run'[q] = run[q]
      /\ \A e \in EventIds \ {r} : event'[e] = event[e]
      /\ run[r] \in RunRecord
  BY DEF EmitRootEvent, CreatePendingRun, InitializeRun, StartRun, FailRun,
         FinalizeRun, StartInv, RCTypes, TypeOK, EventIds
<1>4. ASSUME run[r].state \in {"none", "pending"}, run'[r].state = "started",
             event'[r].state = "pending"
      PROVE  RootsAreNew' /\ EventSteps
  BY <1>3, <1>4 DEF RootsAreNew, EventSteps, StartInv, EventIds
<1>5. ASSUME event' = event,
             run'[r].state \in {"none", "pending"} => run[r].state \in {"none", "pending"}
      PROVE  RootsAreNew' /\ EventSteps
  BY <1>3, <1>5 DEF RootsAreNew, EventSteps, StartInv
<1>6. RootsAreNew' /\ EventSteps
  <2>1. ASSUME NEW n \in Triggers, EmitRootEvent(n, r) PROVE RootsAreNew' /\ EventSteps
    <3>1. run' = [run EXCEPT ![r] = NewRun("started", n, NoCause)]
      BY <2>1 DEF EmitRootEvent
    <3>2. event' = [event EXCEPT ![r] = NewEvent(r, n, DefaultChannel)]
      BY <2>1 DEF EmitRootEvent
    <3>3. run'[r].state = "started" /\ event'[r].state = "pending"
      BY <1>3, <3>1, <3>2 DEF NewRun, AbsentRun, NewEvent, StartInv, RCTypes, TypeOK
    <3> QED  BY <1>4, <2>1, <3>3 DEF EmitRootEvent, FreshRuns
  <2>2. ASSUME NEW n \in Triggers, CreatePendingRun(n, r) PROVE RootsAreNew' /\ EventSteps
    BY <1>5, <2>2 DEF CreatePendingRun, FreshRuns
  <2>3. CASE StartRun(r)
    <3>1. event' = [event EXCEPT ![r] = NewEvent(r, run[r].node, DefaultChannel)]
      BY <2>3 DEF StartRun
    <3>2. event'[r].state = "pending"
      BY <1>3, <3>1 DEF NewEvent, StartInv, RCTypes, TypeOK
    <3>3. run[r].state = "pending" /\ run'[r].state = "started"
      BY <1>3, <2>3 DEF StartRun, StartInv, RCTypes, TypeOK, RunRecord
    <3> QED  BY <1>4, <3>2, <3>3
  <2>4. CASE FailRun(r)
    BY <1>5, <2>4 DEF FailRun
  <2>5. CASE FinalizeRun(r)
    <3>1. [run[r] EXCEPT !.state = "finished", !.result = ResultOf(r)].state = "finished"
      BY <1>3 DEF RunRecord
    <3>2. run'[r].state = "finished" /\ event' = event
      BY <2>5, <3>1 DEF FinalizeRun, StartInv, RCTypes, TypeOK
    <3> QED  BY <1>5, <3>2
  <2> QED  BY <2>1, <2>2, <2>3, <2>4, <2>5 DEF InitializeRun
<1> QED  BY <1>2, <1>6 DEF StartStep

\* Neither does cancelling one.
LEMMA DrainStarts ==
    ASSUME StartInv, NEW r \in RunIds, CancelRun(r) \/ DrainAgain(r)
    PROVE  StartStep({})
<1>1. Drain(r)
  BY DEF CancelRun, DrainAgain
<1>2. RootsAreNew' /\ EventSteps
  <2>1. \A e \in EventIds : \/ event'[e] = event[e]
                            \/ event[e].state = "pending" /\ event'[e].state = "routed"
    <3>1. \A e \in EventIds : [event[e] EXCEPT !.state = "routed"].state = "routed"
      BY DEF StartInv, RCTypes, TypeOK, EventRecord
    <3> QED  BY <1>1, <3>1 DEF Drain
  <2>2. \A q \in RunIds : \/ run'[q] = run[q]
                          \/ run'[q].state = "cancelling"
    BY DEF CancelRun, DrainAgain, StartInv, RCTypes, TypeOK, RunRecord
  <2> QED  BY <2>1, <2>2 DEF RootsAreNew, EventSteps, StartInv, EventIds
<1>3. ItemSteps
  BY <1>1 DEF Drain, ItemSteps, Queued, NoItem
<1>4. ExecSteps({})
  <2>1. \A d \in Deliveries : [exec[d] EXCEPT !.state = "cancelling"].state = "cancelling"
    BY DEF StartInv, RCTypes, TypeOK, ExecRecord
  <2> QED  BY <1>1, <2>1 DEF Drain, CancellingExecs, ExecSteps
<1> QED  BY <1>2, <1>3, <1>4 DEF StartStep

\* The router makes items of an event that had none.
LEMMA RouteStarts ==
    ASSUME StartInv, NEW e \in EventIds, RouteEvent(e)
    PROVE  StartStep({})
<1>1. event[e].state = "pending" /\ run' = run /\ exec' = exec
  BY DEF RouteEvent
<1>2. event'[e].state = "routed" /\ \A x \in EventIds \ {e} : event'[x] = event[x]
  BY DEF RouteEvent, StartInv, RCTypes, TypeOK, EventRecord
<1>3. \A d \in Deliveries : d[1] # e => item'[d] = item[d]
  BY DEF RouteEvent
<1> QED  BY <1>1, <1>2, <1>3
         DEF StartStep, RootsAreNew, EventSteps, ItemSteps, ExecSteps, Queued,
             StartInv, EventIds

\* A pass starts or fails what it has listed, and takes its item away.
LEMMA DispatchStarts ==
    ASSUME StartInv, NEW n \in Nodes, NEW rows, NEW L \in SUBSET Deliveries,
           L \subseteq DOMAIN rows, Dispatch(n, rows, L)
    PROVE  StartStep(L)
<1>1. PICK name \in QueueNames(n, rows, L), bad \in SUBSET L :
        DispatchAs(n, rows, L, name, bad)
  BY DEF Dispatch
<1> DEFINE admitted == Reached(n, rows, L, name, bad) \ bad
           failed   == bad \cup {d \in L : name[d] = KeyError}
           blocked  == L \ (admitted \cup failed)
<1>2. failed \in SUBSET Deliveries /\ admitted \subseteq L /\ failed \subseteq L
  BY DEF Reached
<1>3. RootsAreNew' /\ EventSteps
  <2>1. PICK report \in OnErrorReports(failed) :
           run' = RunsWith(report) /\ event' = EventsWith(report)
    BY <1>1 DEF DispatchAs
  <2> QED  BY <1>2, <2>1, ReportStarts
<1>4. item' = [d \in Deliveries |->
                 IF d \in blocked /\ Queued(d) THEN [item[d] EXCEPT !.queue = name[d]]
                 ELSE IF d \in DOMAIN rows THEN NoItem ELSE item[d]]
  BY <1>1 DEF DispatchAs
<1>5. exec' = [d \in Deliveries |->
                 IF d \in admitted
                 THEN [state |-> "pending", result |-> "none", queue |-> name[d]]
                 ELSE IF d \in failed
                 THEN [state |-> "finished", result |-> "failed", queue |-> Unresolved]
                 ELSE exec[d]]
  BY <1>1 DEF DispatchAs
<1>6. ItemSteps
  BY <1>4 DEF ItemSteps, Queued, NoItem
<1>7. \A d \in admitted \cup failed : item'[d].at = 0 /\ exec'[d].state # "none"
  BY <1>2, <1>4, <1>5 DEF NoItem
<1>8. \A d \in Deliveries \ (admitted \cup failed) : exec'[d] = exec[d]
  BY <1>5
<1>9. ExecSteps(L)
  BY <1>2, <1>7, <1>8 DEF ExecSteps
<1> QED  BY <1>3, <1>6, <1>9 DEF StartStep

\* What a component reports about an execution starts no other delivery.
LEMMA OutcomeStarts ==
    ASSUME StartInv, NEW d \in Deliveries, exec[d].state # "none",
           Begin(d) \/ Pass(d) \/ Fail(d)
    PROVE  StartStep({})
<1>1. item' = item
  BY DEF Begin, Pass, Fail
<1>2. /\ \A x \in Deliveries \ {d} : exec'[x] = exec[x]
      /\ exec'[d].state \in {"started", "finished"}
  <2>1. exec \in [Deliveries -> ExecRecord]
    BY DEF StartInv, RCTypes, TypeOK
  <2> QED  BY <2>1 DEF Begin, Pass, Fail, Finished, ExecRecord
<1>3. ItemSteps /\ ExecSteps({})
  BY <1>1, <1>2 DEF ItemSteps, ExecSteps, Queued
<1>4. RootsAreNew' /\ EventSteps
  <2>1. CASE Begin(d)
    BY <2>1 DEF Begin, RootsAreNew, EventSteps, StartInv
  <2>2. CASE Pass(d)
    <3>1. PICK outs \in FreshOutputs, c \in Channels :
            event' = [e \in EventIds |-> IF e \in outs THEN NewEvent(RunOf(d), d[2], c)
                                        ELSE event[e]]
      BY <2>2 DEF Pass
    <3>2. \A e \in outs : e \notin RunIds /\ event[e].state = "none"
      BY IdAssumption DEF FreshOutputs
    <3>3. \A e \in EventIds : e \in outs => event'[e].state = "pending"
      BY <3>1 DEF NewEvent
    <3>4. \A r \in RunIds : run'[r].state = run[r].state /\ event'[r] = event[r]
      BY <2>2, <3>1, <3>2 DEF Pass, StartInv, RCTypes, TypeOK, RunRecord, EventIds
    <3> QED  BY <3>1, <3>2, <3>3, <3>4 DEF RootsAreNew, EventSteps, StartInv
  <2>3. CASE Fail(d)
    <3>1. PICK report \in OnErrorReports({d}) :
             run' = RunsWith(report) /\ event' = EventsWith(report)
      BY <2>3 DEF Fail
    <3> QED  BY <3>1, ReportStarts
  <2> QED  BY <2>1, <2>2, <2>3
<1> QED  BY <1>3, <1>4 DEF StartStep

\* A step that only moves executions that exist, or deletes items, starts nothing.
LEMMA RemovalStarts ==
    ASSUME StartInv, run' = run, event' = event,
           \A d \in Deliveries : item'[d] = item[d] \/ item'[d] = NoItem,
           \A d \in Deliveries :
              \/ exec'[d] = exec[d]
              \/ exec[d].state # "none" /\ exec'[d].state \notin {"none", "pending"}
    PROVE  StartStep({})
  BY DEF StartStep, RootsAreNew, EventSteps, ItemSteps, ExecSteps, Queued, NoItem, StartInv

\* Requesting the cancellation of executions starts nothing.
LEMMA CancellingStarts ==
    ASSUME StartInv, run' = run, event' = event, NEW D, exec' = CancellingExecs(D),
           \A d \in Deliveries : d \in D => exec[d].state # "none",
           \A d \in Deliveries : item'[d] = item[d] \/ item'[d] = NoItem
    PROVE  StartStep({})
<1>1. \A d \in Deliveries : [exec[d] EXCEPT !.state = "cancelling"].state = "cancelling"
  BY DEF StartInv, RCTypes, TypeOK, ExecRecord
<1>2. \A d \in Deliveries :
         \/ exec'[d] = exec[d]
         \/ exec[d].state # "none" /\ exec'[d].state \notin {"none", "pending"}
  BY <1>1 DEF CancellingExecs
<1> QED  BY <1>2, RemovalStarts
(* No execution that has left the pending state returns to it. *)
StartedOnce ==
    \A d \in Deliveries : exec[d].state \notin {"none", "pending"} => exec'[d].state # "pending"

\* A step that starts items of L leaves the invariant intact, if nobody else has listed them.
LEMMA StartInvKept ==
    ASSUME StartInv, RCTypes', NEW L \in SUBSET Deliveries,
           \A d \in L : exec[d].state = "none" /\ event[d[1]].state = "routed",
           StartStep(L),
           \A n \in Nodes : \/ listed'[n] = NoPass
                            \/ listed'[n] = listed[n] /\ listed[n].live \cap L = {},
           toCancel' \subseteq toCancel, toFinish' \subseteq toFinish,
           toSave' \subseteq toSave,
           toDelete' = [n \in AllNodes |-> toDelete'[n]],
           \A n \in AllNodes : toDelete'[n] \in {toDelete[n], NotReading}
    PROVE  StartInv' /\ StartedOnce
<1>1. /\ RootsAreNew' /\ RowsAreRouted' /\ QueuedIsNotStarted' /\ StartedOnce
      /\ \A d \in Deliveries : exec[d].state # "none" => exec'[d].state # "none"
      /\ \A n \in Nodes, d \in Deliveries \ L : Startable(n, d) => Startable(n, d)'
  BY StartsKept DEF StartedOnce
<1>2. ListedIsNotStarted'
  <2> SUFFICES ASSUME NEW n \in Nodes
               PROVE  /\ listed'[n].live \subseteq DOMAIN listed'[n].rows
                      /\ \A d \in listed'[n].live : Startable(n, d)'
                      /\ listed'[n].live # {} => "pass" \in StaleReads
    BY DEF ListedIsNotStarted
  <2>1. CASE listed'[n] = NoPass
    BY <2>1 DEF NoPass
  <2>2. CASE listed'[n] = listed[n] /\ listed[n].live \cap L = {}
    <3>1. \A d \in listed[n].live : d \in Deliveries \ L /\ Startable(n, d)
      BY <2>2 DEF StartInv, RCTypes, ListedIsNotStarted
    <3>2. \A d \in listed[n].live : Startable(n, d)'
      BY <1>1, <3>1
    <3>3. /\ listed'[n].live \subseteq DOMAIN listed'[n].rows
          /\ listed'[n].live # {} => "pass" \in StaleReads
      BY <2>2 DEF StartInv, ListedIsNotStarted
    <3> QED  BY <2>2, <3>2, <3>3
  <2> QED  BY <2>1, <2>2
<1>3. ReadsHaveExecutions'
  <2>1. \A d \in Deliveries :
           d \in toCancel' \cup toFinish' \cup toSave' => exec'[d].state # "none"
    BY <1>1 DEF StartInv, ReadsHaveExecutions
  <2>2. \A n \in AllNodes, d \in Deliveries :
           toDelete'[n] # NotReading /\ d \in toDelete'[n] => exec'[d].state # "none"
    BY <1>1 DEF StartInv, ReadsHaveExecutions
  <2> QED  BY <2>1, <2>2 DEF ReadsHaveExecutions
<1> QED  BY <1>1, <1>2, <1>3 DEF StartInv

\* The transactions of one step.
LEMMA AtomicStartsOnce ==
    ASSUME StartInv, AtomicStep
    PROVE  StartInv' /\ StartedOnce
<1>1. RCTypes'
  BY AtomicForward DEF StartInv, RCTypes, AtomicStep, readVars
<1>2. /\ listed' = listed /\ toCancel' = toCancel /\ toFinish' = toFinish
      /\ toSave' = toSave /\ toDelete' = toDelete
      /\ toDelete = [n \in AllNodes |-> toDelete[n]]
  BY DEF AtomicStep, readVars, StartInv, ReadsHaveExecutions
<1>3. ASSUME StartStep({}) PROVE StartInv' /\ StartedOnce
  BY <1>1, <1>2, <1>3, StartInvKept
<1>4. ASSUME NEW r \in RunIds, RunStep(r) PROVE StartStep({})
  BY <1>4, RunRowsStart, DrainStarts DEF RunStep
<1>5. ASSUME NEW e \in EventIds, RouteEvent(e) PROVE StartStep({})
  BY <1>5, RouteStarts
<1>6. ASSUME NEW n \in Nodes, "pass" \notin StaleReads, ProcessNode(n)
      PROVE  StartInv' /\ StartedOnce
  <2> DEFINE rows == [d \in Window(n) |-> item[d]]
             L    == Live(Window(n))
  <2>1. /\ L \in SUBSET Deliveries /\ L \subseteq DOMAIN rows
        /\ \A d \in L : d \in Deliveries /\ Queued(d)
    BY DEF Live, Window, Actionable
  <2>2. \A d \in L : exec[d].state = "none" /\ event[d[1]].state = "routed"
    BY <2>1 DEF StartInv, QueuedIsNotStarted, RowsAreRouted
  <2>3. Dispatch(n, rows, L)
    BY <1>6 DEF ProcessNode
  <2> HIDE DEF rows, L
  <2>4. StartStep(L)
    BY <2>1, <2>3, DispatchStarts
  <2>5. \A m \in Nodes : listed'[m] = listed[m] /\ listed[m].live \cap L = {}
    BY <1>2, <1>6 DEF StartInv, ListedIsNotStarted
  <2> QED  BY <1>1, <1>2, <2>1, <2>2, <2>4, <2>5, StartInvKept
<1>7. ASSUME NEW n \in AllNodes, NodeStep(n) PROVE StartStep({})
  <2>1. CASE UpdateNode(n)
    BY <2>1, RemovalStarts DEF UpdateNode
  <2>2. CASE DeleteNode(n)
    BY <2>2, CancellingStarts DEF DeleteNode, ActiveStates
  <2> QED  BY <1>7, <2>1, <2>2 DEF NodeStep
<1>8. ASSUME NEW d \in Deliveries, DeliveryStep(d) PROVE StartStep({})
  <2>1. CASE Execute(d) \/ InvokeHook(d)
    BY <2>1, OutcomeStarts DEF Execute, InvokeHook
  <2>2. CASE Terminate(d)
    <3>1. \A x \in Deliveries \ {d} : exec'[x] = exec[x]
      BY <2>2 DEF Terminate, Finished, StartInv, RCTypes, TypeOK
    <3>2. exec'[d].state = "finished" /\ exec[d].state # "none"
      BY <2>2 DEF Terminate, Finished, StartInv, RCTypes, TypeOK, ExecRecord
    <3>3. run' = run /\ event' = event /\ item' = item
      BY <2>2 DEF Terminate
    <3> QED  BY <3>1, <3>2, <3>3, RemovalStarts
  <2>3. CASE CancelExecution(d)
    BY <2>3, CancellingStarts DEF CancelExecution
  <2>4. CASE DeleteQueueItem(d)
    <3>1. \A x \in Deliveries : item'[x] = item[x] \/ item'[x] = NoItem
      BY <2>4 DEF DeleteQueueItem, StartInv, RCTypes, TypeOK
    <3> QED  BY <2>4, <3>1, RemovalStarts DEF DeleteQueueItem
  <2> QED  BY <1>8, <2>1, <2>2, <2>3, <2>4 DEF DeliveryStep
<1> QED  BY <1>3, <1>4, <1>5, <1>6, <1>7, <1>8 DEF AtomicStep

\* A read only takes rows down that are there.
LEMMA ReadsStartNothing ==
    ASSUME StartInv, RCTypes',
           \/ \E d \in Deliveries : ReadForCancel(d) \/ ReadForFinish(d) \/ ReadForSave(d)
           \/ \E n \in AllNodes : ReadForDelete(n)
    PROVE  StartInv' /\ StartedOnce
<1>1. /\ run' = run /\ event' = event /\ item' = item /\ exec' = exec
      /\ listed' = listed
  BY DEF ReadForCancel, ReadForFinish, ReadForSave, ReadForDelete, vars
<1>2. RootsAreNew' /\ RowsAreRouted' /\ QueuedIsNotStarted' /\ ListedIsNotStarted'
  BY <1>1 DEF StartInv, RootsAreNew, RowsAreRouted, QueuedIsNotStarted,
              ListedIsNotStarted, Startable, Queued
<1>3. ASSUME NEW d \in Deliveries, ReadForCancel(d) \/ ReadForFinish(d) \/ ReadForSave(d)
      PROVE  ReadsHaveExecutions'
  BY <1>1, <1>3 DEF ReadForCancel, ReadForFinish, ReadForSave, StartInv, ReadsHaveExecutions
<1>4. ASSUME NEW n \in AllNodes, ReadForDelete(n) PROVE ReadsHaveExecutions'
  <2> DEFINE found == {d \in Deliveries : d[2] = n /\ exec[d].state \in {"pending", "started"}}
  <2>1. /\ toCancel' = toCancel /\ toFinish' = toFinish /\ toSave' = toSave
        /\ toDelete' = [toDelete EXCEPT ![n] = found]
    BY <1>4 DEF ReadForDelete
  <2>2. \A d \in found : exec[d].state # "none"
    OBVIOUS
  <2> HIDE DEF found
  <2>3. /\ toDelete'[n] = found /\ \A m \in AllNodes \ {n} : toDelete'[m] = toDelete[m]
        /\ toDelete' = [m \in AllNodes |-> toDelete'[m]]
    BY <2>1 DEF StartInv, ReadsHaveExecutions
  <2> QED  BY <1>1, <2>1, <2>2, <2>3 DEF StartInv, ReadsHaveExecutions
<1>5. StartedOnce
  BY <1>1 DEF StartedOnce
<1> QED  BY <1>2, <1>3, <1>4, <1>5 DEF StartInv

\* A pass lists items of deliveries that have not started.
LEMMA ListBacklogStarts ==
    ASSUME StartInv, NEW n \in Nodes, ListBacklog(n)
    PROVE  StartInv' /\ StartedOnce
<1> DEFINE rows == [d \in Window(n) |-> item[d]]
           L    == Live(Window(n))
<1>1. /\ run' = run /\ event' = event /\ item' = item /\ exec' = exec
      /\ toCancel' = toCancel /\ toFinish' = toFinish /\ toSave' = toSave
      /\ toDelete' = toDelete /\ "pass" \in StaleReads
  BY DEF ListBacklog, vars
<1>2. /\ L \subseteq DOMAIN rows
      /\ \A d \in L : d \in Deliveries /\ Queued(d) /\ d[2] = n
  BY DEF Live, Window, Actionable
<1>3. \A d \in L : Startable(n, d)
  BY <1>2 DEF StartInv, QueuedIsNotStarted, RowsAreRouted, Startable
<1>4. listed' = [listed EXCEPT ![n] = [rows |-> rows, live |-> L]]
  BY DEF ListBacklog
<1> HIDE DEF rows, L
<1>5. /\ listed'[n].rows = rows /\ listed'[n].live = L
      /\ \A m \in Nodes \ {n} : listed'[m] = listed[m]
  BY <1>4 DEF StartInv, RCTypes
<1>6. ListedIsNotStarted'
  BY <1>1, <1>2, <1>3, <1>5 DEF StartInv, ListedIsNotStarted, Startable
<1>7. RCTypes'
  BY ListBacklogTypes DEF StartInv
<1> QED  BY <1>1, <1>6, <1>7
         DEF StartInv, RootsAreNew, RowsAreRouted, QueuedIsNotStarted,
             ReadsHaveExecutions, Queued, StartedOnce

\* A pass that writes starts what it has listed, and its list is done with.
LEMMA DispatchListedStarts ==
    ASSUME StartInv, NEW n \in Nodes, DispatchListed(n)
    PROVE  StartInv' /\ StartedOnce
<1> DEFINE L == listed[n].live
<1>1. /\ L \in SUBSET Deliveries /\ L \subseteq DOMAIN listed[n].rows
      /\ \A d \in L : Startable(n, d)
  BY DEF StartInv, RCTypes, ListedIsNotStarted
<1>2. StartStep(L)
  BY <1>1, DispatchStarts DEF DispatchListed
<1>3. RCTypes'
  BY DispatchListedForward DEF StartInv
<1>4. listed'[n] = NoPass /\ \A m \in Nodes \ {n} : listed'[m] = listed[m]
  BY DEF DispatchListed, StartInv, RCTypes
<1>5. \A m \in Nodes \ {n} : listed[m].live \cap L = {}
  BY <1>1 DEF StartInv, ListedIsNotStarted, Startable
<1>6. /\ toCancel' = toCancel /\ toFinish' = toFinish /\ toSave' = toSave
      /\ toDelete' = toDelete /\ toDelete = [m \in AllNodes |-> toDelete[m]]
  BY DEF DispatchListed, StartInv, ReadsHaveExecutions
<1>7. \A d \in L : exec[d].state = "none" /\ event[d[1]].state = "routed"
  BY <1>1 DEF Startable
<1> HIDE DEF L
<1> QED  BY <1>1, <1>2, <1>3, <1>4, <1>5, <1>6, <1>7, StartInvKept

\* A late write moves an execution that exists.
LEMMA LateWritesStartNothing ==
    ASSUME StartInv, RCTypes',
           \/ \E d \in Deliveries : \/ RequestCancellation(d) \/ FinishRead(d)
                                    \/ SaveHook(d) \/ SaveCallback(d)
           \/ \E n \in AllNodes : DeleteListed(n)
    PROVE  StartInv' /\ StartedOnce
<1>1. listed' = listed
  BY DEF RequestCancellation, FinishRead, SaveHook, SaveCallback, DeleteListed
<1>2. ASSUME StartStep({}), toCancel' \subseteq toCancel, toFinish' \subseteq toFinish,
             toSave' \subseteq toSave, toDelete' = [n \in AllNodes |-> toDelete'[n]],
             \A n \in AllNodes : toDelete'[n] \in {toDelete[n], NotReading}
      PROVE  StartInv' /\ StartedOnce
  BY <1>1, <1>2, StartInvKept
<1>3. toDelete = [n \in AllNodes |-> toDelete[n]]
  BY DEF StartInv, ReadsHaveExecutions
<1>4. ASSUME NEW d \in Deliveries, RequestCancellation(d) PROVE StartInv' /\ StartedOnce
  <2>1. StartStep({})
    <3>1. exec[d].state # "none"
      BY <1>4 DEF RequestCancellation, StartInv, ReadsHaveExecutions
    <3> QED  BY <1>4, <3>1, CancellingStarts DEF RequestCancellation
  <2> QED  BY <1>2, <1>3, <1>4, <2>1 DEF RequestCancellation
<1>5. ASSUME NEW d \in Deliveries, FinishRead(d) PROVE StartInv' /\ StartedOnce
  <2>1. StartStep({})
    <3>1. exec[d].state # "none"
      BY <1>5 DEF FinishRead, StartInv, ReadsHaveExecutions
    <3> QED  BY <1>5, <3>1, OutcomeStarts DEF FinishRead
  <2> QED  BY <1>2, <1>3, <1>5, <2>1 DEF FinishRead
<1>6. ASSUME NEW d \in Deliveries, SaveHook(d) \/ SaveCallback(d)
      PROVE  StartInv' /\ StartedOnce
  <2>1. exec[d].state # "none"
    BY <1>6 DEF SaveHook, SaveCallback, StartInv, ReadsHaveExecutions
  <2>2. /\ \A x \in Deliveries \ {d} : exec'[x] = exec[x]
        /\ exec'[d] = exec[d] \/ exec'[d].state = "started"
    <3>1. exec \in [Deliveries -> ExecRecord]
      BY DEF StartInv, RCTypes, TypeOK
    <3> QED  BY <1>6, <3>1 DEF SaveHook, SaveCallback, ExecRecord
  <2>3. run' = run /\ event' = event /\ item' = item
    BY <1>6 DEF SaveHook, SaveCallback
  <2>4. StartStep({})
    BY <2>1, <2>2, <2>3, RemovalStarts
  <2> QED  BY <1>2, <1>3, <1>6, <2>4 DEF SaveHook, SaveCallback
<1>7. ASSUME NEW n \in AllNodes, DeleteListed(n) PROVE StartInv' /\ StartedOnce
  <2>1. \A d \in Deliveries : d \in toDelete[n] => exec[d].state # "none"
    BY <1>7 DEF DeleteListed, StartInv, ReadsHaveExecutions
  <2>2. StartStep({})
    BY <1>7, <2>1, CancellingStarts DEF DeleteListed
  <2>3. /\ toDelete' = [m \in AllNodes |-> toDelete'[m]]
        /\ \A m \in AllNodes : toDelete'[m] \in {toDelete[m], NotReading}
    BY <1>3, <1>7 DEF DeleteListed
  <2> QED  BY <1>2, <1>7, <2>2, <2>3 DEF DeleteListed
<1> QED  BY <1>4, <1>5, <1>6, <1>7

\* Nothing is queued, started or read at first.
LEMMA StartInit == RCInit => StartInv
<1> SUFFICES ASSUME RCInit PROVE StartInv
  OBVIOUS
<1>1. \A d \in Deliveries : item[d].at = 0 /\ exec[d].state = "none"
  BY DEF RCInit, Init, NoItem, NoExec
<1>2. \A r \in RunIds : event[r].state = "none"
  BY DEF RCInit, Init, NoEvent, EventIds
<1>3. \A n \in Nodes : listed[n].live = {}
  BY DEF RCInit, Idle, NoPass
<1>4. ReadsHaveExecutions
  BY DEF RCInit, Idle, ReadsHaveExecutions
<1> QED  BY <1>1, <1>2, <1>3, <1>4, RCInitTypes
         DEF StartInv, RootsAreNew, RowsAreRouted, QueuedIsNotStarted, Queued,
             ListedIsNotStarted

\* Every read-committed step starts only what nobody has started.
LEMMA StartNext == StartInv /\ [RCNext]_rcVars => StartInv' /\ StartedOnce
<1> SUFFICES ASSUME StartInv, [RCNext]_rcVars PROVE StartInv' /\ StartedOnce
  OBVIOUS
<1>1. RCTypes'
  BY RCNextForward DEF StartInv
<1>2. CASE UNCHANGED rcVars
  BY <1>1, <1>2 DEF rcVars, vars, readVars, StartInv, RootsAreNew, RowsAreRouted,
                    QueuedIsNotStarted, Queued, ListedIsNotStarted, Startable,
                    ReadsHaveExecutions, StartedOnce
<1>3. CASE AtomicStep
  BY <1>3, AtomicStartsOnce
<1>4. CASE \E n \in Nodes : ListBacklog(n) \/ DispatchListed(n)
  BY <1>4, ListBacklogStarts, DispatchListedStarts
<1>5. CASE \/ \E d \in Deliveries : ReadForCancel(d) \/ ReadForFinish(d) \/ ReadForSave(d)
           \/ \E n \in AllNodes : ReadForDelete(n)
  BY <1>1, <1>5, ReadsStartNothing
<1>6. CASE \/ \E d \in Deliveries : \/ RequestCancellation(d) \/ FinishRead(d)
                                    \/ SaveHook(d) \/ SaveCallback(d)
           \/ \E n \in AllNodes : DeleteListed(n)
  BY <1>1, <1>6, LateWritesStartNothing
<1> QED  BY <1>2, <1>3, <1>4, <1>5, <1>6 DEF RCNext

(***************************************************************************)
(* A delivery is picked up by an executor once, whichever reads other      *)
(* transactions interrupt: an execution that has left the pending state    *)
(* never comes back to it.  A pass may write long after it has listed an   *)
(* item, but it holds the lock of its node, and only the pass of its node  *)
(* starts an item; a cancelled or finished one may come back to started,   *)
(* not to pending.                                                         *)
(***************************************************************************)
THEOREM DeliveriesStartOnce == RCSpec => DeliveryStartsOnce
<1>1. StartInv /\ [RCNext]_rcVars =>
        StartInv' /\ [\A d \in Deliveries :
                        exec[d].state \notin {"none", "pending"}
                           => exec'[d].state # "pending"]_rcVars
  BY StartNext DEF StartedOnce
<1> QED  BY <1>1, StartInit, PTL DEF RCSpec, DeliveryStartsOnce

-----------------------------------------------------------------------------
(* Capacity.  A cancellation, a callback or a deletion that writes late     *)
(* takes a slot again that a finished execution had given back; with the    *)
(* other reads interrupted the queues stay within their capacity.           *)

LateReads == {"pass", "finish", "save"}

(* What a pass has listed has an age order. *)
ListedStamps ==
    \A n \in Nodes :
        /\ \A d \in listed[n].live : listed[n].rows[d].at \in Nat
        /\ \A d, x \in listed[n].live :
              listed[n].rows[d].at = listed[n].rows[x].at => d = x

(* No read of a cancellation or a deletion is ever in progress. *)
NothingReactivated ==
    /\ StaleReads \subseteq LateReads
    /\ toCancel = {}
    /\ \A n \in AllNodes : toDelete[n] = NotReading

SlotsInv ==
    /\ StartInv
    /\ CapacityInv
    /\ ListedStamps
    /\ NothingReactivated

\* The transactions of one step are steps of the run engine.
LEMMA AtomicIsNext == AtomicStep => Next
  BY DEF AtomicStep, RunStep, NodeStep, DeliveryStep, Next

\* A hook that finishes its execution late gives a slot back at most.
LEMMA FinishReadFits ==
    ASSUME SlotsInv, NEW d \in Deliveries, FinishRead(d)
    PROVE  DistinctStamps' /\ QueueWithinCapacity'
<1>1. /\ item' = item
      /\ \A x \in Deliveries \ {d} : exec'[x] = exec[x]
      /\ exec'[d].state = "finished"
  BY DEF FinishRead, Pass, Fail, Finished, SlotsInv, CapacityInv, TypeOK, ExecRecord
<1>2. \A x \in Deliveries : exec'[x].state \in ActiveStates =>
         exec[x].state \in ActiveStates /\ exec'[x].queue = exec[x].queue
  BY <1>1 DEF ActiveStates
<1>3. \A x \in Deliveries : item'[x].at \in {item[x].at, 0}
  BY <1>1
<1> QED  BY <1>2, <1>3, OthersFit DEF SlotsInv

\* A hook that saves its execution late keeps the slot it has.
LEMMA SaveHookFits ==
    ASSUME SlotsInv, NEW d \in Deliveries, SaveHook(d)
    PROVE  DistinctStamps' /\ QueueWithinCapacity'
<1>1. exec[d].state # "none"
  BY DEF SaveHook, SlotsInv, StartInv, ReadsHaveExecutions
<1>2. exec[d] \in ExecRecord
  BY DEF SlotsInv, CapacityInv, TypeOK
<1>3. /\ item' = item
      /\ \A x \in Deliveries \ {d} : exec'[x] = exec[x]
      /\ exec'[d].queue = exec[d].queue
      /\ exec[d].state = "finished" => exec'[d] = exec[d]
  BY <1>2 DEF SaveHook, SlotsInv, CapacityInv, TypeOK, ExecRecord
<1>4. exec[d].state # "finished" => exec[d].state \in ActiveStates
  BY <1>1, <1>2 DEF ExecRecord
<1>5. \A x \in Deliveries : exec'[x].state \in ActiveStates =>
         exec[x].state \in ActiveStates /\ exec'[x].queue = exec[x].queue
  BY <1>3, <1>4
<1>6. \A x \in Deliveries : item'[x].at \in {item[x].at, 0}
  BY <1>3
<1> QED  BY <1>5, <1>6, OthersFit DEF SlotsInv

\* A pass lists items in the order of their age.
LEMMA ListBacklogStamps ==
    ASSUME SlotsInv, NEW n \in Nodes, ListBacklog(n)
    PROVE  ListedStamps'
<1> DEFINE rows == [d \in Window(n) |-> item[d]]
           L    == Live(Window(n))
<1>1. \A d \in L : d \in Deliveries /\ Queued(d) /\ d[2] = n /\ rows[d] = item[d]
  BY DEF Live, Window, Actionable
<1>2. \A d \in Deliveries : item[d].at \in Nat
  BY StampType DEF SlotsInv, CapacityInv
<1>3. listed' = [listed EXCEPT ![n] = [rows |-> rows, live |-> L]]
  BY DEF ListBacklog
<1> HIDE DEF rows, L
<1>4. /\ listed'[n].rows = rows /\ listed'[n].live = L
      /\ \A m \in Nodes \ {n} : listed'[m] = listed[m]
  BY <1>3 DEF SlotsInv, StartInv, RCTypes
<1>5. \A d, x \in L : rows[d].at = rows[x].at => d = x
  BY <1>1 DEF SlotsInv, CapacityInv, DistinctStamps
<1> QED  BY <1>1, <1>2, <1>4, <1>5 DEF SlotsInv, ListedStamps

\* A pass that writes counts the executions that are active now.
LEMMA DispatchListedFits ==
    ASSUME SlotsInv, NEW n \in Nodes, DispatchListed(n)
    PROVE  DistinctStamps' /\ QueueWithinCapacity'
<1> DEFINE rows == listed[n].rows
           L    == listed[n].live
<1>1. L \in SUBSET Deliveries /\ \A d \in L : d[2] = n
  BY DEF SlotsInv, StartInv, RCTypes, ListedIsNotStarted, Startable
<1>2. /\ \A d \in L : rows[d].at \in Nat
      /\ \A d, x \in L : rows[d].at = rows[x].at => d = x
  BY DEF SlotsInv, ListedStamps
<1>3. Dispatch(n, rows, L)
  BY DEF DispatchListed
<1> HIDE DEF rows, L
<1> QED  BY <1>1, <1>2, <1>3, DispatchFits DEF SlotsInv

\* At first nothing is listed or read.
LEMMA SlotsInit == StaleReads \subseteq LateReads /\ RCInit => SlotsInv
<1> SUFFICES ASSUME StaleReads \subseteq LateReads, RCInit PROVE SlotsInv
  OBVIOUS
<1>1. CapacityInv
  BY CapacityInit DEF RCInit
<1>2. ListedStamps
  BY DEF RCInit, Idle, NoPass, ListedStamps
<1>3. NothingReactivated
  BY DEF RCInit, Idle, NothingReactivated
<1> QED  BY <1>1, <1>2, <1>3, StartInit DEF SlotsInv

\* Every step keeps every queue within its capacity.
LEMMA SlotsNext == SlotsInv /\ [RCNext]_rcVars => SlotsInv'
<1> SUFFICES ASSUME SlotsInv, [RCNext]_rcVars PROVE SlotsInv'
  OBVIOUS
<1>1. StartInv' /\ TypeOK'
  BY StartNext DEF SlotsInv, StartInv, RCTypes
<1>2. StaleReads \subseteq LateReads /\ toCancel = {}
      /\ (\A m \in AllNodes : toDelete[m] = NotReading)
  BY DEF SlotsInv, NothingReactivated
<1>3. ASSUME vars' = vars PROVE CapacityInv'
  BY <1>3 DEF vars, SlotsInv, CapacityInv, TypeOK, DistinctStamps, Queued,
              QueueWithinCapacity, ActiveInQueue
<1>4. ASSUME toCancel' = toCancel, toDelete' = toDelete PROVE NothingReactivated'
  BY <1>2, <1>4 DEF NothingReactivated
<1>5. ASSUME listed' = listed PROVE ListedStamps'
  BY <1>5 DEF SlotsInv, ListedStamps
<1>6. CASE UNCHANGED rcVars
  BY <1>1, <1>3, <1>4, <1>5, <1>6 DEF rcVars, readVars, SlotsInv
<1>7. CASE AtomicStep
  <2>1. CapacityInv'
    BY <1>7, AtomicIsNext, CapacityNext DEF SlotsInv
  <2> QED  BY <1>1, <1>4, <1>5, <1>7, <2>1 DEF AtomicStep, readVars, SlotsInv
<1>8. ASSUME NEW n \in Nodes, ListBacklog(n) PROVE SlotsInv'
  BY <1>1, <1>3, <1>4, <1>8, ListBacklogStamps DEF ListBacklog, SlotsInv
<1>9. ASSUME NEW n \in Nodes, DispatchListed(n) PROVE SlotsInv'
  <2>1. CapacityInv'
    BY <1>1, <1>9, DispatchListedFits DEF CapacityInv
  <2>2. ListedStamps'
    <3>1. listed'[n] = NoPass /\ \A m \in Nodes \ {n} : listed'[m] = listed[m]
      BY <1>9 DEF DispatchListed, SlotsInv, StartInv, RCTypes
    <3> QED  BY <3>1 DEF NoPass, SlotsInv, ListedStamps
  <2> QED  BY <1>1, <1>4, <1>9, <2>1, <2>2 DEF DispatchListed, SlotsInv
<1>10. ASSUME NEW d \in Deliveries, ReadForFinish(d) \/ ReadForSave(d) PROVE SlotsInv'
  BY <1>1, <1>3, <1>4, <1>5, <1>10 DEF ReadForFinish, ReadForSave, SlotsInv
<1>11. ASSUME NEW d \in Deliveries, FinishRead(d) PROVE SlotsInv'
  <2>1. CapacityInv'
    BY <1>1, <1>11, FinishReadFits DEF CapacityInv
  <2> QED  BY <1>1, <1>4, <1>5, <1>11, <2>1 DEF FinishRead, SlotsInv
<1>12. ASSUME NEW d \in Deliveries, SaveHook(d) PROVE SlotsInv'
  <2>1. CapacityInv'
    BY <1>1, <1>12, SaveHookFits DEF CapacityInv
  <2> QED  BY <1>1, <1>4, <1>5, <1>12, <2>1 DEF SaveHook, SlotsInv
<1>13. \A d \in Deliveries : ~ReadForCancel(d) /\ ~RequestCancellation(d) /\ ~SaveCallback(d)
  BY <1>2 DEF ReadForCancel, RequestCancellation, SaveCallback, LateReads
<1>14. \A n \in AllNodes : ~ReadForDelete(n) /\ ~DeleteListed(n)
  BY <1>2 DEF ReadForDelete, DeleteListed, LateReads
<1> QED  BY <1>6, <1>7, <1>8, <1>9, <1>10, <1>11, <1>12, <1>13, <1>14 DEF RCNext

(***************************************************************************)
(* A queue of a node stays within the node's concurrency when a pass is    *)
(* interrupted between its list and its writes, and a hook between its     *)
(* check and its result: the pass counts when it writes, under the lock of *)
(* its node, and a late result only gives a slot back.                     *)
(***************************************************************************)
THEOREM LatePassesFit == StaleReads \subseteq LateReads /\ RCSpec => []QueueWithinCapacity
<1>1. SlotsInv => QueueWithinCapacity
  BY DEF SlotsInv, CapacityInv
<1> QED  BY <1>1, SlotsInit, SlotsNext, PTL DEF RCSpec

-----------------------------------------------------------------------------
(* Rows.  A transaction that was interrupted writes to rows it does not     *)
(* know any more, and yet moves them as one of the run engine may.          *)

(* What a pass has listed and not kept is of runs that are being cancelled. *)
DroppedAreCancelling ==
    \A n \in Nodes, d \in Deliveries : d \in DOMAIN listed[n].rows \ listed[n].live =>
        /\ event[d[1]].state = "routed"
        /\ Queued(d) => run[RunOf(d)].state = "cancelling"

(* Only reads that may be interrupted are in progress, and only where they may be. *)
ReadsAreAllowed ==
    /\ \A n \in Nodes : listed[n] # NoPass => "pass" \in StaleReads
    /\ toCancel # {} => "cancel" \in StaleReads
    /\ toFinish # {} => "finish" \in StaleReads
    /\ toSave # {} => {"save", "callback"} \cap StaleReads # {}
    /\ \A n \in AllNodes : toDelete[n] # NotReading =>
          "delete" \in StaleReads /\ n \in Deletable

LateRowsInv ==
    /\ StartInv
    /\ RowsInv
    /\ DroppedAreCancelling
    /\ ReadsAreAllowed

\* What every transaction relies on holds whatever is interrupted.
LEMMA LateRowsFit == LateRowsInv => RowsFit
  BY DEF LateRowsInv, StartInv, RCTypes, RowsFit

\* A step that leaves runs, events and nodes alone, and starts or queues nothing.
LEMMA QuietMoves ==
    ASSUME run' = run, event' = event, node' = node, item' = item,
           \A d \in Deliveries : exec'[d] = exec[d] \/ exec[d].state # "none"
    PROVE  RowsStep /\ InOrder
  BY NothingEnds, NothingAdmitted DEF RowsStep, ItemsMove, NodesMove

\* A late deletion takes the items of a node that may be deleted.
LEMMA DeleteListedMoves ==
    ASSUME LateRowsInv, NEW n \in AllNodes, DeleteListed(n)
    PROVE  RowsStep /\ InOrder
<1>1. run' = run /\ event' = event
  BY DEF DeleteListed
<1>2. node'[n] = "deleted" /\ \A m \in AllNodes \ {n} : node'[m] = node[m]
  BY DEF DeleteListed, LateRowsInv, StartInv, RCTypes, TypeOK
<1>3. n \in Deletable
  BY DEF DeleteListed, LateRowsInv, ReadsAreAllowed
<1>4. NodesMove
  BY <1>2, <1>3 DEF NodesMove
<1>5. ItemsMove
  <2>1. \A d \in Deliveries : item'[d] = IF d[2] = n THEN NoItem ELSE item[d]
    BY DEF DeleteListed
  <2> QED  BY <1>2, <2>1 DEF ItemsMove, MayLose, NoItem
<1>6. InOrder
  <2>1. \A d \in Deliveries : exec'[d] = exec[d] \/ exec[d].state # "none"
    BY DEF DeleteListed, CancellingExecs, LateRowsInv, StartInv, ReadsHaveExecutions
  <2> QED  BY <2>1, NothingAdmitted
<1> QED  BY <1>1, <1>4, <1>5, <1>6, NothingEnds DEF RowsStep

\* A late pass finds the runs it did not keep items of still cancelling.
LEMMA DispatchListedMoves ==
    ASSUME LateRowsInv, NEW n \in Nodes, DispatchListed(n)
    PROVE  RowsStep
<1> DEFINE rows == listed[n].rows
           L    == listed[n].live
<1>1. L \in SUBSET Deliveries /\ \A d \in L : event[d[1]].state = "routed"
  BY DEF LateRowsInv, StartInv, RCTypes, ListedIsNotStarted, Startable
<1>2. \A d \in Deliveries : d \in DOMAIN rows \ L /\ Queued(d) =>
         run[RunOf(d)].state = "cancelling"
  BY DEF LateRowsInv, DroppedAreCancelling
<1>3. Dispatch(n, rows, L)
  BY DEF DispatchListed
<1> HIDE DEF rows, L
<1> QED  BY <1>1, <1>2, <1>3, LateRowsFit, DispatchMoves

\* Every step moves the rows as the engine may, interrupted or not.
LEMMA LateStepMoves ==
    ASSUME LateRowsInv, [RCNext]_rcVars
    PROVE  RowsStep /\ ("pass" \notin StaleReads => InOrder)
<1>1. ASSUME vars' = vars PROVE RowsStep /\ InOrder
  BY <1>1, QuietMoves DEF vars
<1>2. CASE UNCHANGED rcVars
  BY <1>1, <1>2 DEF rcVars
<1>3. CASE AtomicStep
  BY <1>3, AtomicIsNext, LateRowsFit, EveryStepIsGood DEF GoodStep
<1>4. CASE \E n \in Nodes : ListBacklog(n)
  BY <1>1, <1>4 DEF ListBacklog
<1>5. CASE \E n \in Nodes : DispatchListed(n)
  BY <1>5, DispatchListedMoves DEF DispatchListed, LateRowsInv, ReadsAreAllowed
<1>6. CASE \/ \E d \in Deliveries : ReadForCancel(d) \/ ReadForFinish(d) \/ ReadForSave(d)
           \/ \E n \in AllNodes : ReadForDelete(n)
  BY <1>1, <1>6 DEF ReadForCancel, ReadForFinish, ReadForSave, ReadForDelete
<1>7. CASE \E n \in AllNodes : DeleteListed(n)
  BY <1>7, DeleteListedMoves
<1>8. ASSUME NEW d \in Deliveries, FinishRead(d) PROVE RowsStep /\ InOrder
  <2>1. exec[d].state # "none"
    BY <1>8 DEF FinishRead, LateRowsInv, StartInv, ReadsHaveExecutions
  <2> QED  BY <1>8, <2>1, LateRowsFit, OutcomeMoves DEF FinishRead
<1>9. ASSUME NEW d \in Deliveries, RequestCancellation(d) \/ SaveHook(d) \/ SaveCallback(d)
      PROVE  RowsStep /\ InOrder
  <2>1. exec[d].state # "none"
    BY <1>9 DEF RequestCancellation, SaveHook, SaveCallback, LateRowsInv, StartInv,
                ReadsHaveExecutions
  <2>2. \A x \in Deliveries \ {d} : exec'[x] = exec[x]
    BY <1>9 DEF RequestCancellation, SaveHook, SaveCallback, CancellingExecs,
                LateRowsInv, StartInv, RCTypes, TypeOK
  <2> QED  BY <1>9, <2>1, <2>2, QuietMoves DEF RequestCancellation, SaveHook, SaveCallback
<1> QED  BY <1>2, <1>3, <1>4, <1>5, <1>6, <1>7, <1>8, <1>9 DEF RCNext

\* An item of a cancelling run goes away, or the run goes on cancelling.
LEMMA DroppedStay ==
    ASSUME RowsInv, RowsStep, NEW d \in Deliveries, event[d[1]].state = "routed",
           Queued(d) => run[RunOf(d)].state = "cancelling"
    PROVE  /\ event'[d[1]].state = "routed"
           /\ Queued(d)' => run'[RunOf(d)'].state = "cancelling"
<1>1. d[1] \in EventIds /\ event'[d[1]] = event[d[1]]
  BY RoutedEventStays DEF Deliveries
<1>2. RunOf(d)' = RunOf(d) /\ RunOf(d) \in RunIds
  BY <1>1 DEF RunOf, RowsInv
<1>3. ASSUME Queued(d)' PROVE run'[RunOf(d)].state = "cancelling"
  <2>1. Queued(d)
    BY <1>1, <1>3 DEF RowsStep, ItemsMove, Queued
  <2>2. HasOpenWork(RunOf(d))
    BY <2>1 DEF HasOpenWork
  <2> QED  BY <1>2, <2>1, <2>2 DEF RowsStep, RunsMove
<1> QED  BY <1>1, <1>2, <1>3

\* What is listed stays until it is written.
LEMMA ListedMoves ==
    ASSUME LateRowsInv, [RCNext]_rcVars
    PROVE  /\ \A n \in Nodes : listed'[n] \in {listed[n], NoPass} \/ ListBacklog(n)
           /\ ReadsAreAllowed'
<1>1. /\ listed = [n \in Nodes |-> listed[n]]
      /\ toDelete = [n \in AllNodes |-> toDelete[n]]
      /\ ReadsAreAllowed
  BY DEF LateRowsInv, StartInv, RCTypes, ReadsHaveExecutions
<1>2. CASE UNCHANGED rcVars \/ AtomicStep
  BY <1>1, <1>2 DEF rcVars, readVars, AtomicStep, ReadsAreAllowed
<1>3. ASSUME NEW n \in Nodes, ListBacklog(n) \/ DispatchListed(n)
      PROVE  /\ \A m \in Nodes : listed'[m] \in {listed[m], NoPass} \/ ListBacklog(m)
             /\ ReadsAreAllowed'
  BY <1>1, <1>3 DEF ListBacklog, DispatchListed, ReadsAreAllowed
<1>4. ASSUME NEW n \in AllNodes, ReadForDelete(n) \/ DeleteListed(n)
      PROVE  listed' = listed /\ ReadsAreAllowed'
  BY <1>1, <1>4 DEF ReadForDelete, DeleteListed, ReadsAreAllowed
<1>5. ASSUME NEW d \in Deliveries,
             \/ ReadForCancel(d) \/ RequestCancellation(d)
             \/ ReadForFinish(d) \/ FinishRead(d)
             \/ ReadForSave(d) \/ SaveHook(d) \/ SaveCallback(d)
      PROVE  listed' = listed /\ ReadsAreAllowed'
  BY <1>1, <1>5 DEF ReadForCancel, RequestCancellation, ReadForFinish, FinishRead,
                    ReadForSave, SaveHook, SaveCallback, ReadsAreAllowed
<1> QED  BY <1>2, <1>3, <1>4, <1>5 DEF RCNext

\* Nothing is listed at first.
LEMMA LateRowsInit == RCInit => LateRowsInv
<1> SUFFICES ASSUME RCInit PROVE LateRowsInv
  OBVIOUS
<1>1. StartInv
  BY StartInit
<1>2. RowsInv
  BY EngineInit DEF RCInit, EngineInv
<1>3. \A n \in Nodes : listed[n] = NoPass
  BY DEF RCInit, Idle
<1>4. DroppedAreCancelling
  BY <1>3 DEF DroppedAreCancelling, NoPass
<1>5. ReadsAreAllowed
  BY DEF RCInit, Idle, ReadsAreAllowed
<1> QED  BY <1>1, <1>2, <1>4, <1>5 DEF LateRowsInv

\* The rows stay as every transaction relies on.
LEMMA LateRowsNext ==
    LateRowsInv /\ [RCNext]_rcVars =>
        LateRowsInv' /\ RowsStep /\ ("pass" \notin StaleReads => InOrder)
<1> SUFFICES ASSUME LateRowsInv, [RCNext]_rcVars
             PROVE  LateRowsInv' /\ RowsStep /\ ("pass" \notin StaleReads => InOrder)
  OBVIOUS
<1>1. RowsStep /\ ("pass" \notin StaleReads => InOrder)
  BY LateStepMoves
<1>2. StartInv'
  BY StartNext DEF LateRowsInv
<1>3. RowsInv'
  BY <1>1, <1>2, RowsKept DEF LateRowsInv, StartInv
<1>4. DroppedAreCancelling'
  <2> SUFFICES ASSUME NEW n \in Nodes, NEW d \in Deliveries,
                      d \in DOMAIN listed'[n].rows \ listed'[n].live
               PROVE  /\ event'[d[1]].state = "routed"
                      /\ Queued(d)' => run'[RunOf(d)'].state = "cancelling"
    BY DEF DroppedAreCancelling
  <2>1. CASE listed'[n] = listed[n]
    <3>1. event[d[1]].state = "routed" /\ (Queued(d) => run[RunOf(d)].state = "cancelling")
      BY <2>1 DEF LateRowsInv, DroppedAreCancelling
    <3> QED  BY <1>1, <3>1, DroppedStay DEF LateRowsInv
  <2>2. CASE ListBacklog(n)
    <3>1. listed'[n] = [rows |-> [x \in Window(n) |-> item[x]], live |-> Live(Window(n))]
      BY <2>2 DEF ListBacklog, LateRowsInv, StartInv, RCTypes
    <3>2. d \in Window(n) \ Live(Window(n))
      BY <3>1
    <3>3. event[d[1]].state = "routed" /\ run[RunOf(d)].state = "cancelling"
      BY <3>2 DEF Live, Window, Actionable, LateRowsInv, RowsInv, RowsAreRouted
    <3> QED  BY <1>1, <3>3, DroppedStay DEF LateRowsInv
  <2>3. CASE listed'[n] = NoPass
    BY <2>3 DEF NoPass
  <2> QED  BY <2>1, <2>2, <2>3, ListedMoves
<1>5. ReadsAreAllowed'
  BY ListedMoves
<1> QED  BY <1>1, <1>2, <1>3, <1>4, <1>5 DEF LateRowsInv

(***************************************************************************)
(* No item is lost, whichever reads other transactions interrupt: a pass   *)
(* deletes what it has listed and not kept without asking again, but the   *)
(* runs of those items are still being cancelled then.                     *)
(***************************************************************************)
THEOREM LateWritesLoseNoItem == RCSpec => ItemsAreNotLost
<1>1. LateRowsInv /\ [RCNext]_rcVars => \A d \in Deliveries : Queued(d) =>
         \/ item'[d].at = item[d].at
         \/ exec'[d].state # "none"
         \/ run'[RunOf(d)].state = "cancelling"
         \/ node'[d[2]] = "deleted"
         \/ DeleteQueueItem(d)
  BY LateRowsNext, ItemsStayIn DEF LateRowsInv, RowsInv
<1>2. LateRowsInv /\ [RCNext]_rcVars => LateRowsInv'
  BY LateRowsNext
<1> QED  BY <1>1, <1>2, LateRowsInit, PTL DEF RCSpec, ItemsAreNotLost

(***************************************************************************)
(* Nor does a failure start runs in a circle, while no On Error node is    *)
(* deleted: a late failure is looked up by its run, which keeps its node.  *)
(***************************************************************************)
THEOREM LateFailuresDoNotCascade == OnErrorNodesStay /\ RCSpec => []NoErrorCascade
<1> SUFFICES ASSUME OnErrorNodesStay PROVE RCSpec => []NoErrorCascade
  OBVIOUS
<1>1. LateRowsInv /\ CascadeInv /\ [RCNext]_rcVars => LateRowsInv' /\ CascadeInv'
  BY LateRowsNext, CascadeKept DEF LateRowsInv
<1>2. RCInit => LateRowsInv /\ CascadeInv
  BY LateRowsInit, CascadeInit DEF RCInit
<1>3. CascadeInv => NoErrorCascade
  BY DEF CascadeInv
<1> QED  BY <1>1, <1>2, <1>3, PTL DEF RCSpec

(***************************************************************************)
(* Queues are first in, first out as long as no pass is interrupted,       *)
(* whatever else is.                                                       *)
(***************************************************************************)
THEOREM WholePassesAreFifo == "pass" \notin StaleReads /\ RCSpec => PerQueueFifo
<1> SUFFICES ASSUME "pass" \notin StaleReads PROVE RCSpec => PerQueueFifo
  OBVIOUS
<1>1. LateRowsInv /\ [RCNext]_rcVars => \A d, x \in Deliveries :
         (Admits(d) /\ x[2] = d[2] /\ item'[x].queue = exec'[d].queue)
            => ~(item'[x].at # 0 /\ item'[x].at < item[d].at)
  BY LateRowsNext DEF InOrder
<1>2. LateRowsInv /\ [RCNext]_rcVars => LateRowsInv'
  BY LateRowsNext
<1> QED  BY <1>1, <1>2, LateRowsInit, PTL DEF RCSpec, PerQueueFifo

-----------------------------------------------------------------------------
(* Cancelling runs.  A late cancellation may bring back a finished          *)
(* execution, but only for the terminator.                                  *)

\* Executions that are cancelled leave a cancelling run drained.
LEMMA LateCancelKeeps ==
    ASSUME RunInv({"cancelling"}), TypeOK', run' = run, event' = event,
           NEW D, exec' = CancellingExecs(D), \A d \in Deliveries : Queued(d)' => Queued(d)
    PROVE  RunInv({"cancelling"})'
<1>1. NewRunHasNoEvents'
  BY DEF RunInv, NewRunHasNoEvents
<1>2. \A d \in Deliveries : exec'[d].state \in {"pending", "started"} =>
         exec[d].state \in {"pending", "started"}
  BY DEF CancellingExecs, RunInv, TypeOK, ExecRecord
<1>3. ASSUME NEW r \in RunIds, run'[r].state = "cancelling" PROVE Drained(r)'
  <2>1. Drained(r)
    BY <1>3 DEF RunInv, CancellingRunIsDrained, Drained
  <2> QED  BY <1>2, <2>1 DEF Drained, RunOf
<1> QED  BY <1>1, <1>3, RunInvStep DEF Settled

\* With no other read interrupted, nothing else is written late.
LEMMA LateCancelNext ==
    ASSUME StaleReads \subseteq {"cancel", "delete"}
    PROVE  LateRowsInv /\ RunInv({"cancelling"}) /\ [RCNext]_rcVars =>
              RunInv({"cancelling"})'
<1> SUFFICES ASSUME LateRowsInv, RunInv({"cancelling"}), [RCNext]_rcVars
             PROVE  RunInv({"cancelling"})'
  OBVIOUS
<1>1. ReadsAreAllowed /\ TypeOK'
  BY LateRowsNext DEF LateRowsInv, StartInv, RCTypes
<1>2. RunInv({"cancelling"}) /\ [Next]_vars => RunInv({"cancelling"})'
  BY RunInvNext
<1>3. CASE vars' = vars \/ AtomicStep
  BY <1>2, <1>3, AtomicIsNext
<1>4. ASSUME NEW d \in Deliveries, RequestCancellation(d) PROVE RunInv({"cancelling"})'
  BY <1>1, <1>4, LateCancelKeeps DEF RequestCancellation, Queued
<1>5. ASSUME NEW n \in AllNodes, DeleteListed(n) PROVE RunInv({"cancelling"})'
  <2>1. \A d \in Deliveries : Queued(d)' => Queued(d)
    BY <1>5 DEF DeleteListed, Queued, NoItem
  <2> QED  BY <1>1, <1>5, <2>1, LateCancelKeeps DEF DeleteListed
<1>6. /\ \A n \in Nodes : ~DispatchListed(n)
      /\ \A d \in Deliveries : ~FinishRead(d) /\ ~SaveHook(d) /\ ~SaveCallback(d)
  BY <1>1 DEF ReadsAreAllowed, DispatchListed, FinishRead, SaveHook, SaveCallback
<1>7. \/ vars' = vars \/ AtomicStep
      \/ \E n \in AllNodes : DeleteListed(n)
      \/ \E d \in Deliveries : RequestCancellation(d)
  BY <1>6 DEF RCNext, rcVars, ListBacklog, ReadForDelete, ReadForCancel, ReadForFinish,
              ReadForSave
<1> QED  BY <1>3, <1>4, <1>5, <1>7

(***************************************************************************)
(* A cancelling run stays drained when a cancellation of an execution or a *)
(* deletion of a node is interrupted between what it reads and what it     *)
(* writes: it may make an execution of the run wait for the terminator     *)
(* again, not for a worker that would go on with it.                       *)
(***************************************************************************)
THEOREM LateCancelsKeepRunsDrained ==
    StaleReads \subseteq {"cancel", "delete"} /\ RCSpec => []CancellingRunIsDrained
<1> SUFFICES ASSUME StaleReads \subseteq {"cancel", "delete"}
             PROVE  RCSpec => []CancellingRunIsDrained
  OBVIOUS
<1>1. LateRowsInv /\ RunInv({"cancelling"}) /\ [RCNext]_rcVars =>
         LateRowsInv' /\ RunInv({"cancelling"})'
  BY LateRowsNext, LateCancelNext
<1>2. RCInit => LateRowsInv /\ RunInv({"cancelling"})
  <2>1. Init => RunInv({"cancelling"})
    BY RunInvInit
  <2> QED  BY <2>1, LateRowsInit DEF RCInit
<1>3. RunInv({"cancelling"}) => CancellingRunIsDrained
  BY DEF RunInv
<1> QED  BY <1>1, <1>2, <1>3, PTL DEF RCSpec

-----------------------------------------------------------------------------
(* Finished runs.  A hook that saves late asks whether its execution is     *)
(* finished, so it brings back none.                                        *)

\* It moves an execution that is active, and nothing else: a good step.
LEMMA SaveHookMoves ==
    ASSUME LateRowsInv, NEW d \in Deliveries, SaveHook(d)
    PROVE  /\ run' = run /\ event' = event /\ item' = item
           /\ \A x \in Deliveries : exec'[x] = exec[x] \/ exec[x].state \in ActiveStates
           /\ GoodStep
<1>1. exec \in [Deliveries -> ExecRecord] /\ exec[d].state # "none"
  BY DEF SaveHook, LateRowsInv, StartInv, RCTypes, TypeOK, ReadsHaveExecutions
<1>2. exec[d].state \in ActiveStates \cup {"finished"}
  BY <1>1 DEF ExecRecord
<1>3. \A x \in Deliveries :
         \/ exec'[x] = exec[x]
         \/ exec[x].state \in ActiveStates /\ exec'[x].result = exec[x].result
  BY <1>1, <1>2 DEF SaveHook, ExecRecord
<1>4. run' = run /\ event' = event /\ item' = item /\ node' = node
  BY DEF SaveHook
<1>5. RowsStep /\ InOrder
  BY <1>3, <1>4, QuietMoves DEF ActiveStates
<1>6. RunsEnd
  BY <1>4, NothingEnds DEF RunsEnd
<1> QED  BY <1>3, <1>4, <1>5, <1>6 DEF GoodStep, ExecsMove, ExecMoves

\* So it gives no run work that had none.
LEMMA SaveHookSteps ==
    ASSUME LateRowsInv, LifeInv, TypeOK', NEW d \in Deliveries, SaveHook(d)
    PROVE  IdleInv' /\ \A q \in RunIds : LifeStep(q)
<1>1. /\ run' = run /\ event' = event /\ item' = item
      /\ \A x \in Deliveries : exec'[x] = exec[x] \/ exec[x].state \in ActiveStates
  BY SaveHookMoves
<1>2. \A q \in RunIds : Steady(q)
  BY <1>1 DEF Steady, HasOpenWork, RunOf, Queued
<1>3. \A q \in RunIds : LifeStep(q)
  BY <1>2, SteadyIsLifeStep DEF LifeInv
<1>4. FinishedRunHasNoOpenWork'
  BY <1>2 DEF Steady, LifeInv, IdleInv, FinishedRunHasNoOpenWork
<1>5. NewRunHasNoEvents'
  BY <1>1 DEF LifeInv, IdleInv, NewRunHasNoEvents
<1> QED  BY <1>3, <1>4, <1>5 DEF IdleInv

\* With no other read interrupted, every step is one of the life cycle.
LEMMA LateSaveNext ==
    ASSUME StaleReads \subseteq {"save"}
    PROVE  LateRowsInv /\ LifeInv /\ [RCNext]_rcVars =>
              /\ LateRowsInv' /\ LifeInv'
              /\ [Lifecycle!LifecycleNext]_(Lifecycle!lifecycleVars)
<1> SUFFICES ASSUME LateRowsInv, LifeInv, [RCNext]_rcVars
             PROVE  LifeInv' /\ [Lifecycle!LifecycleNext]_(Lifecycle!lifecycleVars)
  BY LateRowsNext
<1>1. ReadsAreAllowed /\ TypeOK'
  BY LateRowsNext DEF LateRowsInv, StartInv, RCTypes
<1>2. CASE vars' = vars \/ AtomicStep
  BY <1>2, AtomicIsNext, LifeNext
<1>3. ASSUME NEW d \in Deliveries, SaveHook(d)
      PROVE  LifeInv' /\ Lifecycle!LifecycleNext
  BY <1>1, <1>3, SaveHookSteps, LifeStepsKeep
<1>4. /\ \A n \in Nodes : ~DispatchListed(n)
      /\ \A n \in AllNodes : ~DeleteListed(n)
      /\ \A d \in Deliveries : ~RequestCancellation(d) /\ ~FinishRead(d) /\ ~SaveCallback(d)
  BY <1>1 DEF ReadsAreAllowed, DispatchListed, DeleteListed, RequestCancellation,
              FinishRead, SaveCallback
<1>5. \/ vars' = vars \/ AtomicStep
      \/ \E d \in Deliveries : SaveHook(d)
  BY <1>4 DEF RCNext, rcVars, ListBacklog, ReadForDelete, ReadForCancel, ReadForFinish,
              ReadForSave
<1> QED  BY <1>2, <1>3, <1>5

\* Nothing has happened at first.
LEMMA LateSaveInit ==
    RCInit => LateRowsInv /\ LifeInv /\ Lifecycle!LifecycleInit
  BY LateRowsInit, LifeInit DEF RCInit

(***************************************************************************)
(* A finished run stays without work when a hook that saves its execution  *)
(* is interrupted: NodeRequestWorker saves nothing once it is finished.    *)
(***************************************************************************)
THEOREM LateSavesKeepRunsIdle ==
    StaleReads \subseteq {"save"} /\ RCSpec => []FinishedRunHasNoOpenWork
<1> SUFFICES ASSUME StaleReads \subseteq {"save"} PROVE RCSpec => []FinishedRunHasNoOpenWork
  OBVIOUS
<1>1. LifeInv => FinishedRunHasNoOpenWork
  BY DEF LifeInv, IdleInv
<1> QED  BY <1>1, LateSaveInit, LateSaveNext, PTL DEF RCSpec

(***************************************************************************)
(* Every run lives by the life cycle then.                                 *)
(***************************************************************************)
THEOREM LateSavesImplementLifecycle ==
    StaleReads \subseteq {"save"} /\ RCSpec => ImplementsLifecycle
<1> SUFFICES ASSUME StaleReads \subseteq {"save"} PROVE RCSpec => ImplementsLifecycle
  OBVIOUS
<1> QED  BY LateSaveInit, LateSaveNext, PTL
         DEF RCSpec, ImplementsLifecycle, Lifecycle!LifecycleSpec

-----------------------------------------------------------------------------
(* Results.  A hook that finishes its execution late may give a finished    *)
(* run work again, but only a run that was cancelled or has failed.         *)

HooksOnly == StaleReads \subseteq {"finish", "save"}

ActiveHasNoResult ==
    \A d \in Deliveries : exec[d].state # "finished" => exec[d].result = "none"

PassedHasNoWork ==
    \A r \in RunIds : run[r].result = "passed" => ~HasOpenWork(r)

(* What a hook is about to finish is active, or the terminator was faster. *)
StillFinishing(d) ==
    exec[d].state \in {"started", "cancelling"} \/ exec[d].result = "cancelled"

ResultsInv ==
    /\ LateRowsInv
    /\ UnfinishedRunHasNoResult
    /\ ActiveHasNoResult
    /\ PassedHasNoWork
    /\ \A d \in Deliveries : d \in toFinish => StillFinishing(d)
    /\ ResultMatchesExecutions

\* A failure in a run stays: its execution is left alone, the run keeps its errors.
LEMMA FailureStays ==
    ASSUME RowsInv, RowsStep, NEW r \in RunIds, Forward(r), Justified(r),
           run[r].state = "finished", run[r].result # "passed",
           \A d \in Deliveries : exec[d].result = "failed" => exec'[d] = exec[d]
    PROVE  Justified(r)' /\ run'[r].result # "passed"
<1>1. run'[r].result = run[r].result /\ (run[r].errors => run'[r].errors)
  BY DEF Forward, Ahead, RowsStep, RunsMove
<1>2. ASSUME NEW d \in Deliveries, RunOf(d) = r, exec[d].result = "failed"
      PROVE  RunOf(d)' = r /\ exec'[d].result = "failed"
  <2>1. d[1] \in EventIds /\ event[d[1]].run = r /\ r # NoRun
    BY <1>2, IdAssumption DEF Deliveries, RunOf, NoRun
  <2>2. event[d[1]].state # "none"
    BY <2>1 DEF RowsInv
  <2>3. event'[d[1]].run = r
    BY <2>1, <2>2 DEF RowsStep, EventsMove
  <2> QED  BY <1>2, <2>3 DEF RunOf
<1> QED  BY <1>1, <1>2 DEF Justified

\* A step that leaves passed runs alone keeps results justified.
LEMMA ResultStays ==
    ASSUME ResultsInv, RowsStep, UnfinishedRunHasNoResult', NEW r \in RunIds, Forward(r),
           run[r].state # "finished" \/ run[r].result = "passed" => RunEnds(r),
           run[r].result = "passed" =>
              \A d \in Deliveries : RunOf(d) = r => ExecMoves(d),
           \A d \in Deliveries : exec[d].result = "failed" => exec'[d] = exec[d]
    PROVE  Justified(r)' /\ (run'[r].result = "passed" => ~HasOpenWork(r)')
<1>1. TypeOK /\ RowsInv /\ Justified(r)
  BY ResultsJustified DEF ResultsInv, LateRowsInv, StartInv, RCTypes
<1>2. CASE run[r].state = "finished" /\ run[r].result = "passed"
  <2>1. ~HasOpenWork(r)
    BY <1>2 DEF ResultsInv, PassedHasNoWork
  <2> QED  BY <1>1, <1>2, <2>1, JustifiedKept, FinishedRunIsLeftAlone
<1>3. CASE run[r].state = "finished" /\ run[r].result # "passed"
  BY <1>1, <1>3, FailureStays
<1>4. CASE run[r].state # "finished"
  <2>1. Justified(r)'
    BY <1>1, <1>4, JustifiedKept
  <2>2. ASSUME run'[r].result = "passed" PROVE ~HasOpenWork(r)'
    <3>1. run'[r].state = "finished"
      BY <2>2 DEF UnfinishedRunHasNoResult
    <3>2. ~HasOpenWork(r) /\ event' = event /\ item' = item /\ exec' = exec
      BY <1>4, <2>2, <3>1 DEF RunEnds, EndsRight
    <3> QED  BY <3>2 DEF HasOpenWork, RunOf, Queued
  <2> QED  BY <2>1, <2>2
<1> QED  BY <1>2, <1>3, <1>4

\* Whatever is interrupted, a run gets its result when it finishes.
LEMMA NoEarlyResult ==
    ASSUME UnfinishedRunHasNoResult, RowsStep, \A r \in RunIds : Forward(r)
    PROVE  UnfinishedRunHasNoResult'
<1> SUFFICES ASSUME NEW r \in RunIds, run'[r].state # "finished"
             PROVE  run'[r].result = "none"
  BY DEF UnfinishedRunHasNoResult
<1>1. run[r].state = "finished" => run'[r].state = "finished"
  BY DEF Forward, Ahead
<1>2. run[r].result = "none"
  BY <1>1 DEF UnfinishedRunHasNoResult
<1> QED  BY <1>2 DEF RowsStep, RunsMove

\* A good step keeps what the results rest on, ...
LEMMA GoodStepKeepsResults ==
    ASSUME ResultsInv, GoodStep, \A r \in RunIds : Forward(r)
    PROVE  /\ UnfinishedRunHasNoResult' /\ ActiveHasNoResult'
           /\ \A r \in RunIds :
                 Justified(r)' /\ (run'[r].result = "passed" => ~HasOpenWork(r)')
<1>1. RowsStep /\ ExecsMove /\ RunsEnd
  BY DEF GoodStep
<1>2. UnfinishedRunHasNoResult'
  BY <1>1, NoEarlyResult DEF ResultsInv
<1>3. \A d \in Deliveries : Queued(d) => exec[d].state = "none"
  BY DEF ResultsInv, LateRowsInv, StartInv, QueuedIsNotStarted
<1>4. \A d \in Deliveries :
         \/ exec'[d] = exec[d]
         \/ /\ exec[d].result = "none"
            /\ exec'[d].state # "finished" => exec'[d].result = "none"
  BY <1>1, <1>3 DEF ExecsMove, ExecMoves, ActiveStates, ResultsInv, ActiveHasNoResult
<1>5. ActiveHasNoResult'
  BY <1>4 DEF ResultsInv, ActiveHasNoResult
<1>6. ASSUME NEW r \in RunIds
      PROVE  Justified(r)' /\ (run'[r].result = "passed" => ~HasOpenWork(r)')
  <2>1. run[r].state # "finished" \/ run[r].result = "passed" => RunEnds(r)
    BY <1>1 DEF RunsEnd, ResultsInv, PassedHasNoWork
  <2> QED  BY <1>1, <1>2, <1>4, <2>1, ResultStays DEF ExecsMove
<1> QED  BY <1>2, <1>5, <1>6

\* ... and so does a hook that passes or fails an execution it read earlier.
LEMMA FinishReadKeepsResults ==
    ASSUME ResultsInv, NEW d \in Deliveries, FinishRead(d), \A r \in RunIds : Forward(r)
    PROVE  /\ UnfinishedRunHasNoResult' /\ ActiveHasNoResult'
           /\ \A r \in RunIds :
                 Justified(r)' /\ (run'[r].result = "passed" => ~HasOpenWork(r)')
<1>1. exec[d].state # "none" /\ StillFinishing(d) /\ RowsFit
  BY LateRowsFit DEF FinishRead, ResultsInv, LateRowsInv, StartInv, ReadsHaveExecutions
<1>2. /\ RowsStep
      /\ \A r \in RunIds : RunEnds(r) \/ (run[r].state = "finished" /\ r = RunOf(d))
  BY <1>1, OutcomeMoves DEF FinishRead
<1>3. exec'[d].state = "finished" /\ \A x \in Deliveries \ {d} : exec'[x] = exec[x]
  BY <1>1 DEF FinishRead, Pass, Fail, Finished, RowsFit, TypeOK, ExecRecord
<1>4. UnfinishedRunHasNoResult'
  BY <1>2, NoEarlyResult DEF ResultsInv
<1>5. ActiveHasNoResult'
  BY <1>3 DEF ResultsInv, ActiveHasNoResult
<1>6. exec[d].result # "failed"
  BY <1>1 DEF StillFinishing, ResultsInv, ActiveHasNoResult
<1>7. ASSUME NEW r \in RunIds
      PROVE  Justified(r)' /\ (run'[r].result = "passed" => ~HasOpenWork(r)')
  <2>1. run[r].result = "passed" => RunOf(d) # r
    <3>1. Justified(r) /\ (run[r].result = "passed" => ~HasOpenWork(r))
      BY ResultsJustified DEF ResultsInv, PassedHasNoWork
    <3> QED  BY <1>1, <3>1 DEF Justified, StillFinishing, HasOpenWork, ActiveStates
  <2>2. run[r].state # "finished" \/ run[r].result = "passed" => RunEnds(r)
    BY <1>2, <2>1
  <2>3. run[r].result = "passed" => \A x \in Deliveries : RunOf(x) = r => ExecMoves(x)
    BY <1>3, <2>1 DEF ExecMoves
  <2> QED  BY <1>2, <1>3, <1>4, <1>6, <2>2, <2>3, ResultStays
<1> QED  BY <1>4, <1>5, <1>7

\* What a hook is about to finish is finished by it or by the terminator.
LEMMA AtomicStillFinishing ==
    ASSUME ResultsInv, AtomicStep, NEW d \in Deliveries, d \in toFinish
    PROVE  StillFinishing(d)'
<1>1. "finish" \in StaleReads /\ StillFinishing(d) /\ RowsFit
  BY LateRowsFit DEF ResultsInv, LateRowsInv, ReadsAreAllowed
<1>2. GoodStep
  BY <1>1, AtomicIsNext, EveryStepIsGood
<1>3. exec[d] \in ExecRecord /\ exec \in [Deliveries -> ExecRecord]
  BY <1>1 DEF RowsFit, TypeOK
<1>4. CASE exec[d].state \notin {"started", "cancelling"}
  <2>1. exec[d].state = "finished" /\ exec[d].result = "cancelled"
    BY <1>1, <1>4 DEF StillFinishing, ResultsInv, ActiveHasNoResult
  <2>2. ~Queued(d)
    BY <2>1 DEF ResultsInv, LateRowsInv, StartInv, QueuedIsNotStarted
  <2>3. exec'[d] = exec[d]
    BY <1>2, <2>1, <2>2 DEF GoodStep, ExecsMove, ExecMoves, ActiveStates
  <2> QED  BY <2>1, <2>3 DEF StillFinishing
<1>5. CASE exec[d].state \in {"started", "cancelling"}
  <2> USE <1>5
  <2>1. ASSUME \A x \in Deliveries : exec'[x] = exec[x] \/ exec'[x].state = "cancelling"
        PROVE  StillFinishing(d)'
    BY <2>1 DEF StillFinishing
  <2>2. ASSUME NEW r \in RunIds, RunStep(r) PROVE StillFinishing(d)'
    BY <1>3, <2>1, <2>2 DEF RunStep, InitializeRun, StartRun, FailRun, FinalizeRun, CancelRun,
       DrainAgain, Drain, CancellingExecs, EmitRootEvent, CreatePendingRun, ExecRecord
  <2>3. ASSUME NEW e \in EventIds, RouteEvent(e) PROVE StillFinishing(d)'
    BY <2>1, <2>3 DEF RouteEvent
  <2>4. ASSUME NEW n \in Nodes, "pass" \notin StaleReads, ProcessNode(n)
        PROVE  StillFinishing(d)'
    <3> DEFINE L    == Live(Window(n))
               rows == [x \in Window(n) |-> item[x]]
    <3>1. d \notin L
      BY DEF Live, Window, Actionable, ResultsInv, LateRowsInv, StartInv, QueuedIsNotStarted
    <3>2. PICK name \in QueueNames(n, rows, L), bad \in SUBSET L :
             DispatchAs(n, rows, L, name, bad)
      BY <2>4 DEF ProcessNode, Dispatch
    <3>3. exec'[d] = exec[d]
      BY <3>1, <3>2 DEF DispatchAs, Reached
    <3> QED  BY <3>3 DEF StillFinishing
  <2>5. ASSUME NEW n \in AllNodes, NodeStep(n) PROVE StillFinishing(d)'
    BY <1>3, <2>1, <2>5 DEF NodeStep, UpdateNode, DeleteNode, CancellingExecs, ExecRecord
  <2>6. ASSUME NEW x \in Deliveries, DeliveryStep(x) PROVE StillFinishing(d)'
    <3>1. CASE Execute(x)
      <4>1. x # d /\ exec'[d] = exec[d]
        BY <1>3, <3>1 DEF Execute, Begin, Pass, Fail, Finished
      <4> QED  BY <4>1 DEF StillFinishing
    <3>2. CASE Terminate(x)
      BY <1>3, <3>2 DEF Terminate, Finished, StillFinishing, ExecRecord
    <3>3. CASE DeleteQueueItem(x) \/ CancelExecution(x)
      BY <1>3, <2>1, <3>3 DEF DeleteQueueItem, CancelExecution, CancellingExecs, ExecRecord
    <3> QED  BY <1>1, <2>6, <3>1, <3>2, <3>3 DEF DeliveryStep
  <2> QED  BY <2>2, <2>3, <2>4, <2>5, <2>6 DEF AtomicStep
<1> QED  BY <1>4, <1>5

\* With only hooks interrupted, the invariant of the results is inductive.
LEMMA ResultsNext ==
    ASSUME HooksOnly
    PROVE  ResultsInv /\ [RCNext]_rcVars => ResultsInv'
<1> SUFFICES ASSUME ResultsInv, [RCNext]_rcVars PROVE ResultsInv'
  OBVIOUS
<1>1. LateRowsInv' /\ ReadsAreAllowed
  BY LateRowsNext DEF ResultsInv, LateRowsInv
<1>2. \A r \in RunIds : Forward(r)
  BY RCNextForward DEF ResultsInv, LateRowsInv, StartInv
<1>3. ASSUME /\ UnfinishedRunHasNoResult' /\ ActiveHasNoResult'
             /\ \A r \in RunIds :
                   Justified(r)' /\ (run'[r].result = "passed" => ~HasOpenWork(r)'),
             \A d \in Deliveries : d \in toFinish' => StillFinishing(d)'
      PROVE  ResultsInv'
  <2>1. ResultMatchesExecutions' <=> (\A r \in RunIds : Justified(r))'
    BY ResultsJustified, PTL
  <2> QED  BY <1>1, <1>3, <2>1 DEF ResultsInv, PassedHasNoWork
<1>4. CASE vars' = vars /\ toFinish' = toFinish
  <2>1. GoodStep
    BY <1>4, LateRowsFit, EveryStepIsGood DEF ResultsInv
  <2>2. \A d \in Deliveries : d \in toFinish' => StillFinishing(d)'
    BY <1>4 DEF vars, StillFinishing, ResultsInv
  <2> QED  BY <1>2, <1>3, <2>1, <2>2, GoodStepKeepsResults
<1>5. CASE AtomicStep
  <2>1. GoodStep
    BY <1>5, LateRowsFit, AtomicIsNext, EveryStepIsGood DEF ResultsInv
  <2>2. \A d \in Deliveries : d \in toFinish' => StillFinishing(d)'
    BY <1>5, AtomicStillFinishing DEF AtomicStep, readVars
  <2> QED  BY <1>2, <1>3, <2>1, <2>2, GoodStepKeepsResults
<1>6. ASSUME NEW d \in Deliveries, ReadForFinish(d) PROVE ResultsInv'
  <2>1. GoodStep
    BY <1>6, LateRowsFit, EveryStepIsGood DEF ReadForFinish, ResultsInv
  <2>2. \A x \in Deliveries : x \in toFinish' => StillFinishing(x)'
    BY <1>6 DEF ReadForFinish, vars, StillFinishing
  <2> QED  BY <1>2, <1>3, <2>1, <2>2, GoodStepKeepsResults
<1>7. ASSUME NEW d \in Deliveries, FinishRead(d) PROVE ResultsInv'
  <2>1. \A x \in Deliveries : x \in toFinish' => StillFinishing(x)'
    BY <1>7 DEF FinishRead
  <2> QED  BY <1>2, <1>3, <1>7, <2>1, FinishReadKeepsResults
<1>8. ASSUME NEW d \in Deliveries, SaveHook(d) PROVE ResultsInv'
  <2>1. GoodStep
    BY <1>8, SaveHookMoves DEF ResultsInv
  <2>2. \A x \in Deliveries : x \in toFinish => StillFinishing(x)'
    BY <1>8 DEF SaveHook, StillFinishing, ResultsInv, ActiveHasNoResult, LateRowsInv,
                StartInv, RCTypes, TypeOK, ExecRecord
  <2> QED  BY <1>2, <1>3, <1>8, <2>1, <2>2, GoodStepKeepsResults DEF SaveHook
<1>9. ASSUME NEW d \in Deliveries, ReadForSave(d) PROVE vars' = vars /\ toFinish' = toFinish
  BY <1>9 DEF ReadForSave
<1>10. /\ \A n \in Nodes : ~ListBacklog(n) /\ ~DispatchListed(n)
       /\ \A n \in AllNodes : ~ReadForDelete(n) /\ ~DeleteListed(n)
       /\ \A d \in Deliveries :
             ~ReadForCancel(d) /\ ~RequestCancellation(d) /\ ~SaveCallback(d)
  BY <1>1 DEF ReadsAreAllowed, HooksOnly, ListBacklog, DispatchListed, ReadForDelete,
              DeleteListed, ReadForCancel, RequestCancellation, SaveCallback
<1> QED
  <2>1. CASE UNCHANGED rcVars
    BY <1>4, <2>1 DEF rcVars, readVars
  <2> QED  BY <1>4, <1>5, <1>6, <1>7, <1>8, <1>9, <1>10, <2>1 DEF RCNext

\* Nothing has a result at first.
LEMMA ResultsInit == RCInit => ResultsInv
<1> SUFFICES ASSUME RCInit PROVE ResultsInv
  OBVIOUS
<1>1. /\ \A r \in RunIds : run[r].result = "none"
      /\ \A d \in Deliveries : exec[d].result = "none"
  BY DEF RCInit, Init, AbsentRun, NoExec
<1>2. LateRowsInv /\ ResultMatchesExecutions
  BY LateRowsInit, EngineInit DEF RCInit, EngineInv
<1>3. toFinish = {}
  BY DEF RCInit, Idle
<1> QED  BY <1>1, <1>2, <1>3 DEF ResultsInv, UnfinishedRunHasNoResult, ActiveHasNoResult,
         PassedHasNoWork

(***************************************************************************)
(* The result of a finished run stays the one its executions justify when  *)
(* the hooks of components are interrupted, those that finish an execution *)
(* and those that save it: a hook that finishes late may overwrite a       *)
(* cancelled execution and give its run work again, but not in a run that  *)
(* has passed, and it takes no failure back.                               *)
(***************************************************************************)
THEOREM LateHooksKeepResults == HooksOnly /\ RCSpec => []ResultMatchesExecutions
<1> SUFFICES ASSUME HooksOnly PROVE RCSpec => []ResultMatchesExecutions
  OBVIOUS
<1>1. ResultsInv => ResultMatchesExecutions
  BY DEF ResultsInv
<1> QED  BY <1>1, ResultsInit, ResultsNext, PTL DEF RCSpec

-----------------------------------------------------------------------------
(***************************************************************************)
(* If no read is interrupted, the rows move as in RunEngine: whatever is   *)
(* proved of Spec holds then.                                              *)
(***************************************************************************)
THEOREM UninterruptedIsRunEngine == StaleReads = {} /\ RCSpec => Spec
<1> DEFINE Quiet == StaleReads = {} /\ Idle
<1>1. StaleReads = {} /\ RCInit => Quiet /\ Init
  BY DEF RCInit
<1>2. Quiet /\ [RCNext]_rcVars => Quiet' /\ [Next]_vars
  <2> SUFFICES ASSUME Quiet, [RCNext]_rcVars PROVE Quiet' /\ [Next]_vars
    OBVIOUS
  <2>1. CASE UNCHANGED rcVars
    BY <2>1 DEF rcVars, readVars, Idle
  <2>2. CASE AtomicStep
    BY <2>2, AtomicIsNext DEF AtomicStep, readVars, Idle
  <2>3. \A n \in Nodes : ~ListBacklog(n) /\ ~DispatchListed(n)
    BY DEF ListBacklog, DispatchListed, Idle
  <2>4. \A n \in AllNodes : ~ReadForDelete(n) /\ ~DeleteListed(n)
    BY DEF ReadForDelete, DeleteListed, Idle
  <2>5. \A d \in Deliveries :
           /\ ~ReadForCancel(d) /\ ~RequestCancellation(d) /\ ~ReadForFinish(d)
           /\ ~FinishRead(d) /\ ~ReadForSave(d) /\ ~SaveHook(d) /\ ~SaveCallback(d)
    BY DEF ReadForCancel, RequestCancellation, ReadForFinish, FinishRead, ReadForSave,
           SaveHook, SaveCallback, Idle
  <2> QED  BY <2>1, <2>2, <2>3, <2>4, <2>5 DEF RCNext
<1> QED  BY <1>1, <1>2, PTL DEF RCSpec, Spec
===========================================================================
