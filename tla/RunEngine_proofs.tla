------------------------- MODULE RunEngine_proofs -------------------------
(***************************************************************************)
(* Proofs about the run engine, for every canvas, every number of runs and *)
(* every concurrency limit: the types, what finished and cancelling runs   *)
(* have left, and that the engine implements RunLifecycle: the rows of     *)
(* every run take a step of the life cycle or none in every transaction.   *)
(***************************************************************************)
EXTENDS RunEngine, TLAPS

-----------------------------------------------------------------------------
(* What the rows written by the actions are. *)

\* A freshly inserted run row is well typed, in the state it was asked for.
LEMMA NewRunType ==
    ASSUME NEW s \in RunStates, NEW n \in AllNodes,
           NEW c \in Deliveries \cup {NoCause}
    PROVE  NewRun(s, n, c) \in RunRecord /\ NewRun(s, n, c).state = s
  BY DEF NewRun, AbsentRun, RunRecord, Results, RunStates

\* A freshly inserted event row is well typed.
LEMMA NewEventType ==
    ASSUME NEW r \in RunIds \cup {NoRun}, NEW n \in AllNodes, NEW c \in Channels
    PROVE  NewEvent(r, n, c) \in EventRecord
  BY DEF NewEvent, EventRecord

(* A report starts runs that did not exist, at On Error nodes. *)
LEMMA ReportType ==
    ASSUME NEW failed \in SUBSET Deliveries, NEW report \in OnErrorReports(failed)
    PROVE  /\ DOMAIN report \subseteq FreshRuns
           /\ \A r \in DOMAIN report : /\ report[r].node \in AllNodes
                                       /\ report[r].cause \in Deliveries
<1> DEFINE subject == [node : LiveOnErrorNodes, cause : {d \in failed : Reportable(d)}]
<1>1. PICK S \in SUBSET FreshRuns : report \in [S -> subject]
  BY DEF OnErrorReports
<1>2. \A x \in subject : x.node \in AllNodes /\ x.cause \in Deliveries
  BY NodeAssumption DEF LiveOnErrorNodes, AllNodes
<1>3. DOMAIN report = S /\ \A r \in S : report[r] \in subject
  BY <1>1
<1> QED  BY <1>2, <1>3

\* The runs and events that an on-error report inserts are well typed.
LEMMA ReportRowsType ==
    ASSUME TypeOK, NEW failed \in SUBSET Deliveries,
           NEW report \in OnErrorReports(failed)
    PROVE  /\ RunsWith(report) \in [RunIds -> RunRecord]
           /\ EventsWith(report) \in [EventIds -> EventRecord]
<1>1. /\ DOMAIN report \subseteq FreshRuns
      /\ \A r \in DOMAIN report : report[r].node \in AllNodes /\ report[r].cause \in Deliveries
  BY ReportType
<1>2. \A r \in DOMAIN report :
         NewRun("started", report[r].node, report[r].cause) \in RunRecord
  BY <1>1, NewRunType DEF RunStates
<1>3. \A r \in DOMAIN report : NewEvent(r, report[r].node, DefaultChannel) \in EventRecord
  BY <1>1, NewEventType, NodeAssumption DEF FreshRuns
<1> QED  BY <1>2, <1>3 DEF RunsWith, EventsWith, TypeOK

\* Marking executions as cancelling keeps the execution table well typed.
LEMMA CancellingType ==
    ASSUME TypeOK, NEW D
    PROVE  CancellingExecs(D) \in [Deliveries -> ExecRecord]
  BY DEF TypeOK, CancellingExecs, ExecRecord, ActiveStates

\* The absent queue item is a queue item record.
LEMMA NoItemType == NoItem \in ItemRecord
  BY DEF NoItem, ItemRecord

\* Finishing an execution keeps the execution table well typed.
LEMMA FinishedType ==
    ASSUME TypeOK, NEW d \in Deliveries, NEW result \in Results
    PROVE  Finished(d, result) \in [Deliveries -> ExecRecord]
  BY DEF TypeOK, Finished, ExecRecord

\* The result computed from a run's executions is one of the results.
LEMMA ResultType == ASSUME NEW r PROVE ResultOf(r) \in Results
  BY DEF ResultOf, Results

-----------------------------------------------------------------------------
(* Every action keeps the types of the rows. *)

\* The empty system is well typed.
LEMMA InitType == Init => TypeOK
<1> SUFFICES ASSUME Init PROVE TypeOK
  OBVIOUS
<1>1. AbsentRun \in RunRecord
  BY DEF AbsentRun, RunRecord, RunStates, Results
<1>2. NoEvent \in EventRecord
  BY NodeAssumption DEF NoEvent, EventRecord
<1>3. NoExec \in ExecRecord
  BY DEF NoExec, ExecRecord, Results
<1> QED  BY <1>1, <1>2, <1>3, NoItemType DEF Init, TypeOK

(* EmitRootEvent, CreatePendingRun, InitializeRun, FinalizeRun. *)
LEMMA RunRowsType ==
    ASSUME TypeOK, NEW r \in RunIds,
           \/ \E n \in Triggers : EmitRootEvent(n, r) \/ CreatePendingRun(n, r)
           \/ InitializeRun(r) \/ FinalizeRun(r)
    PROVE  TypeOK'
<1>1. ASSUME NEW n \in Triggers, EmitRootEvent(n, r) PROVE TypeOK'
  <2>1. /\ NewRun("started", n, NoCause) \in RunRecord
        /\ NewEvent(r, n, DefaultChannel) \in EventRecord
    BY NewRunType, NewEventType, NodeAssumption DEF AllNodes, RunStates
  <2> QED  BY <1>1, <2>1 DEF EmitRootEvent, TypeOK, EventIds
<1>2. ASSUME NEW n \in Triggers, CreatePendingRun(n, r) PROVE TypeOK'
  <2>1. NewRun("pending", n, NoCause) \in RunRecord
    BY NewRunType DEF AllNodes, RunStates
  <2> QED  BY <1>2, <2>1 DEF CreatePendingRun, TypeOK
<1>3. ASSUME StartRun(r) PROVE TypeOK'
  <2>1. CASE run[r].node \in AllNodes
    <3>1. NewEvent(r, run[r].node, DefaultChannel) \in EventRecord
      BY <2>1, NewEventType, NodeAssumption
    <3> QED  BY <1>3, <3>1 DEF StartRun, TypeOK, RunRecord, RunStates, EventIds
  <2>2. CASE run[r].node = NoNode
    <3>1. NewEvent(r, run[r].node, DefaultChannel) \in EventRecord
      BY <2>2, NodeAssumption DEF NewEvent, EventRecord
    <3> QED  BY <1>3, <3>1 DEF StartRun, TypeOK, RunRecord, RunStates, EventIds
  <2> QED  BY <2>1, <2>2 DEF TypeOK, RunRecord
<1>4. ASSUME FailRun(r) PROVE TypeOK'
  BY <1>4 DEF FailRun, TypeOK, RunRecord, RunStates, Results
<1>5. ASSUME FinalizeRun(r) PROVE TypeOK'
  BY <1>5, ResultType DEF FinalizeRun, TypeOK, RunRecord, RunStates
<1> QED  BY <1>1, <1>2, <1>3, <1>4, <1>5 DEF InitializeRun

(* RouteEvent. *)
LEMMA RouteType ==
    ASSUME TypeOK, NEW e \in EventIds, RouteEvent(e)
    PROVE  TypeOK'
<1>1. PICK now \in Stamps :
         item' = [d \in Deliveries |->
                    IF d[1] = e /\ d[2] \in RouteTargets(e)
                    THEN [at |-> now, queue |-> Unresolved]
                    ELSE item[d]]
  BY DEF RouteEvent
<1>2. [at |-> now, queue |-> Unresolved] \in ItemRecord
  BY DEF ItemRecord
<1>3. item' \in [Deliveries -> ItemRecord]
  BY <1>1, <1>2 DEF TypeOK
<1>4. event' \in [EventIds -> EventRecord]
  BY DEF RouteEvent, TypeOK, EventRecord
<1> QED  BY <1>3, <1>4 DEF RouteEvent, TypeOK

(* The writes of a queue pass. *)
LEMMA DispatchType ==
    ASSUME TypeOK, NEW n \in Nodes, NEW rows, NEW L \in SUBSET Deliveries,
           Dispatch(n, rows, L)
    PROVE  TypeOK'
<1>1. PICK name \in QueueNames(n, rows, L), bad \in SUBSET L :
        DispatchAs(n, rows, L, name, bad)
  BY DEF Dispatch
<1> DEFINE admitted == Reached(n, rows, L, name, bad) \ bad
           failed   == bad \cup {d \in L : name[d] = KeyError}
           blocked  == L \ (admitted \cup failed)
<1>2. \A d \in L : name[d] # KeyError => name[d] \in Queues
  BY DEF QueueNames
<1>3. \A d \in admitted : name[d] \in Queues
  BY <1>2 DEF Reached
<1>4. \A d \in blocked : name[d] \in Queues
  BY <1>2
<1>5. item' \in [Deliveries -> ItemRecord]
  <2>1. \A d \in Deliveries : d \in blocked =>
            [item[d] EXCEPT !.queue = name[d]] \in ItemRecord
    BY <1>4 DEF TypeOK, ItemRecord
  <2> QED  BY <1>1, <2>1, NoItemType DEF TypeOK, DispatchAs
<1>6. exec' \in [Deliveries -> ExecRecord]
  <2>1. \A d \in admitted :
            [state |-> "pending", result |-> "none", queue |-> name[d]] \in ExecRecord
    BY <1>3 DEF ExecRecord, ActiveStates, Results
  <2>2. [state |-> "finished", result |-> "failed", queue |-> Unresolved] \in ExecRecord
    BY DEF ExecRecord, ActiveStates, Results
  <2> QED  BY <1>1, <2>1, <2>2 DEF TypeOK, DispatchAs
<1>7. /\ run' \in [RunIds -> RunRecord]
      /\ event' \in [EventIds -> EventRecord]
  BY <1>1, ReportRowsType DEF DispatchAs
<1>8. node' \in [AllNodes -> {"ready", "error", "deleted"}]
  BY <1>1 DEF TypeOK, DispatchAs
<1> QED  BY <1>5, <1>6, <1>7, <1>8 DEF TypeOK

(* Execute and InvokeHook. *)
LEMMA OutcomeType ==
    ASSUME TypeOK, NEW d \in Deliveries, Begin(d) \/ Pass(d) \/ Fail(d)
    PROVE  TypeOK'
<1>1. CASE Begin(d)
  BY <1>1 DEF Begin, TypeOK, ExecRecord, ActiveStates
<1>2. CASE Pass(d)
  <2>1. PICK outs \in FreshOutputs, c \in Channels :
          event' = [e \in EventIds |-> IF e \in outs THEN NewEvent(RunOf(d), d[2], c)
                                      ELSE event[e]]
    BY <1>2 DEF Pass
  <2>2. RunOf(d) \in RunIds \cup {NoRun}
    BY DEF RunOf, Deliveries, TypeOK, EventRecord
  <2>3. NewEvent(RunOf(d), d[2], c) \in EventRecord
    BY <2>2, NewEventType DEF Deliveries, AllNodes
  <2>4. event' \in [EventIds -> EventRecord]
    BY <2>1, <2>3 DEF TypeOK
  <2>5. exec' \in [Deliveries -> ExecRecord]
    BY <1>2, FinishedType DEF Pass, Results
  <2>6. run' \in [RunIds -> RunRecord]
    <3>1. \A r \in RunIds : [run[r] EXCEPT !.errors = TRUE] \in RunRecord
      BY DEF TypeOK, RunRecord
    <3>2. [run EXCEPT ![RunOf(d)].errors = TRUE] \in [RunIds -> RunRecord]
      BY <3>1 DEF TypeOK
    <3> QED  BY <1>2, <3>2 DEF Pass, TypeOK
  <2> QED  BY <1>2, <2>4, <2>5, <2>6 DEF Pass, TypeOK
<1>3. CASE Fail(d)
  <2>1. exec' \in [Deliveries -> ExecRecord]
    BY <1>3, FinishedType DEF Fail, Results
  <2>2. /\ run' \in [RunIds -> RunRecord]
        /\ event' \in [EventIds -> EventRecord]
    BY <1>3, ReportRowsType DEF Fail
  <2> QED  BY <1>3, <2>1, <2>2 DEF Fail, TypeOK
<1> QED  BY <1>1, <1>2, <1>3

(* CancelRun, DrainAgain. *)
LEMMA DrainType ==
    ASSUME TypeOK, NEW r \in RunIds, CancelRun(r) \/ DrainAgain(r)
    PROVE  TypeOK'
<1>1. Drain(r)
  BY DEF CancelRun, DrainAgain
<1>2. exec' \in [Deliveries -> ExecRecord]
  BY <1>1, CancellingType DEF Drain
<1>3. item' \in [Deliveries -> ItemRecord]
  BY <1>1, NoItemType DEF Drain, TypeOK
<1>4. event' \in [EventIds -> EventRecord]
  <2>1. \A e \in EventIds : [event[e] EXCEPT !.state = "routed"] \in EventRecord
    BY DEF TypeOK, EventRecord
  <2> QED  BY <1>1, <2>1 DEF Drain, TypeOK
<1>5. run' \in [RunIds -> RunRecord]
  BY DEF CancelRun, DrainAgain, TypeOK, RunRecord, RunStates
<1>6. node' = node
  BY DEF CancelRun, DrainAgain
<1> QED  BY <1>2, <1>3, <1>4, <1>5, <1>6 DEF TypeOK

(* Terminate, CancelExecution, DeleteQueueItem. *)
LEMMA DeliveryRowsType ==
    ASSUME TypeOK, NEW d \in Deliveries,
           Terminate(d) \/ CancelExecution(d) \/ DeleteQueueItem(d)
    PROVE  TypeOK'
<1>1. CASE Terminate(d)
  BY <1>1, FinishedType DEF Terminate, TypeOK, Results
<1>2. CASE CancelExecution(d)
  BY <1>2, CancellingType DEF CancelExecution, TypeOK
<1>3. CASE DeleteQueueItem(d)
  BY <1>3, NoItemType DEF DeleteQueueItem, TypeOK
<1> QED  BY <1>1, <1>2, <1>3

(* UpdateNode, DeleteNode. *)
LEMMA NodeRowsType ==
    ASSUME TypeOK, NEW n \in AllNodes, UpdateNode(n) \/ DeleteNode(n)
    PROVE  TypeOK'
<1>1. CASE UpdateNode(n)
  BY <1>1 DEF UpdateNode, TypeOK
<1>2. CASE DeleteNode(n)
  <2>1. exec' \in [Deliveries -> ExecRecord]
    BY <1>2, CancellingType DEF DeleteNode
  <2> QED  BY <1>2, <2>1, NoItemType DEF DeleteNode, TypeOK
<1> QED  BY <1>1, <1>2

\* Every step keeps the rows well typed.
LEMMA StepType == TypeOK /\ [Next]_vars => TypeOK'
<1> SUFFICES ASSUME TypeOK, [Next]_vars PROVE TypeOK'
  OBVIOUS
<1>1. CASE UNCHANGED vars
  BY <1>1 DEF vars, TypeOK
<1>2. CASE \E n \in Triggers, r \in RunIds : EmitRootEvent(n, r) \/ CreatePendingRun(n, r)
  BY <1>2, RunRowsType
<1>3. CASE \E r \in RunIds : InitializeRun(r) \/ FinalizeRun(r)
  BY <1>3, RunRowsType
<1>4. CASE \E r \in RunIds : CancelRun(r) \/ DrainAgain(r)
  BY <1>4, DrainType
<1>5. CASE \E e \in EventIds : RouteEvent(e)
  BY <1>5, RouteType
<1>6. CASE \E n \in Nodes : ProcessNode(n)
  BY <1>6, DispatchType DEF ProcessNode, Live, Window, Actionable
<1>7. CASE \E d \in Deliveries : Execute(d) \/ InvokeHook(d)
  BY <1>7, OutcomeType DEF Execute, InvokeHook
<1>8. CASE \E d \in Deliveries : Terminate(d) \/ CancelExecution(d) \/ DeleteQueueItem(d)
  BY <1>8, DeliveryRowsType
<1>9. CASE \E n \in AllNodes : UpdateNode(n) \/ DeleteNode(n)
  BY <1>9, NodeRowsType
<1> QED  BY <1>1, <1>2, <1>3, <1>4, <1>5, <1>6, <1>7, <1>8, <1>9 DEF Next

(***************************************************************************)
(* Every row the engine stores has the type of its table: no run or        *)
(* execution leaves its states, and an active execution or a stored queue  *)
(* name is a name of the canvas, whatever the canvas.                      *)
(***************************************************************************)
THEOREM TypeCorrect == Spec => []TypeOK
  BY InitType, StepType, PTL DEF Spec

-----------------------------------------------------------------------------
(***************************************************************************)
(* FinishedRunHasNoOpenWork is not inductive: a run that fails before it   *)
(* starts is not asked for open work.  The invariant adds that such a run  *)
(* has no event, and so no work.  The same goes for CancellingRunIsDrained; *)
(* neither needs the other, so K says which of the two is meant.           *)
(***************************************************************************)
NewRunHasNoEvents ==
    \A r \in RunIds : run[r].state \in {"none", "pending"} =>
        \A e \in EventIds : event[e].run # r

Settled == {"finished", "cancelling"}

RunInv(K) ==
    /\ TypeOK
    /\ NewRunHasNoEvents
    /\ "finished" \in K => FinishedRunHasNoOpenWork
    /\ "cancelling" \in K => CancellingRunIsDrained

Drained(r) ==
    /\ \A d \in Deliveries : RunOf(d) = r =>
          ~Queued(d) /\ exec[d].state \notin {"pending", "started"}
    /\ \A e \in EventIds : event[e].run = r => event[e].state # "pending"

(* The step gives run r no event, queue item or execution to work on. *)
NoNewWork(r) ==
    /\ \A e \in EventIds : event'[e].run = r =>
          /\ event[e].run = r
          /\ event'[e].state = "pending" => event[e].state = "pending"
    /\ \A d \in Deliveries : RunOf(d)' = r =>
          /\ Queued(d)' => Queued(d)
          /\ exec'[d].state \in ActiveStates => exec[d].state \in ActiveStates
          /\ exec'[d].state \in {"pending", "started"} =>
                exec[d].state \in {"pending", "started"}

\* A step that adds no work to a run keeps it drained.
LEMMA NoNewWorkKeeps ==
    ASSUME NEW r, NoNewWork(r)
    PROVE  /\ ~HasOpenWork(r) => ~HasOpenWork(r)'
           /\ Drained(r) => Drained(r)'
<1>1. \A d \in Deliveries : d[1] \in EventIds
  BY DEF Deliveries
<1>2. \A d \in Deliveries : RunOf(d)' = r => RunOf(d) = r
  BY <1>1 DEF NoNewWork, RunOf
<1> QED  BY <1>2 DEF NoNewWork, HasOpenWork, Drained

(* What a step may do to the runs for the invariant to be kept. *)
LEMMA RunInvStep ==
    ASSUME NEW K, RunInv(K), TypeOK', NewRunHasNoEvents',
           \A r \in RunIds :
              \/ run'[r].state \notin K \cap Settled
              \/ run'[r].state = run[r].state /\ NoNewWork(r)
              \/ run'[r].state = "finished" /\ ~HasOpenWork(r)'
              \/ run'[r].state = "cancelling" /\ Drained(r)'
    PROVE  RunInv(K)'
<1>1. ASSUME "finished" \in K PROVE FinishedRunHasNoOpenWork'
  BY <1>1, NoNewWorkKeeps DEF RunInv, Settled, FinishedRunHasNoOpenWork
<1>2. ASSUME "cancelling" \in K PROVE CancellingRunIsDrained'
  <2>1. \A r \in RunIds : run[r].state = "cancelling" => Drained(r)
    BY <1>2 DEF RunInv, CancellingRunIsDrained, Drained
  <2>2. \A r \in RunIds : run'[r].state = "cancelling" => Drained(r)'
    BY <1>2, <2>1, NoNewWorkKeeps DEF Settled
  <2> QED  BY <2>2 DEF CancellingRunIsDrained, Drained
<1> QED  BY <1>1, <1>2 DEF RunInv

(* Nothing of a finished or cancelling run is left for a worker to take. *)
LEMMA SettledRunIsIdle ==
    ASSUME NEW K, RunInv(K), NEW r \in RunIds, run[r].state \in K \cap Settled
    PROVE  /\ \A d \in Deliveries : RunOf(d) = r =>
                ~Queued(d) /\ exec[d].state \notin {"pending", "started"}
           /\ \A e \in EventIds : event[e].run = r => event[e].state # "pending"
<1>1. \/ "finished" \in K /\ run[r].state = "finished"
      \/ "cancelling" \in K /\ run[r].state = "cancelling"
  BY DEF Settled
<1> QED  BY <1>1 DEF RunInv, FinishedRunHasNoOpenWork, HasOpenWork,
                     CancellingRunIsDrained, ActiveStates

(* A report gives its new runs their events, and no other run any. *)
LEMMA ReportKeeps ==
    ASSUME NEW K, RunInv(K), NEW failed \in SUBSET Deliveries,
           NEW report \in OnErrorReports(failed),
           run' = RunsWith(report), event' = EventsWith(report)
    PROVE  /\ NewRunHasNoEvents'
           /\ \A r \in RunIds : run'[r].state \in K \cap Settled =>
                 /\ run'[r].state = run[r].state
                 /\ \A e \in EventIds : event'[e].run = r => event'[e] = event[e]
<1>1. DOMAIN report \subseteq FreshRuns
  BY ReportType
<1>2. \A r \in DOMAIN report : run'[r].state = "started"
  <2>1. \A r \in DOMAIN report :
           NewRun("started", report[r].node, report[r].cause).state = "started"
    BY ReportType, NewRunType DEF RunStates
  <2> QED  BY <1>1, <2>1 DEF RunsWith, FreshRuns
<1>3. \A r \in RunIds \ DOMAIN report : run'[r] = run[r]
  BY DEF RunsWith
<1>4. \A e \in DOMAIN report : event'[e].run = e
  BY <1>1 DEF EventsWith, NewEvent, FreshRuns, EventIds
<1>5. \A e \in EventIds \ DOMAIN report : event'[e] = event[e]
  BY DEF EventsWith
<1>6. NewRunHasNoEvents'
  <2> SUFFICES ASSUME NEW r \in RunIds, run'[r].state \in {"none", "pending"},
                      NEW e \in EventIds, event'[e].run = r
               PROVE  FALSE
    BY DEF NewRunHasNoEvents
  <2>1. r \notin DOMAIN report
    BY <1>2
  <2>2. e \notin DOMAIN report
    BY <1>4, <2>1
  <2> QED  BY <1>3, <1>5, <2>1, <2>2 DEF RunInv, NewRunHasNoEvents
<1>7. ASSUME NEW r \in RunIds, run'[r].state \in K \cap Settled
      PROVE  /\ run'[r].state = run[r].state
             /\ \A e \in EventIds : event'[e].run = r => event'[e] = event[e]
  <2>1. r \notin DOMAIN report
    BY <1>2, <1>7 DEF Settled
  <2> QED  BY <1>3, <1>4, <1>5, <2>1
<1> QED  BY <1>6, <1>7

-----------------------------------------------------------------------------
(* Every action keeps the invariant. *)

\* A root event starts a run with work of its own and touches no other run.
LEMMA EmitRootEventKeeps ==
    ASSUME NEW K, RunInv(K), NEW n \in Triggers, NEW r \in RunIds, EmitRootEvent(n, r)
    PROVE  RunInv(K)'
<1>1. TypeOK'
  BY RunRowsType DEF RunInv
<1>2. run'[r].state = "started" /\ \A q \in RunIds \ {r} : run'[q] = run[q]
  <2>1. NewRun("started", n, NoCause).state = "started"
    BY NewRunType DEF AllNodes, RunStates
  <2> QED  BY <2>1 DEF EmitRootEvent, RunInv, TypeOK
<1>3. event'[r].run = r /\ \A e \in EventIds \ {r} : event'[e] = event[e]
  BY DEF EmitRootEvent, RunInv, TypeOK, NewEvent, EventIds
<1>4. NewRunHasNoEvents'
  BY <1>2, <1>3 DEF RunInv, NewRunHasNoEvents
<1>5. ASSUME NEW q \in RunIds \ {r}
      PROVE  NoNewWork(q)
  BY <1>3 DEF NoNewWork, EmitRootEvent, RunOf, Queued, Deliveries
<1> QED  BY <1>1, <1>2, <1>4, <1>5, RunInvStep DEF Settled

\* A pending run has no work yet, and no other run is touched.
LEMMA CreatePendingRunKeeps ==
    ASSUME NEW K, RunInv(K), NEW n \in Triggers, NEW r \in RunIds, CreatePendingRun(n, r)
    PROVE  RunInv(K)'
<1>1. TypeOK'
  BY RunRowsType DEF RunInv
<1>2. run'[r].state = "pending" /\ \A q \in RunIds \ {r} : run'[q] = run[q]
  <2>1. NewRun("pending", n, NoCause).state = "pending"
    BY NewRunType DEF AllNodes, RunStates
  <2> QED  BY <2>1 DEF CreatePendingRun, RunInv, TypeOK
<1>3. run[r].state = "none"
  BY DEF CreatePendingRun, FreshRuns
<1>4. NewRunHasNoEvents'
  BY <1>2, <1>3 DEF RunInv, NewRunHasNoEvents, CreatePendingRun
<1>5. ASSUME NEW q \in RunIds PROVE NoNewWork(q)
  BY DEF NoNewWork, CreatePendingRun, RunOf, Queued
<1> QED  BY <1>1, <1>2, <1>4, <1>5, RunInvStep DEF Settled

\* Starting a pending run gives it its root event.
LEMMA StartRunKeeps ==
    ASSUME NEW K, RunInv(K), NEW r \in RunIds, StartRun(r)
    PROVE  RunInv(K)'
<1>1. TypeOK'
  BY RunRowsType DEF RunInv, InitializeRun
<1>2. run'[r].state = "started" /\ \A q \in RunIds \ {r} : run'[q] = run[q]
  BY DEF StartRun, RunInv, TypeOK, RunRecord
<1>3. event'[r].run = r /\ \A e \in EventIds \ {r} : event'[e] = event[e]
  BY DEF StartRun, RunInv, TypeOK, NewEvent, EventIds
<1>4. NewRunHasNoEvents'
  BY <1>2, <1>3 DEF RunInv, NewRunHasNoEvents
<1>5. ASSUME NEW q \in RunIds \ {r}
      PROVE  NoNewWork(q)
  BY <1>3 DEF NoNewWork, StartRun, RunOf, Queued, Deliveries
<1> QED  BY <1>1, <1>2, <1>4, <1>5, RunInvStep DEF Settled

(* A pending run has no event, so it has no work when it fails. *)
LEMMA FailRunKeeps ==
    ASSUME NEW K, RunInv(K), NEW r \in RunIds, FailRun(r)
    PROVE  RunInv(K)'
<1>1. TypeOK'
  BY RunRowsType DEF RunInv, InitializeRun
<1>2. run'[r].state = "finished" /\ \A q \in RunIds \ {r} : run'[q] = run[q]
  <2>1. [run[r] EXCEPT !.state = "finished", !.result = "failed",
                       !.errors = TRUE].state = "finished"
    BY DEF RunInv, TypeOK, RunRecord
  <2> QED  BY <2>1 DEF FailRun, RunInv, TypeOK
<1>3. NewRunHasNoEvents'
  BY <1>2 DEF RunInv, NewRunHasNoEvents, FailRun
<1>4. ~HasOpenWork(r)'
  BY DEF FailRun, RunInv, NewRunHasNoEvents, HasOpenWork, RunOf, Deliveries
<1>5. ASSUME NEW q \in RunIds PROVE NoNewWork(q)
  BY DEF NoNewWork, FailRun, RunOf, Queued
<1> QED  BY <1>1, <1>2, <1>3, <1>4, <1>5, RunInvStep

\* A run is finalised only when it has no open work.
LEMMA FinalizeRunKeeps ==
    ASSUME NEW K, RunInv(K), NEW r \in RunIds, FinalizeRun(r)
    PROVE  RunInv(K)'
<1>1. TypeOK'
  BY RunRowsType DEF RunInv
<1>2. run'[r].state = "finished" /\ \A q \in RunIds \ {r} : run'[q] = run[q]
  <2>1. [run[r] EXCEPT !.state = "finished", !.result = ResultOf(r)].state = "finished"
    BY DEF RunInv, TypeOK, RunRecord
  <2> QED  BY <2>1 DEF FinalizeRun, RunInv, TypeOK
<1>3. NewRunHasNoEvents'
  BY <1>2 DEF RunInv, NewRunHasNoEvents, FinalizeRun
<1>4. ASSUME NEW q \in RunIds PROVE NoNewWork(q)
  BY DEF NoNewWork, FinalizeRun, RunOf, Queued
<1>5. ~HasOpenWork(r)'
  BY <1>4, NoNewWorkKeeps DEF FinalizeRun
<1> QED  BY <1>1, <1>2, <1>3, <1>4, <1>5, RunInvStep

(* A pending event belongs to a started run: the others have none. *)
LEMMA RouteEventKeeps ==
    ASSUME NEW K, RunInv(K), NEW e \in EventIds, RouteEvent(e)
    PROVE  RunInv(K)'
<1>1. TypeOK'
  BY RouteType DEF RunInv
<1>2. PICK now \in Stamps :
         item' = [d \in Deliveries |->
                    IF d[1] = e /\ d[2] \in RouteTargets(e)
                    THEN [at |-> now, queue |-> Unresolved]
                    ELSE item[d]]
  BY DEF RouteEvent
<1>3. \A x \in EventIds : event'[x].run = event[x].run
                       /\ (event'[x].state = "pending" => event[x].state = "pending")
  BY DEF RouteEvent, RunInv, TypeOK, EventRecord
<1>4. NewRunHasNoEvents'
  BY <1>3 DEF RunInv, NewRunHasNoEvents, RouteEvent
<1>5. ASSUME NEW r \in RunIds, run'[r].state \in K \cap Settled
      PROVE  run'[r].state = run[r].state /\ NoNewWork(r)
  <2>1. run' = run /\ exec' = exec
    BY DEF RouteEvent
  <2>2. event[e].run # r
    BY <1>5, <2>1, SettledRunIsIdle DEF RouteEvent
  <2>3. \A d \in Deliveries : RunOf(d)' = r => d[1] # e
    BY <1>3, <2>2 DEF RunOf
  <2>4. \A d \in Deliveries : RunOf(d)' = r => item'[d] = item[d]
    BY <1>2, <2>3
  <2> QED  BY <1>3, <2>1, <2>4 DEF NoNewWork, Queued
<1> QED  BY <1>1, <1>4, <1>5, RunInvStep

(* A queued item of a run the pass has not dropped belongs to a started run. *)
LEMMA ProcessNodeKeeps ==
    ASSUME NEW K, RunInv(K), NEW n \in Nodes, ProcessNode(n)
    PROVE  RunInv(K)'
<1> DEFINE rows == [d \in Window(n) |-> item[d]]
           L    == Live(Window(n))
<1>1. L \subseteq Deliveries /\ \A d \in L : Queued(d)
  BY DEF Live, Window, Actionable
<1>2. Dispatch(n, rows, L)
  BY DEF ProcessNode
<1>3. TypeOK'
  BY <1>1, <1>2, DispatchType DEF RunInv
<1>4. PICK name \in QueueNames(n, rows, L), bad \in SUBSET L :
        DispatchAs(n, rows, L, name, bad)
  BY <1>2 DEF Dispatch
<1> DEFINE admitted == Reached(n, rows, L, name, bad) \ bad
           failed   == bad \cup {d \in L : name[d] = KeyError}
<1>5. admitted \subseteq L /\ failed \subseteq L
  BY DEF Reached
<1>6. PICK report \in OnErrorReports(failed) :
         run' = RunsWith(report) /\ event' = EventsWith(report)
  BY <1>4 DEF DispatchAs
<1>7. /\ NewRunHasNoEvents'
      /\ \A r \in RunIds : run'[r].state \in K \cap Settled =>
            /\ run'[r].state = run[r].state
            /\ \A e \in EventIds : event'[e].run = r => event'[e] = event[e]
  BY <1>1, <1>5, <1>6, ReportKeeps
<1>8. ASSUME NEW r \in RunIds, run'[r].state \in K \cap Settled
      PROVE  run'[r].state = run[r].state /\ NoNewWork(r)
  <2>1. run'[r].state = run[r].state
    BY <1>7, <1>8
  <2>2. \A e \in EventIds : event'[e].run = r => event'[e] = event[e]
    BY <1>7, <1>8
  <2>3. \A d \in Deliveries : RunOf(d)' = r => RunOf(d) = r
    BY <2>2 DEF RunOf, Deliveries
  <2>4. \A d \in L : RunOf(d) # r
    BY <1>1, <1>8, <2>1, SettledRunIsIdle
  <2>5. \A d \in Deliveries : RunOf(d)' = r => d \notin L
    BY <2>3, <2>4
  <2>6. \A d \in Deliveries : d \notin L => exec'[d] = exec[d]
    BY <1>4, <1>5 DEF DispatchAs
  <2>7. \A d \in Deliveries : d \notin L => item'[d] \in {NoItem, item[d]}
    BY <1>4 DEF DispatchAs
  <2>8. \A d \in Deliveries : RunOf(d)' = r => (Queued(d)' => Queued(d))
    BY <2>5, <2>7 DEF Queued, NoItem
  <2> QED  BY <2>1, <2>2, <2>5, <2>6, <2>8 DEF NoNewWork
<1> QED  BY <1>3, <1>7, <1>8, RunInvStep

(* The outputs of a component that passes go to a run that is started. *)
LEMMA OutcomeKeeps ==
    ASSUME NEW K, RunInv(K), NEW d \in Deliveries, exec[d].state \in {"pending", "started"},
           Begin(d) \/ Pass(d) \/ Fail(d)
    PROVE  RunInv(K)'
<1>1. TypeOK'
  BY OutcomeType DEF RunInv
<1>2. CASE Begin(d)
  <2>1. NewRunHasNoEvents'
    BY <1>2 DEF Begin, RunInv, NewRunHasNoEvents
  <2>2. \A x \in Deliveries \ {d} : exec'[x] = exec[x]
    BY <1>2 DEF Begin, RunInv, TypeOK
  <2>3. ASSUME NEW r \in RunIds PROVE NoNewWork(r)
    BY <1>2, <2>2 DEF NoNewWork, Begin, RunOf, Queued, ActiveStates
  <2>4. run' = run
    BY <1>2 DEF Begin
  <2> QED  BY <1>1, <2>1, <2>3, <2>4, RunInvStep
<1>3. CASE Pass(d)
  <2>1. PICK outs \in FreshOutputs, c \in Channels :
          event' = [e \in EventIds |-> IF e \in outs THEN NewEvent(RunOf(d), d[2], c)
                                      ELSE event[e]]
    BY <1>3 DEF Pass
  <2>2. \A e \in EventIds : event'[e].run = event[e].run \/ event'[e].run = RunOf(d)
    BY <2>1 DEF NewEvent
  <2>3. \A e \in EventIds : event'[e].run # RunOf(d) => event'[e] = event[e]
    BY <2>1 DEF NewEvent
  <2>4. \A r \in RunIds : run'[r].state = run[r].state
    <3>1. \A r \in RunIds : [run[r] EXCEPT !.errors = TRUE].state = run[r].state
      BY DEF RunInv, TypeOK, RunRecord
    <3> QED  BY <1>3, <3>1 DEF Pass, RunInv, TypeOK
  <2>5. exec'[d].state = "finished" /\ \A x \in Deliveries \ {d} : exec'[x] = exec[x]
    <3>1. [exec[d] EXCEPT !.state = "finished", !.result = "passed"].state = "finished"
      BY DEF RunInv, TypeOK, ExecRecord
    <3> QED  BY <1>3, <3>1 DEF Pass, Finished, RunInv, TypeOK
  <2>6. NewRunHasNoEvents'
    <3> SUFFICES ASSUME NEW r \in RunIds, run'[r].state \in {"none", "pending"},
                        NEW e \in EventIds
                 PROVE  event'[e].run # r
      BY DEF NewRunHasNoEvents
    <3>1. event[e].run # r /\ RunOf(d) # r
      BY <2>4 DEF RunInv, NewRunHasNoEvents, RunOf, Deliveries
    <3> QED  BY <2>2, <3>1
  <2>7. ASSUME NEW r \in RunIds, run'[r].state \in K \cap Settled
        PROVE  NoNewWork(r)
    <3>1. RunOf(d) # r
      BY <2>4, <2>7, SettledRunIsIdle
    <3>2. \A e \in EventIds : event'[e].run = r => event'[e] = event[e]
      BY <2>3, <3>1
    <3>3. \A x \in Deliveries : RunOf(x)' = r => RunOf(x) = r
      BY <3>2 DEF RunOf, Deliveries
    <3>4. item' = item
      BY <1>3 DEF Pass
    <3> QED  BY <2>5, <3>2, <3>3, <3>4 DEF NoNewWork, Queued, ActiveStates
  <2> QED  BY <1>1, <2>4, <2>6, <2>7, RunInvStep
<1>4. CASE Fail(d)
  <2>1. PICK report \in OnErrorReports({d}) :
           run' = RunsWith(report) /\ event' = EventsWith(report)
    BY <1>4 DEF Fail
  <2>2. /\ NewRunHasNoEvents'
        /\ \A r \in RunIds : run'[r].state \in K \cap Settled =>
              /\ run'[r].state = run[r].state
              /\ \A e \in EventIds : event'[e].run = r => event'[e] = event[e]
    BY <2>1, ReportKeeps
  <2>3. exec'[d].state = "finished" /\ \A x \in Deliveries \ {d} : exec'[x] = exec[x]
    <3>1. [exec[d] EXCEPT !.state = "finished", !.result = "failed"].state = "finished"
      BY DEF RunInv, TypeOK, ExecRecord
    <3> QED  BY <1>4, <3>1 DEF Fail, Finished, RunInv, TypeOK
  <2>4. item' = item
    BY <1>4 DEF Fail
  <2>5. ASSUME NEW r \in RunIds, run'[r].state \in K \cap Settled
        PROVE  NoNewWork(r)
    BY <2>2, <2>3, <2>4, <2>5 DEF NoNewWork, Queued, ActiveStates
  <2> QED  BY <1>1, <2>2, <2>5, RunInvStep
<1> QED  BY <1>2, <1>3, <1>4

(* Draining a run leaves it drained, and gives work to no run. *)
LEMMA DrainKeeps ==
    ASSUME NEW K, RunInv(K), NEW r \in RunIds, CancelRun(r) \/ DrainAgain(r)
    PROVE  RunInv(K)'
<1>1. TypeOK'
  BY DrainType DEF RunInv
<1>2. Drain(r)
  BY DEF CancelRun, DrainAgain
<1>3. run'[r].state = "cancelling" /\ \A q \in RunIds \ {r} : run'[q] = run[q]
  BY DEF CancelRun, DrainAgain, RunInv, TypeOK, RunRecord
<1>4. /\ \A e \in EventIds : event'[e].run = event[e].run
      /\ \A e \in EventIds : event'[e].state = "pending" =>
            event[e].state = "pending" /\ event[e].run # r
  <2>1. \A e \in EventIds : /\ [event[e] EXCEPT !.state = "routed"].run = event[e].run
                           /\ [event[e] EXCEPT !.state = "routed"].state = "routed"
    BY DEF RunInv, TypeOK, EventRecord
  <2> QED  BY <1>2, <2>1 DEF Drain
<1>5. \A d \in Deliveries : RunOf(d)' = RunOf(d)
  BY <1>4 DEF RunOf, Deliveries
<1>6. \A d \in Deliveries : exec'[d].state # exec[d].state =>
         exec'[d].state = "cancelling" /\ exec[d].state \in {"pending", "started"}
  BY <1>2 DEF Drain, CancellingExecs, RunInv, TypeOK, ExecRecord
<1>7. \A d \in Deliveries : RunOf(d) = r => exec'[d].state \notin {"pending", "started"}
  BY <1>2 DEF Drain, CancellingExecs, RunInv, TypeOK, ExecRecord
<1>8. NewRunHasNoEvents'
  BY <1>3, <1>4 DEF RunInv, NewRunHasNoEvents
<1>9. Drained(r)'
  <2>1. \A d \in Deliveries : RunOf(d) = r => ~Queued(d)'
    BY <1>2 DEF Drain, Queued, NoItem
  <2> QED  BY <1>4, <1>5, <1>7, <2>1 DEF Drained
<1>10. ASSUME NEW q \in RunIds PROVE NoNewWork(q)
  <2>1. \A d \in Deliveries : Queued(d)' => Queued(d)
    BY <1>2 DEF Drain, Queued, NoItem
  <2> QED  BY <1>4, <1>5, <1>6, <2>1 DEF NoNewWork, ActiveStates
<1> QED  BY <1>1, <1>3, <1>8, <1>9, <1>10, RunInvStep

(* Terminate, CancelExecution, DeleteQueueItem. *)
LEMMA DeliveryKeeps ==
    ASSUME NEW K, RunInv(K), NEW d \in Deliveries,
           Terminate(d) \/ CancelExecution(d) \/ DeleteQueueItem(d)
    PROVE  RunInv(K)'
<1>1. TypeOK'
  BY DeliveryRowsType DEF RunInv
<1>2. run' = run /\ event' = event
  BY DEF Terminate, CancelExecution, DeleteQueueItem
<1>3. NewRunHasNoEvents'
  BY <1>2 DEF RunInv, NewRunHasNoEvents
<1>4. \A x \in Deliveries : Queued(x)' => Queued(x)
  BY DEF Terminate, CancelExecution, DeleteQueueItem, Queued, NoItem, RunInv, TypeOK
<1>5. \A x \in Deliveries :
         \/ exec'[x].state = exec[x].state
         \/ exec'[x].state = "finished"
         \/ exec'[x].state = "cancelling" /\ exec[x].state \in {"pending", "started"}
  <2>1. CASE Terminate(d)
    <3>1. [exec[d] EXCEPT !.state = "finished", !.result = "cancelled"].state = "finished"
      BY DEF RunInv, TypeOK, ExecRecord
    <3> QED  BY <2>1, <3>1 DEF Terminate, Finished, RunInv, TypeOK
  <2>2. CASE CancelExecution(d)
    BY <2>2 DEF CancelExecution, CancellingExecs, RunInv, TypeOK, ExecRecord
  <2>3. CASE DeleteQueueItem(d)
    BY <2>3 DEF DeleteQueueItem
  <2> QED  BY <2>1, <2>2, <2>3
<1>6. ASSUME NEW r \in RunIds PROVE NoNewWork(r)
  BY <1>2, <1>4, <1>5 DEF NoNewWork, RunOf, ActiveStates
<1> QED  BY <1>1, <1>2, <1>3, <1>6, RunInvStep

(* UpdateNode, DeleteNode. *)
LEMMA NodeKeeps ==
    ASSUME NEW K, RunInv(K), NEW n \in AllNodes, UpdateNode(n) \/ DeleteNode(n)
    PROVE  RunInv(K)'
<1>1. TypeOK'
  BY NodeRowsType DEF RunInv
<1>2. run' = run /\ event' = event
  BY DEF UpdateNode, DeleteNode
<1>3. NewRunHasNoEvents'
  BY <1>2 DEF RunInv, NewRunHasNoEvents
<1>4. \A x \in Deliveries : Queued(x)' => Queued(x)
  BY DEF UpdateNode, DeleteNode, Queued, NoItem
<1>5. \A x \in Deliveries :
         \/ exec'[x].state = exec[x].state
         \/ exec'[x].state = "cancelling" /\ exec[x].state \in ActiveStates
  BY DEF UpdateNode, DeleteNode, CancellingExecs, RunInv, TypeOK, ExecRecord
<1>6. ASSUME NEW r \in RunIds PROVE NoNewWork(r)
  BY <1>2, <1>4, <1>5 DEF NoNewWork, RunOf, ActiveStates
<1> QED  BY <1>1, <1>2, <1>3, <1>6, RunInvStep

\* The inductive invariant holds of the empty system.
LEMMA RunInvInit == ASSUME NEW K PROVE Init => RunInv(K)
<1> SUFFICES ASSUME Init PROVE RunInv(K)
  OBVIOUS
<1>1. \A r \in RunIds : run[r].state = "none"
  BY DEF Init, AbsentRun
<1>2. \A e \in EventIds : event[e].run = NoRun
  BY DEF Init, NoEvent
<1>3. NewRunHasNoEvents
  BY <1>2, IdAssumption DEF NewRunHasNoEvents, NoRun
<1> QED  BY <1>1, <1>3, InitType
         DEF RunInv, FinishedRunHasNoOpenWork, CancellingRunIsDrained

\* Every step keeps the inductive invariant.
LEMMA RunInvNext == ASSUME NEW K PROVE RunInv(K) /\ [Next]_vars => RunInv(K)'
<1> SUFFICES ASSUME RunInv(K), [Next]_vars PROVE RunInv(K)'
  OBVIOUS
<1>1. CASE UNCHANGED vars
  BY <1>1 DEF vars, RunInv, TypeOK, NewRunHasNoEvents, FinishedRunHasNoOpenWork,
              CancellingRunIsDrained, HasOpenWork, RunOf, Queued
<1>2. CASE \E n \in Triggers, r \in RunIds : EmitRootEvent(n, r) \/ CreatePendingRun(n, r)
  BY <1>2, EmitRootEventKeeps, CreatePendingRunKeeps
<1>3. CASE \E r \in RunIds : InitializeRun(r) \/ FinalizeRun(r)
  BY <1>3, StartRunKeeps, FailRunKeeps, FinalizeRunKeeps DEF InitializeRun
<1>4. CASE \E r \in RunIds : CancelRun(r) \/ DrainAgain(r)
  BY <1>4, DrainKeeps
<1>5. CASE \E e \in EventIds : RouteEvent(e)
  BY <1>5, RouteEventKeeps
<1>6. CASE \E n \in Nodes : ProcessNode(n)
  BY <1>6, ProcessNodeKeeps
<1>7. CASE \E d \in Deliveries : Execute(d) \/ InvokeHook(d)
  BY <1>7, OutcomeKeeps DEF Execute, InvokeHook
<1>8. CASE \E d \in Deliveries : Terminate(d) \/ CancelExecution(d) \/ DeleteQueueItem(d)
  BY <1>8, DeliveryKeeps
<1>9. CASE \E n \in AllNodes : UpdateNode(n) \/ DeleteNode(n)
  BY <1>9, NodeKeeps
<1> QED  BY <1>1, <1>2, <1>3, <1>4, <1>5, <1>6, <1>7, <1>8, <1>9 DEF Next

(***************************************************************************)
(* A finished run has nothing left to do, for good: none of the workers,   *)
(* API calls, failures or publishes gives work to a run that               *)
(* maybeFinalizeRun or failRun has finished.                               *)
(***************************************************************************)
THEOREM FinishedRunsStayIdle == Spec => []FinishedRunHasNoOpenWork
<1>1. Init => RunInv({"finished"})
  BY RunInvInit
<1>2. RunInv({"finished"}) /\ [Next]_vars => RunInv({"finished"})'
  BY RunInvNext
<1>3. RunInv({"finished"}) => FinishedRunHasNoOpenWork
  BY DEF RunInv
<1> QED  BY <1>1, <1>2, <1>3, PTL DEF Spec

(***************************************************************************)
(* Once CancelRun has marked a run, nothing of it is left that a worker    *)
(* could move forward, and nothing comes back.                             *)
(***************************************************************************)
THEOREM CancellingRunsStayDrained == Spec => []CancellingRunIsDrained
<1>1. Init => RunInv({"cancelling"})
  BY RunInvInit
<1>2. RunInv({"cancelling"}) /\ [Next]_vars => RunInv({"cancelling"})'
  BY RunInvNext
<1>3. RunInv({"cancelling"}) => CancellingRunIsDrained
  BY DEF RunInv
<1> QED  BY <1>1, <1>2, <1>3, PTL DEF Spec

-----------------------------------------------------------------------------
(* The refinement of RunLifecycle, under the mapping of RunEngine. *)

(* What the life cycle lets one run do in a step. *)
LifeStep(r) ==
    \/ Lifecycle!Create(r) \/ Lifecycle!Initialize(r) \/ Lifecycle!Work(r)
    \/ Lifecycle!Cancel(r) \/ Lifecycle!Finish(r) \/ Lifecycle!Same(r)

(* A run has no result before it is finished. *)
UnfinishedRunHasNoResult ==
    \A r \in RunIds : run[r].state # "finished" => run[r].result = "none"

IdleInv == TypeOK /\ NewRunHasNoEvents /\ FinishedRunHasNoOpenWork

LifeInv == IdleInv /\ UnfinishedRunHasNoResult

(* The step leaves the row of run r alone and gives an idle run no work. *)
Steady(r) ==
    /\ run'[r].state = run[r].state /\ run'[r].result = run[r].result
    /\ HasOpenWork(r)' => HasOpenWork(r)

-----------------------------------------------------------------------------
\* What the refinement needs of the runs is the part about finished ones.
LEMMA IdleIsRunInv == RunInv({"finished"}) <=> IdleInv
  BY DEF RunInv, IdleInv

(* Only started and cancelling runs have open work. *)
LEMMA OnlyLiveRunsAreBusy ==
    ASSUME IdleInv, NEW r \in RunIds, HasOpenWork(r)
    PROVE  run[r].state \in {"started", "cancelling"}
<1>1. run[r].state # "finished"
  BY DEF IdleInv, FinishedRunHasNoOpenWork
<1>2. \E e \in EventIds : event[e].run = r
  BY DEF HasOpenWork, RunOf, Deliveries
<1>3. run[r].state \notin {"none", "pending"}
  BY <1>2 DEF IdleInv, NewRunHasNoEvents
<1> QED  BY <1>1, <1>3 DEF IdleInv, TypeOK, RunRecord, RunStates

(* A steady run works on, or nothing of it changes. *)
LEMMA SteadyIsLifeStep ==
    ASSUME IdleInv, NEW r \in RunIds, Steady(r)
    PROVE  LifeStep(r)
<1>1. CASE HasOpenWork(r)
  <2>1. run[r].state \in {"started", "cancelling"}
    BY <1>1, OnlyLiveRunsAreBusy
  <2>2. Lifecycle!Work(r)
    BY <1>1, <2>1 DEF Steady, Lifecycle!Work
  <2> QED  BY <2>2 DEF LifeStep
<1>2. CASE ~HasOpenWork(r)
  <2>1. ~HasOpenWork(r)'
    BY <1>2 DEF Steady
  <2>2. HasOpenWork(r) = HasOpenWork(r)'
    BY <1>2, <2>1 DEF HasOpenWork
  <2>3. Lifecycle!Same(r)
    BY <2>2 DEF Steady, Lifecycle!Same
  <2> QED  BY <2>3 DEF LifeStep
<1> QED  BY <1>1, <1>2

\* A run whose row is unchanged and that gets no new work stutters in the lifecycle.
LEMMA IdleOrSteady ==
    ASSUME NEW r \in RunIds, NoNewWork(r), run'[r] = run[r]
    PROVE  Steady(r)
  BY NoNewWorkKeeps DEF Steady

(* A run is created with its root event. *)
LEMMA StartedWithEvent ==
    ASSUME NEW r \in RunIds, NEW e \in EventIds,
           run[r].state = "none",
           run'[r].state = "started", run'[r].result = "none",
           event'[e].run = r, event'[e].state = "pending"
    PROVE  LifeStep(r)
<1>1. HasOpenWork(r)'
  BY DEF HasOpenWork
<1>2. Lifecycle!Create(r)
  BY <1>1 DEF Lifecycle!Create
<1> QED  BY <1>2 DEF LifeStep

(* A report creates the runs in its domain and touches no other run's rows. *)
LEMMA ReportSteps ==
    ASSUME IdleInv, NEW failed \in SUBSET Deliveries,
           NEW report \in OnErrorReports(failed),
           run' = RunsWith(report), event' = EventsWith(report)
    PROVE  \A r \in RunIds :
              \/ LifeStep(r)
              \/ /\ run'[r] = run[r]
                 /\ \A e \in EventIds : event'[e].run = r => event'[e] = event[e]
<1>1. DOMAIN report \subseteq FreshRuns
  BY ReportType
<1>2. \A e \in DOMAIN report : event'[e].run = e /\ event'[e].state = "pending"
  BY <1>1 DEF EventsWith, NewEvent, FreshRuns, EventIds
<1>3. ASSUME NEW r \in DOMAIN report PROVE LifeStep(r)
  <2>1. r \in RunIds /\ r \in EventIds /\ run[r].state = "none"
    BY <1>1 DEF FreshRuns, EventIds
  <2>2. run'[r] = NewRun("started", report[r].node, report[r].cause)
    BY <2>1 DEF RunsWith
  <2>3. run'[r].state = "started" /\ run'[r].result = "none"
    BY <2>2 DEF NewRun, AbsentRun
  <2> QED  BY <1>2, <2>1, <2>3, StartedWithEvent
<1>4. ASSUME NEW r \in RunIds \ DOMAIN report
      PROVE  /\ run'[r] = run[r]
             /\ \A e \in EventIds : event'[e].run = r => event'[e] = event[e]
  BY <1>2 DEF RunsWith, EventsWith
<1> QED  BY <1>3, <1>4

-----------------------------------------------------------------------------
(* Every action takes every run along the life cycle. *)

\* A root event is the lifecycle's start of a run.
LEMMA EmitRootEventSteps ==
    ASSUME IdleInv, NEW n \in Triggers, NEW r \in RunIds, EmitRootEvent(n, r)
    PROVE  \A q \in RunIds : LifeStep(q)
<1>1. /\ run[r].state = "none"
      /\ run'[r].state = "started" /\ run'[r].result = "none"
      /\ \A q \in RunIds \ {r} : run'[q] = run[q]
  BY DEF EmitRootEvent, FreshRuns, NewRun, AbsentRun, IdleInv, TypeOK
<1>2. /\ event'[r].run = r /\ event'[r].state = "pending"
      /\ \A e \in EventIds \ {r} : event'[e] = event[e]
  BY DEF EmitRootEvent, IdleInv, TypeOK, NewEvent, EventIds
<1>3. LifeStep(r)
  BY <1>1, <1>2, StartedWithEvent DEF EventIds
<1>4. ASSUME NEW q \in RunIds \ {r} PROVE LifeStep(q)
  <2>1. NoNewWork(q)
    BY <1>2 DEF NoNewWork, EmitRootEvent, RunOf, Queued, Deliveries
  <2> QED  BY <1>1, <2>1, IdleOrSteady, SteadyIsLifeStep
<1> QED  BY <1>3, <1>4

\* A pending run is the lifecycle's creation of a run.
LEMMA CreatePendingRunSteps ==
    ASSUME IdleInv, NEW n \in Triggers, NEW r \in RunIds, CreatePendingRun(n, r)
    PROVE  \A q \in RunIds : LifeStep(q)
<1>1. /\ run[r].state = "none"
      /\ run'[r].state = "pending" /\ run'[r].result = "none"
      /\ \A q \in RunIds \ {r} : run'[q] = run[q]
  BY DEF CreatePendingRun, FreshRuns, NewRun, AbsentRun, IdleInv, TypeOK
<1>2. \A q \in RunIds : NoNewWork(q)
  BY DEF NoNewWork, CreatePendingRun, RunOf, Queued
<1>3. ~HasOpenWork(r)'
  BY <1>1, <1>2, OnlyLiveRunsAreBusy, NoNewWorkKeeps
<1>4. Lifecycle!Create(r)
  BY <1>1, <1>3 DEF Lifecycle!Create
<1>5. \A q \in RunIds \ {r} : LifeStep(q)
  BY <1>1, <1>2, IdleOrSteady, SteadyIsLifeStep
<1> QED  BY <1>4, <1>5 DEF LifeStep

\* Starting a pending run is a lifecycle step of that run alone.
LEMMA StartRunSteps ==
    ASSUME LifeInv, NEW r \in RunIds, StartRun(r)
    PROVE  \A q \in RunIds : LifeStep(q)
<1>1. /\ run[r].state = "pending"
      /\ run'[r].state = "started" /\ run'[r].result = "none"
      /\ \A q \in RunIds \ {r} : run'[q] = run[q]
  BY DEF StartRun, LifeInv, UnfinishedRunHasNoResult, IdleInv, TypeOK, RunRecord
<1>2. /\ event'[r].run = r /\ event'[r].state = "pending"
      /\ \A e \in EventIds \ {r} : event'[e] = event[e]
  BY DEF StartRun, LifeInv, IdleInv, TypeOK, NewEvent, EventIds
<1>3. HasOpenWork(r)'
  BY <1>2 DEF HasOpenWork, EventIds
<1>4. Lifecycle!Initialize(r)
  BY <1>1, <1>3 DEF Lifecycle!Initialize
<1>5. ASSUME NEW q \in RunIds \ {r} PROVE LifeStep(q)
  <2>1. NoNewWork(q)
    BY <1>2 DEF NoNewWork, StartRun, RunOf, Queued, Deliveries
  <2> QED  BY <1>1, <2>1, IdleOrSteady, SteadyIsLifeStep DEF LifeInv
<1> QED  BY <1>4, <1>5 DEF LifeStep

\* Failing a pending run ends it in the lifecycle.
LEMMA FailRunSteps ==
    ASSUME IdleInv, NEW r \in RunIds, FailRun(r)
    PROVE  \A q \in RunIds : LifeStep(q)
<1>1. /\ run[r].state = "pending"
      /\ run'[r].state = "finished" /\ run'[r].result = "failed"
      /\ \A q \in RunIds \ {r} : run'[q] = run[q]
  <2>1. LET row == [run[r] EXCEPT !.state = "finished", !.result = "failed",
                                  !.errors = TRUE]
        IN  row.state = "finished" /\ row.result = "failed"
    BY DEF IdleInv, TypeOK, RunRecord
  <2> QED  BY <2>1 DEF FailRun, IdleInv, TypeOK
<1>2. \A q \in RunIds : NoNewWork(q)
  BY DEF NoNewWork, FailRun, RunOf, Queued
<1>3. ~HasOpenWork(r)'
  BY <1>1, <1>2, OnlyLiveRunsAreBusy, NoNewWorkKeeps
<1>4. Lifecycle!Initialize(r)
  BY <1>1, <1>3 DEF Lifecycle!Initialize
<1>5. \A q \in RunIds \ {r} : LifeStep(q)
  BY <1>1, <1>2, IdleOrSteady, SteadyIsLifeStep
<1> QED  BY <1>4, <1>5 DEF LifeStep

\* Finalising a run ends it in the lifecycle, once it is drained.
LEMMA FinalizeRunSteps ==
    ASSUME IdleInv, NEW r \in RunIds, FinalizeRun(r)
    PROVE  \A q \in RunIds : LifeStep(q)
<1>1. /\ run'[r].state = "finished" /\ run'[r].result = ResultOf(r)
      /\ \A q \in RunIds \ {r} : run'[q] = run[q]
  <2>1. LET row == [run[r] EXCEPT !.state = "finished", !.result = ResultOf(r)]
        IN  row.state = "finished" /\ row.result = ResultOf(r)
    BY DEF IdleInv, TypeOK, RunRecord
  <2> QED  BY <2>1 DEF FinalizeRun, IdleInv, TypeOK
<1>2. \A q \in RunIds : NoNewWork(q)
  BY DEF NoNewWork, FinalizeRun, RunOf, Queued
<1>3. ~HasOpenWork(r) /\ ~HasOpenWork(r)'
  BY <1>2, NoNewWorkKeeps DEF FinalizeRun
<1>4. ResultOf(r) \in IF run[r].state = "cancelling" THEN {"cancelled"}
                      ELSE {"passed", "failed", "cancelled"}
  BY DEF ResultOf
<1>5. Lifecycle!Finish(r)
  BY <1>1, <1>3, <1>4 DEF Lifecycle!Finish, FinalizeRun
<1>6. \A q \in RunIds \ {r} : LifeStep(q)
  BY <1>1, <1>2, IdleOrSteady, SteadyIsLifeStep
<1> QED  BY <1>5, <1>6 DEF LifeStep

(* The run of a pending event is busy; the router touches no other's work. *)
LEMMA RouteEventSteps ==
    ASSUME IdleInv, NEW e \in EventIds, RouteEvent(e)
    PROVE  \A q \in RunIds : LifeStep(q)
<1> SUFFICES ASSUME NEW q \in RunIds PROVE Steady(q)
  BY SteadyIsLifeStep
<1>1. PICK now \in Stamps :
         item' = [d \in Deliveries |->
                    IF d[1] = e /\ d[2] \in RouteTargets(e)
                    THEN [at |-> now, queue |-> Unresolved]
                    ELSE item[d]]
  BY DEF RouteEvent
<1>2. \A x \in EventIds : event'[x].run = event[x].run
                       /\ (event'[x].state = "pending" => event[x].state = "pending")
  BY DEF RouteEvent, IdleInv, TypeOK, EventRecord
<1>3. run' = run /\ exec' = exec
  BY DEF RouteEvent
<1>4. CASE event[e].run = q
  <2>1. HasOpenWork(q)
    BY <1>4 DEF HasOpenWork, RouteEvent
  <2> QED  BY <1>3, <2>1 DEF Steady
<1>5. CASE event[e].run # q
  <2>1. \A d \in Deliveries : RunOf(d)' = q => item'[d] = item[d]
    BY <1>1, <1>2, <1>5 DEF RunOf
  <2>2. NoNewWork(q)
    BY <1>2, <1>3, <2>1 DEF NoNewWork, Queued
  <2> QED  BY <1>3, <2>2, IdleOrSteady
<1> QED  BY <1>4, <1>5

(* The run of an item in a pass is busy; the pass touches no other's work. *)
LEMMA ProcessNodeSteps ==
    ASSUME IdleInv, NEW n \in Nodes, ProcessNode(n)
    PROVE  \A q \in RunIds : LifeStep(q)
<1> DEFINE rows == [d \in Window(n) |-> item[d]]
           L    == Live(Window(n))
<1>1. L \subseteq Deliveries /\ \A d \in L : Queued(d)
  BY DEF Live, Window, Actionable
<1>2. PICK name \in QueueNames(n, rows, L), bad \in SUBSET L :
        DispatchAs(n, rows, L, name, bad)
  BY DEF ProcessNode, Dispatch
<1> DEFINE admitted == Reached(n, rows, L, name, bad) \ bad
           failed   == bad \cup {d \in L : name[d] = KeyError}
<1>3. admitted \subseteq L /\ failed \subseteq L
  BY DEF Reached
<1>4. PICK report \in OnErrorReports(failed) :
         run' = RunsWith(report) /\ event' = EventsWith(report)
  BY <1>2 DEF DispatchAs
<1>5. ASSUME NEW q \in RunIds, run'[q] = run[q],
             \A e \in EventIds : event'[e].run = q => event'[e] = event[e]
      PROVE  Steady(q)
  <2>1. CASE \E d \in L : RunOf(d) = q
    <3>1. HasOpenWork(q)
      BY <1>1, <2>1 DEF HasOpenWork
    <3> QED  BY <1>5, <3>1 DEF Steady
  <2>2. CASE \A d \in L : RunOf(d) # q
    <3>1. \A d \in Deliveries : RunOf(d)' = q => d \notin L
      BY <1>5, <2>2 DEF RunOf, Deliveries
    <3>2. \A d \in Deliveries : d \notin L => exec'[d] = exec[d]
      BY <1>2, <1>3 DEF DispatchAs
    <3>3. \A d \in Deliveries : d \notin L => item'[d] \in {NoItem, item[d]}
      BY <1>2 DEF DispatchAs
    <3>4. \A d \in Deliveries : RunOf(d)' = q => (Queued(d)' => Queued(d))
      BY <3>1, <3>3 DEF Queued, NoItem
    <3>5. NoNewWork(q)
      BY <1>5, <3>1, <3>2, <3>4 DEF NoNewWork
    <3> QED  BY <1>5, <3>5, IdleOrSteady
  <2> QED  BY <2>1, <2>2
<1>6. \A q \in RunIds :
         \/ LifeStep(q)
         \/ /\ run'[q] = run[q]
            /\ \A e \in EventIds : event'[e].run = q => event'[e] = event[e]
  BY <1>1, <1>3, <1>4, ReportSteps
<1> QED  BY <1>5, <1>6, SteadyIsLifeStep

(* The run of an active execution is busy; its outcome adds to no other's. *)
LEMMA OutcomeSteps ==
    ASSUME IdleInv, NEW d \in Deliveries, exec[d].state \in {"pending", "started"},
           Begin(d) \/ Pass(d) \/ Fail(d)
    PROVE  \A q \in RunIds : LifeStep(q)
<1>1. item' = item /\ \A x \in Deliveries \ {d} : exec'[x] = exec[x]
  BY DEF Begin, Pass, Fail, Finished, IdleInv, TypeOK
<1>2. ASSUME NEW q \in RunIds,
             run'[q].state = run[q].state, run'[q].result = run[q].result,
             RunOf(d) # q =>
                \A e \in EventIds : event'[e].run = q => event'[e] = event[e]
      PROVE  LifeStep(q)
  <2>1. CASE RunOf(d) = q
    <3>1. HasOpenWork(q)
      BY <2>1 DEF HasOpenWork, ActiveStates
    <3> QED  BY <1>2, <3>1, SteadyIsLifeStep DEF Steady
  <2>2. CASE RunOf(d) # q
    <3>1. \A x \in Deliveries : RunOf(x)' = q => RunOf(x) = q
      BY <1>2, <2>2 DEF RunOf, Deliveries
    <3>2. NoNewWork(q)
      BY <1>1, <1>2, <2>2, <3>1 DEF NoNewWork, Queued
    <3>3. Steady(q)
      BY <1>2, <3>2, NoNewWorkKeeps DEF Steady
    <3> QED  BY <3>3, SteadyIsLifeStep
  <2> QED  BY <2>1, <2>2
<1>3. CASE Begin(d)
  BY <1>2, <1>3 DEF Begin
<1>4. CASE Pass(d)
  <2>1. PICK outs \in FreshOutputs, c \in Channels :
          event' = [e \in EventIds |-> IF e \in outs THEN NewEvent(RunOf(d), d[2], c)
                                      ELSE event[e]]
    BY <1>4 DEF Pass
  <2>2. \A e \in EventIds : event'[e].run # RunOf(d) => event'[e] = event[e]
    BY <2>1 DEF NewEvent
  <2>3. \A q \in RunIds : run'[q].state = run[q].state /\ run'[q].result = run[q].result
    BY <1>4 DEF Pass, IdleInv, TypeOK, RunRecord
  <2> QED  BY <1>2, <2>2, <2>3
<1>5. CASE Fail(d)
  <2>1. PICK report \in OnErrorReports({d}) :
           run' = RunsWith(report) /\ event' = EventsWith(report)
    BY <1>5 DEF Fail
  <2> QED  BY <1>2, <2>1, ReportSteps
<1> QED  BY <1>3, <1>4, <1>5

(* A drain takes work away, from the run it cancels. *)
LEMMA DrainAddsNoWork ==
    ASSUME IdleInv, NEW r \in RunIds, Drain(r)
    PROVE  \A q \in RunIds : NoNewWork(q)
<1>1. \A e \in EventIds : /\ event'[e].run = event[e].run
                          /\ event'[e].state = "pending" => event[e].state = "pending"
  <2>1. \A e \in EventIds : /\ [event[e] EXCEPT !.state = "routed"].run = event[e].run
                           /\ [event[e] EXCEPT !.state = "routed"].state = "routed"
    BY DEF IdleInv, TypeOK, EventRecord
  <2> QED  BY <2>1 DEF Drain
<1>2. \A d \in Deliveries : exec'[d].state # exec[d].state =>
         exec'[d].state = "cancelling" /\ exec[d].state \in {"pending", "started"}
  BY DEF Drain, CancellingExecs, IdleInv, TypeOK, ExecRecord
<1>3. \A d \in Deliveries : Queued(d)' => Queued(d)
  BY DEF Drain, Queued, NoItem
<1> QED  BY <1>1, <1>2, <1>3 DEF NoNewWork, ActiveStates

\* A cancel request is the lifecycle's cancellation of that run.
LEMMA CancelRunSteps ==
    ASSUME IdleInv, NEW r \in RunIds, CancelRun(r)
    PROVE  \A q \in RunIds : LifeStep(q)
<1>1. /\ run[r].state \in {"pending", "started"}
      /\ run'[r].state = "cancelling" /\ run'[r].result = run[r].result
      /\ \A q \in RunIds \ {r} : run'[q] = run[q]
  BY DEF CancelRun, IdleInv, TypeOK, RunRecord
<1>2. \A q \in RunIds : NoNewWork(q)
  BY DrainAddsNoWork DEF CancelRun
<1>3. HasOpenWork(r)' => HasOpenWork(r)
  BY <1>2, NoNewWorkKeeps
<1>4. Lifecycle!Cancel(r)
  BY <1>1, <1>3 DEF Lifecycle!Cancel
<1>5. \A q \in RunIds \ {r} : LifeStep(q)
  BY <1>1, <1>2, IdleOrSteady, SteadyIsLifeStep
<1> QED  BY <1>4, <1>5 DEF LifeStep

\* Draining a cancelling run again adds no work to any run.
LEMMA DrainAgainSteps ==
    ASSUME IdleInv, NEW r \in RunIds, DrainAgain(r)
    PROVE  \A q \in RunIds : LifeStep(q)
<1>1. \A q \in RunIds : NoNewWork(q)
  BY DrainAddsNoWork DEF DrainAgain
<1>2. run' = run
  BY DEF DrainAgain
<1> QED  BY <1>1, <1>2, IdleOrSteady, SteadyIsLifeStep

(* A step that only finishes executions, cancels active ones and deletes   *)
(* queue items.                                                            *)
LEMMA RemovalSteps ==
    ASSUME IdleInv, run' = run, event' = event,
           \A x \in Deliveries : Queued(x)' => Queued(x),
           \A x \in Deliveries :
              \/ exec'[x].state = exec[x].state
              \/ exec'[x].state = "finished"
              \/ exec'[x].state = "cancelling" /\ exec[x].state \in ActiveStates
    PROVE  \A q \in RunIds : LifeStep(q)
<1>1. ASSUME NEW q \in RunIds PROVE Steady(q)
  BY DEF Steady, HasOpenWork, RunOf, ActiveStates
<1> QED  BY <1>1, SteadyIsLifeStep

(* Terminate, CancelExecution, DeleteQueueItem. *)
LEMMA DeliverySteps ==
    ASSUME IdleInv, NEW d \in Deliveries,
           Terminate(d) \/ CancelExecution(d) \/ DeleteQueueItem(d)
    PROVE  \A q \in RunIds : LifeStep(q)
<1>1. run' = run /\ event' = event
  BY DEF Terminate, CancelExecution, DeleteQueueItem
<1>2. \A x \in Deliveries : Queued(x)' => Queued(x)
  BY DEF Terminate, CancelExecution, DeleteQueueItem, Queued, NoItem, IdleInv, TypeOK
<1>3. \A x \in Deliveries :
         \/ exec'[x].state = exec[x].state
         \/ exec'[x].state = "finished"
         \/ exec'[x].state = "cancelling" /\ exec[x].state \in ActiveStates
  <2>1. CASE Terminate(d)
    <3>1. [exec[d] EXCEPT !.state = "finished", !.result = "cancelled"].state = "finished"
      BY DEF IdleInv, TypeOK, ExecRecord
    <3> QED  BY <2>1, <3>1 DEF Terminate, Finished, IdleInv, TypeOK
  <2>2. CASE CancelExecution(d)
    BY <2>2 DEF CancelExecution, CancellingExecs, IdleInv, TypeOK, ExecRecord,
                ActiveStates
  <2>3. CASE DeleteQueueItem(d)
    BY <2>3 DEF DeleteQueueItem
  <2> QED  BY <2>1, <2>2, <2>3
<1> QED  BY <1>1, <1>2, <1>3, RemovalSteps

(* UpdateNode, DeleteNode. *)
LEMMA NodeSteps ==
    ASSUME IdleInv, NEW n \in AllNodes, UpdateNode(n) \/ DeleteNode(n)
    PROVE  \A q \in RunIds : LifeStep(q)
<1>1. run' = run /\ event' = event
  BY DEF UpdateNode, DeleteNode
<1>2. \A x \in Deliveries : Queued(x)' => Queued(x)
  BY DEF UpdateNode, DeleteNode, Queued, NoItem
<1>3. \A x \in Deliveries :
         \/ exec'[x].state = exec[x].state
         \/ exec'[x].state = "cancelling" /\ exec[x].state \in ActiveStates
  BY DEF UpdateNode, DeleteNode, CancellingExecs, IdleInv, TypeOK, ExecRecord
<1> QED  BY <1>1, <1>2, <1>3, RemovalSteps

-----------------------------------------------------------------------------
\* The empty system maps to the lifecycle's initial state.
LEMMA LifeInit == Init => Lifecycle!LifecycleInit /\ LifeInv
<1> SUFFICES ASSUME Init PROVE Lifecycle!LifecycleInit /\ LifeInv
  OBVIOUS
<1>1. \A r \in RunIds : run[r].state = "none" /\ run[r].result = "none"
  BY DEF Init, AbsentRun
<1>2. IdleInv /\ UnfinishedRunHasNoResult
  BY <1>1, RunInvInit, IdleIsRunInv DEF UnfinishedRunHasNoResult
<1>3. \A r \in RunIds : HasOpenWork(r) = FALSE
  <2>1. \A r \in RunIds : ~HasOpenWork(r)
    BY <1>1, <1>2, OnlyLiveRunsAreBusy
  <2> QED  BY <2>1 DEF HasOpenWork
<1> QED  BY <1>1, <1>2, <1>3 DEF LifeInv, Lifecycle!LifecycleInit

\* Steps of the runs make a step of the life cycle.
LEMMA LifeStepsKeep ==
    ASSUME LifeInv, \A q \in RunIds : LifeStep(q), IdleInv'
    PROVE  Lifecycle!LifecycleNext /\ LifeInv'
<1>1. Lifecycle!LifecycleNext
  BY DEF LifeStep, Lifecycle!LifecycleNext
<1>2. UnfinishedRunHasNoResult'
  BY DEF LifeInv, UnfinishedRunHasNoResult, LifeStep, Lifecycle!Create,
         Lifecycle!Initialize, Lifecycle!Work, Lifecycle!Cancel, Lifecycle!Finish,
         Lifecycle!Same
<1> QED  BY <1>1, <1>2 DEF LifeInv

\* Every step maps to a lifecycle step or a stutter.
LEMMA LifeNext ==
    LifeInv /\ [Next]_vars => [Lifecycle!LifecycleNext]_(Lifecycle!lifecycleVars) /\ LifeInv'
<1> SUFFICES ASSUME LifeInv, [Next]_vars
             PROVE  (\A q \in RunIds : LifeStep(q)) /\ IdleInv'
  BY LifeStepsKeep
<1>1. IdleInv
  BY DEF LifeInv
<1>2. IdleInv'
  <2>1. RunInv({"finished"}) /\ [Next]_vars => RunInv({"finished"})'
    BY RunInvNext
  <2>2. RunInv({"finished"})'
    BY <1>1, <2>1, IdleIsRunInv
  <2> QED  BY <2>2 DEF RunInv, IdleInv
<1>3. CASE UNCHANGED vars
  <2>1. ASSUME NEW q \in RunIds PROVE Steady(q)
    BY <1>3 DEF vars, Steady, HasOpenWork, RunOf, Queued
  <2> QED  BY <1>1, <1>2, <2>1, SteadyIsLifeStep
<1>4. CASE \E n \in Triggers, r \in RunIds : EmitRootEvent(n, r) \/ CreatePendingRun(n, r)
  BY <1>1, <1>2, <1>4, EmitRootEventSteps, CreatePendingRunSteps
<1>5. CASE \E r \in RunIds : InitializeRun(r) \/ FinalizeRun(r)
  BY <1>1, <1>2, <1>5, StartRunSteps, FailRunSteps, FinalizeRunSteps DEF InitializeRun
<1>6. CASE \E r \in RunIds : CancelRun(r) \/ DrainAgain(r)
  BY <1>1, <1>2, <1>6, CancelRunSteps, DrainAgainSteps
<1>7. CASE \E e \in EventIds : RouteEvent(e)
  BY <1>1, <1>2, <1>7, RouteEventSteps
<1>8. CASE \E n \in Nodes : ProcessNode(n)
  BY <1>1, <1>2, <1>8, ProcessNodeSteps
<1>9. CASE \E d \in Deliveries : Execute(d) \/ InvokeHook(d)
  BY <1>1, <1>2, <1>9, OutcomeSteps DEF Execute, InvokeHook
<1>10. CASE \E d \in Deliveries : Terminate(d) \/ CancelExecution(d) \/ DeleteQueueItem(d)
  BY <1>1, <1>2, <1>10, DeliverySteps
<1>11. CASE \E n \in AllNodes : UpdateNode(n) \/ DeleteNode(n)
  BY <1>1, <1>2, <1>11, NodeSteps
<1> QED  BY <1>2, <1>3, <1>4, <1>5, <1>6, <1>7, <1>8, <1>9, <1>10, <1>11 DEF Next

(***************************************************************************)
(* The engine implements the life cycle: in every transaction every run    *)
(* takes one of its steps, so no run skips a state, loses or changes its   *)
(* result, finishes with work left, or gets work when it has none.         *)
(***************************************************************************)
THEOREM EngineImplementsLifecycle == Spec => ImplementsLifecycle
  BY LifeInit, LifeNext, PTL DEF Spec, ImplementsLifecycle, Lifecycle!LifecycleSpec
=============================================================================
