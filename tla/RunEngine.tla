----------------------------- MODULE RunEngine -----------------------------
(***************************************************************************)
(* The run engine of one canvas: runs, events, per-node queue items and    *)
(* node executions, and the workers and API calls that move them           *)
(* (pkg/workers, pkg/models, pkg/grpc/actions/canvases).                   *)
(*                                                                         *)
(* Every action is one database transaction of the code, with everything   *)
(* the transaction writes.  RabbitMQ messages only wake a worker up early: *)
(* each worker also polls the tables, so an action is enabled by the rows  *)
(* and never by a message, and losing or repeating a message is a step     *)
(* that leaves the rows alone.                                             *)
(*                                                                         *)
(* Here a transaction reads and writes without another one in between.     *)
(* Module ReadCommitted takes that away from the transactions whose reads  *)
(* hold no lock.                                                           *)
(***************************************************************************)
EXTENDS Integers, FiniteSets

CONSTANTS
    Nodes,             \* component nodes with the engine's default queue processing
    Triggers,          \* trigger nodes: they emit root events
    OnErrorNodes,      \* the triggers that react to failed executions
    Entrypoints,       \* the triggers a pending (sub-)run can be created for
    Channels,          \* output channels
    DefaultChannel,    \* the channel of every root event
    Edges,             \* live canvas edges: records [src, channel, dst]
    Max,               \* concurrency_max of every component node
    Queues,            \* queue names a concurrency key can resolve to
    KeyResults,        \* per node: what its concurrency key can evaluate to
    ConfigErrorNodes,  \* nodes whose configuration may fail to build
    RunErrorNodes,     \* nodes running the addRunError component
    ScanLimit,         \* queueItemScanLimit
    RunIds,            \* bound: runs that can be created
    OutputIds,         \* bound: execution output events that can be created
    MaxEmit,           \* bound: events per Emit (config.MaxEmitCount)
    Stamps,            \* bound: creation times of queue items
    Breakable,         \* nodes a publish may put in the error state
    Deletable          \* nodes a publish may delete

AllNodes == Nodes \cup Triggers

(* A run has at most one root event; the two share an identifier. *)
EventIds == RunIds \cup OutputIds

(***************************************************************************)
(* A delivery is an event on its way to a node along an edge.  The router  *)
(* makes it a queue item, the queue worker turns that into an execution:   *)
(* both rows carry the event and the node, which identify them.            *)
(***************************************************************************)
Deliveries == EventIds \X Nodes

Unresolved == "unresolved"      \* queue_name IS NULL
KeyError   == "key_error"       \* the concurrency key does not evaluate
NoRun      == 0                 \* no run row
NoNode     == "no_node"
NoCause    == <<0, NoNode>>

ASSUME IdAssumption ==
    /\ RunIds \subseteq Nat \ {0} /\ OutputIds \subseteq Nat \ {0}
    /\ RunIds \cap OutputIds = {}
    /\ Stamps \subseteq Nat \ {0}

ASSUME FiniteAssumption == IsFiniteSet(RunIds) /\ IsFiniteSet(OutputIds)

ASSUME NodeAssumption ==
    /\ Nodes \cap Triggers = {} /\ NoNode \notin Nodes \cup Triggers
    /\ OnErrorNodes \subseteq Triggers /\ Entrypoints \subseteq Triggers
    /\ DefaultChannel \in Channels
    /\ \A x \in Edges : x.dst \in Nodes

ASSUME QueueAssumption ==
    /\ Max \in [Nodes -> Nat \ {0}]
    /\ ScanLimit \in Nat \ {0} /\ MaxEmit \in Nat
    /\ Unresolved \notin Queues /\ KeyError \notin Queues
    /\ KeyResults \in [Nodes -> SUBSET (Queues \cup {KeyError})]

VARIABLES
    run,     \* workflow_runs
    event,   \* workflow_events
    item,    \* workflow_node_queue_items, at = 0 where there is no row
    exec,    \* workflow_node_executions, state "none" where there is no row
    node     \* workflow_nodes.state, or "deleted"

vars == <<run, event, item, exec, node>>

RunStates    == {"none", "pending", "started", "cancelling", "finished"}
ActiveStates == {"pending", "started", "cancelling"}
Results      == {"none", "passed", "failed", "cancelled"}

RunRecord ==
    [state : RunStates, result : Results, node : AllNodes \cup {NoNode},
     errors : BOOLEAN, cause : Deliveries \cup {NoCause}]
EventRecord ==
    [state : {"none", "pending", "routed"}, run : RunIds \cup {NoRun},
     node : AllNodes \cup {NoNode}, channel : Channels]
ItemRecord == [at : Stamps \cup {0}, queue : Queues \cup {Unresolved}]
ExecRecord ==
    [state : ActiveStates \cup {"none", "finished"}, result : Results,
     queue : Queues \cup {Unresolved}]

(* The rows the code can store. *)
TypeOK ==
    /\ run   \in [RunIds -> RunRecord]
    /\ event \in [EventIds -> EventRecord]
    /\ item  \in [Deliveries -> ItemRecord]
    /\ exec  \in [Deliveries -> ExecRecord]
    /\ node  \in [AllNodes -> {"ready", "error", "deleted"}]

NoItem  == [at |-> 0, queue |-> Unresolved]
NoExec  == [state |-> "none", result |-> "none", queue |-> Unresolved]
NoEvent == [state |-> "none", run |-> NoRun, node |-> NoNode,
            channel |-> DefaultChannel]
AbsentRun == [state |-> "none", result |-> "none", node |-> NoNode,
              errors |-> FALSE, cause |-> NoCause]

Init ==
    /\ run   = [r \in RunIds |-> AbsentRun]
    /\ event = [e \in EventIds |-> NoEvent]
    /\ item  = [d \in Deliveries |-> NoItem]
    /\ exec  = [d \in Deliveries |-> NoExec]
    /\ node  = [n \in AllNodes |-> "ready"]

-----------------------------------------------------------------------------
(* Reading the rows. *)

RunOf(d) == event[d[1]].run

Queued(d) == item[d].at # 0

(* FindOpenWork: what keeps a run from being finalized. *)
HasOpenWork(r) ==
    \/ \E d \in Deliveries : RunOf(d) = r /\ exec[d].state \in ActiveStates
    \/ \E d \in Deliveries : RunOf(d) = r /\ Queued(d)
    \/ \E e \in EventIds : event[e].run = r /\ event[e].state = "pending"

ActiveInQueue(n, q) ==
    Cardinality({e \in EventIds : /\ exec[<<e, n>>].queue = q
                                  /\ exec[<<e, n>>].state \in ActiveStates})

(* Mutant of ResultOf: the errors of the run are not looked at. *)
ResultWithoutErrors(r) ==
    LET has(result) ==
            \E d \in Deliveries : RunOf(d) = r /\ exec[d].result = result
    IN  IF run[r].state = "cancelling" THEN "cancelled"
        ELSE IF has("failed") THEN "failed"
        ELSE IF has("cancelled") THEN "cancelled"
        ELSE "passed"

(* CalculateResult. *)
ResultOf(r) ==
    LET has(result) ==
            \E d \in Deliveries : RunOf(d) = r /\ exec[d].result = result
    IN  IF run[r].state = "cancelling" THEN "cancelled"
        ELSE IF run[r].errors \/ has("failed") THEN "failed"
        ELSE IF has("cancelled") THEN "cancelled"
        ELSE "passed"

-----------------------------------------------------------------------------
(* Creating runs and events. *)

FreshRuns == {r \in RunIds : run[r].state = "none"}

(* Identifiers are used in order; the order carries no meaning. *)
Lowest(S, pool) == \A x \in S, y \in pool \ S : x < y

FreshOutputs ==
    LET pool == {e \in OutputIds : event[e].state = "none"}
    IN  {S \in SUBSET pool : Cardinality(S) <= MaxEmit /\ Lowest(S, pool)}

NewRun(state, n, cause) ==
    [AbsentRun EXCEPT !.state = state, !.node = n, !.cause = cause]

NewEvent(r, n, c) ==
    [state |-> "pending", run |-> r, node |-> n, channel |-> c]

(***************************************************************************)
(* dispatchOnError for a set of failed deliveries: every On Error node     *)
(* that is not deleted gets a root event, and so a run, per failure,       *)
(* except for failures in a run that an On Error node started.  The caller *)
(* DispatchOnError logs an error and goes on, so any failure may also be   *)
(* left without its events.  A report maps the new runs to the node they   *)
(* start at and the failed delivery they are about.                        *)
(***************************************************************************)
LiveOnErrorNodes == {n \in OnErrorNodes : node[n] # "deleted"}

(* Mutant of Reportable: no loop prevention. *)
AlwaysReportable(d) == TRUE

Reportable(d) == run[RunOf(d)].node \notin LiveOnErrorNodes

OnErrorReports(failed) ==
    LET subject == [node : LiveOnErrorNodes, cause : {d \in failed : Reportable(d)}]
    IN  {f \in UNION {[S -> subject] : S \in SUBSET FreshRuns} :
            /\ Lowest(DOMAIN f, FreshRuns)
            /\ \A r, q \in DOMAIN f : f[r] = f[q] => r = q
            /\ \A r \in DOMAIN f, n \in LiveOnErrorNodes :
                  \E q \in DOMAIN f : f[q] = [f[r] EXCEPT !.node = n]}

RunsWith(report) ==
    [r \in RunIds |-> IF r \in DOMAIN report
                      THEN NewRun("started", report[r].node, report[r].cause)
                      ELSE run[r]]

EventsWith(report) ==
    [e \in EventIds |-> IF e \in DOMAIN report
                        THEN NewEvent(e, report[e].node, DefaultChannel)
                        ELSE event[e]]

(***************************************************************************)
(* A trigger fires (webhook, schedule, manual start): the event's          *)
(* BeforeCreate hook creates its run in the started state.                 *)
(***************************************************************************)
EmitRootEvent(n, r) ==
    /\ n \in Triggers \ OnErrorNodes /\ node[n] # "deleted"
    /\ r \in FreshRuns /\ Lowest({r}, FreshRuns)
    /\ run' = [run EXCEPT ![r] = NewRun("started", n, NoCause)]
    /\ event' = [event EXCEPT ![r] = NewEvent(r, n, DefaultChannel)]
    /\ UNCHANGED <<item, exec, node>>

(* A sub-run or a factory step is created pending; it has no event yet. *)
CreatePendingRun(n, r) ==
    /\ n \in Entrypoints /\ node[n] # "deleted"
    /\ r \in FreshRuns /\ Lowest({r}, FreshRuns)
    /\ run' = [run EXCEPT ![r] = NewRun("pending", n, NoCause)]
    /\ UNCHANGED <<event, item, exec, node>>

(***************************************************************************)
(* RunInitializer: dispatch the pending callback, which emits the root     *)
(* event into the run, and start the run ...                               *)
(***************************************************************************)
StartRun(r) ==
    /\ run[r].state = "pending"
    /\ node[run[r].node] # "deleted"
    /\ run' = [run EXCEPT ![r].state = "started"]
    /\ event' = [event EXCEPT ![r] = NewEvent(r, run[r].node, DefaultChannel)]
    /\ UNCHANGED <<item, exec, node>>

(* ... or, when the callback fails, finish the run as failed. *)
FailRun(r) ==
    /\ run[r].state = "pending"
    /\ run' = [run EXCEPT ![r] = [@ EXCEPT !.state = "finished", !.result = "failed",
                                           !.errors = TRUE]]
    /\ UNCHANGED <<event, item, exec, node>>

InitializeRun(r) == StartRun(r) \/ FailRun(r)

-----------------------------------------------------------------------------
(***************************************************************************)
(* EventRouter: a pending event becomes one queue item per outgoing edge,  *)
(* except towards nodes in the error state, and none at all once the run   *)
(* is cancelling.  Publishing removes a node's edges with the node.        *)
(***************************************************************************)
OutgoingTargets(e) ==
    {x.dst : x \in {y \in Edges : /\ y.src = event[e].node
                                  /\ y.channel = event[e].channel
                                  /\ node[y.src] # "deleted"
                                  /\ node[y.dst] # "deleted"}}

RouteTargets(e) ==
    IF run[event[e].run].state = "cancelling" THEN {}
    ELSE {n \in OutgoingTargets(e) : node[n] # "error"}

(* t is the time now: the least stamp later than every queued item's. *)
IsNow(t) ==
    /\ \A d \in Deliveries : item[d].at < t
    /\ \A u \in Stamps : u < t => \E d \in Deliveries : u <= item[d].at

(* Mutant of RouteEvent: the event is not marked routed. *)
RouteEventAgain(e) ==
    /\ event[e].state = "pending"
    /\ \E now \in Stamps :
        /\ IsNow(now)
        /\ item' = [d \in Deliveries |->
                       IF d[1] = e /\ d[2] \in RouteTargets(e)
                       THEN [at |-> now, queue |-> Unresolved]
                       ELSE item[d]]
    /\ UNCHANGED <<run, event, exec, node>>

RouteEvent(e) ==
    /\ event[e].state = "pending"
    /\ event' = [event EXCEPT ![e].state = "routed"]
    /\ \E now \in Stamps :
        /\ IsNow(now)
        /\ item' = [d \in Deliveries |->
                       IF d[1] = e /\ d[2] \in RouteTargets(e)
                       THEN [at |-> now, queue |-> Unresolved]
                       ELSE item[d]]
    /\ UNCHANGED <<run, exec, node>>

-----------------------------------------------------------------------------
(***************************************************************************)
(* NodeQueueWorker.  One pass over a node's backlog: list the oldest       *)
(* actionable items (up to ScanLimit), drop those of cancelling runs,      *)
(* resolve the queue name of the others, and start, in order of age, every *)
(* item whose queue has a free slot.                                       *)
(***************************************************************************)
(* Mutants of Actionable: items waiting on full queues are listed too ... *)
AnyQueued(n) == {d \in Deliveries : d[2] = n /\ Queued(d)}

(* ... and items without a queue name are not. *)
ResolvedOnly(n) ==
    {d \in Deliveries :
        /\ d[2] = n /\ Queued(d)
        /\ item[d].queue # Unresolved /\ ActiveInQueue(n, item[d].queue) < Max[n]}

Actionable(n) ==
    {d \in Deliveries :
        /\ d[2] = n /\ Queued(d)
        /\ item[d].queue = Unresolved \/ ActiveInQueue(n, item[d].queue) < Max[n]}

(* Mutant of Window: the newest items first. *)
NewestWindow(n) ==
    {d \in Actionable(n) :
        Cardinality({x \in Actionable(n) : item[x].at > item[d].at}) < ScanLimit}

Window(n) ==
    {d \in Actionable(n) :
        Cardinality({x \in Actionable(n) : item[x].at < item[d].at}) < ScanLimit}

Live(W) == {d \in W : run[RunOf(d)].state # "cancelling"}

(* ResolveQueueName: a stored name is kept, a missing one is evaluated. *)
QueueNames(n, rows, L) ==
    {name \in [L -> Queues \cup {KeyError}] :
        \A d \in L : IF rows[d].queue = Unresolved
                     THEN name[d] \in KeyResults[n]
                     ELSE name[d] = rows[d].queue}

(* Mutants of Reached: the executions this pass has started are not counted ... *)
ReachedByOldCount(n, rows, L, name, bad) ==
    {d \in L : name[d] # KeyError /\ ActiveInQueue(n, name[d]) < Max[n]}

(* ... and an unresolvable name is used as it is. *)
ReachedUnresolved(n, rows, L, name, bad) ==
    {d \in L :
        LET ahead == {x \in L \ bad : name[x] = name[d] /\ rows[x].at < rows[d].at}
        IN  ActiveInQueue(n, name[d]) + Cardinality(ahead) < Max[n]}

(***************************************************************************)
(* The items the capacity check lets through: fewer than Max executions    *)
(* are active in the item's queue, those this pass has already started     *)
(* included.  An item in bad fails to build its configuration, which takes *)
(* no slot.                                                                *)
(***************************************************************************)
Reached(n, rows, L, name, bad) ==
    {d \in L :
        /\ name[d] # KeyError
        /\ LET ahead == {x \in L \ bad : name[x] = name[d] /\ rows[x].at < rows[d].at}
           IN  ActiveInQueue(n, name[d]) + Cardinality(ahead) < Max[n]}

(***************************************************************************)
(* The writes of a pass that listed the given item rows and kept those of  *)
(* L: started items become pending executions, items with an unresolvable  *)
(* name or configuration become failed ones, blocked items store their     *)
(* resolved name, and the failures are reported to the On Error nodes.     *)
(***************************************************************************)
DispatchAs(n, rows, L, name, bad) ==
    LET reached  == Reached(n, rows, L, name, bad)
        admitted == reached \ bad
        failed   == bad \cup {d \in L : name[d] = KeyError}
        blocked  == L \ (admitted \cup failed)
    IN  /\ bad \subseteq reached
        /\ bad = {} \/ n \in ConfigErrorNodes
        /\ item' = [d \in Deliveries |->
                       IF d \in blocked /\ Queued(d)
                       THEN [item[d] EXCEPT !.queue = name[d]]
                       ELSE IF d \in DOMAIN rows THEN NoItem ELSE item[d]]
        /\ exec' = [d \in Deliveries |->
                       IF d \in admitted
                       THEN [state |-> "pending", result |-> "none", queue |-> name[d]]
                       ELSE IF d \in failed
                       THEN [state |-> "finished", result |-> "failed", queue |-> Unresolved]
                       ELSE exec[d]]
        /\ \E report \in OnErrorReports(failed) :
            /\ run' = RunsWith(report)
            /\ event' = EventsWith(report)
        /\ UNCHANGED node

Dispatch(n, rows, L) ==
    \E name \in QueueNames(n, rows, L), bad \in SUBSET L :
        DispatchAs(n, rows, L, name, bad)

ProcessNode(n) ==
    /\ node[n] = "ready"
    /\ Window(n) # {}
    /\ Dispatch(n, [d \in Window(n) |-> item[d]], Live(Window(n)))

-----------------------------------------------------------------------------
(* What a component does to its execution (ExecutionStateContext). *)

Finished(d, result) ==
    [exec EXCEPT ![d] = [@ EXCEPT !.state = "finished", !.result = result]]

(* PassInTransaction: emit the outputs on one channel and finish as passed. *)
Pass(d) ==
    \E outs \in FreshOutputs, c \in Channels :
        /\ event' = [e \in EventIds |-> IF e \in outs THEN NewEvent(RunOf(d), d[2], c)
                                       ELSE event[e]]
        /\ exec' = Finished(d, "passed")
        /\ run' = IF d[2] \in RunErrorNodes
                  THEN [run EXCEPT ![RunOf(d)].errors = TRUE]
                  ELSE run
        /\ UNCHANGED <<item, node>>

(* FailInTransaction, and the On Error nodes when the reason is an error. *)
Fail(d) ==
    \E report \in OnErrorReports({d}) :
        /\ exec' = Finished(d, "failed")
        /\ run' = RunsWith(report)
        /\ event' = EventsWith(report)
        /\ UNCHANGED <<item, node>>

(* The component started work that ends with a later hook or webhook. *)
Begin(d) ==
    /\ d[2] \notin RunErrorNodes
    /\ exec' = [exec EXCEPT ![d].state = "started"]
    /\ UNCHANGED <<run, event, item, node>>

(***************************************************************************)
(* NodeExecutor: under the lock of a pending execution, start it and call  *)
(* the component.  It needs the node row; it does not look at the run.     *)
(***************************************************************************)
Execute(d) ==
    /\ exec[d].state = "pending"
    /\ node[d[2]] # "deleted"
    /\ Begin(d) \/ Pass(d) \/ Fail(d)

(* NodeRequestWorker or a webhook: a started component reports its end. *)
InvokeHook(d) ==
    /\ exec[d].state = "started"
    /\ node[d[2]] # "deleted"
    /\ Pass(d) \/ Fail(d)

-----------------------------------------------------------------------------
(* Cancellation. *)

(* RequestCancellation of a set of executions. *)
CancellingExecs(D) ==
    [d \in Deliveries |-> IF d \in D THEN [exec[d] EXCEPT !.state = "cancelling"]
                          ELSE exec[d]]

(* The CancelExecution API: nothing to do when finished or cancelling. *)
CancelExecution(d) ==
    /\ exec[d].state \in {"pending", "started"}
    /\ exec' = CancellingExecs({d})
    /\ UNCHANGED <<run, event, item, node>>

(* Mutant of Drain: the queue items stay. *)
DrainKeepingItems(r) ==
    /\ exec' = CancellingExecs({d \in Deliveries :
                    RunOf(d) = r /\ exec[d].state \in {"pending", "started"}})
    /\ event' = [e \in EventIds |-> IF event[e].run = r /\ event[e].state = "pending"
                                    THEN [event[e] EXCEPT !.state = "routed"]
                                    ELSE event[e]]
    /\ UNCHANGED item

(* DrainForCancellation. *)
Drain(r) ==
    /\ exec' = CancellingExecs({d \in Deliveries :
                    RunOf(d) = r /\ exec[d].state \in {"pending", "started"}})
    /\ item' = [d \in Deliveries |-> IF RunOf(d) = r THEN NoItem ELSE item[d]]
    /\ event' = [e \in EventIds |-> IF event[e].run = r /\ event[e].state = "pending"
                                    THEN [event[e] EXCEPT !.state = "routed"]
                                    ELSE event[e]]

(* Mutant of CancelRun: a finished run is cancelled too. *)
CancelAnyRun(r) ==
    /\ run[r].state \in {"pending", "started", "finished"}
    /\ Drain(r)
    /\ run' = [run EXCEPT ![r].state = "cancelling"]
    /\ UNCHANGED node

(* The CancelRun API, under the lock of the run: drain, then mark. *)
CancelRun(r) ==
    /\ run[r].state \in {"pending", "started"}
    /\ Drain(r)
    /\ run' = [run EXCEPT ![r].state = "cancelling"]
    /\ UNCHANGED node

(* Mutant of DrainAgain: the sweep does not drain. *)
SweepWithoutDrain(r) == run[r].state = "cancelling" /\ UNCHANGED vars

(* The finalizer's sweep, and a repeated CancelRun, drain the run again. *)
DrainAgain(r) ==
    /\ run[r].state = "cancelling"
    /\ Drain(r)
    /\ UNCHANGED <<run, node>>

(***************************************************************************)
(* ExecutionTerminator: call the component's Cancel, whose errors are only *)
(* logged, and finish the execution as cancelled.  A deleted node does.    *)
(***************************************************************************)
Terminate(d) ==
    /\ exec[d].state = "cancelling"
    /\ exec' = Finished(d, "cancelled")
    /\ UNCHANGED <<run, event, item, node>>

(* Mutants of FinalizeRun: pending events are not looked at ... *)
FinalizeIdleRun(r) ==
    /\ run[r].state \in {"started", "cancelling"}
    /\ \A d \in Deliveries : RunOf(d) = r =>
          ~Queued(d) /\ exec[d].state \notin ActiveStates
    /\ run' = [run EXCEPT ![r] = [@ EXCEPT !.state = "finished", !.result = ResultOf(r)]]
    /\ UNCHANGED <<event, item, exec, node>>

(* ... and only started runs are finalized. *)
FinalizeStartedRun(r) ==
    /\ run[r].state = "started"
    /\ ~HasOpenWork(r)
    /\ run' = [run EXCEPT ![r] = [@ EXCEPT !.state = "finished", !.result = ResultOf(r)]]
    /\ UNCHANGED <<event, item, exec, node>>

(* RunFinalizer, under the lock of the run. *)
FinalizeRun(r) ==
    /\ run[r].state \in {"started", "cancelling"}
    /\ ~HasOpenWork(r)
    /\ run' = [run EXCEPT ![r] = [@ EXCEPT !.state = "finished", !.result = ResultOf(r)]]
    /\ UNCHANGED <<event, item, exec, node>>

-----------------------------------------------------------------------------
(* Users. *)

(* The DeleteNodeQueueItem API. *)
DeleteQueueItem(d) ==
    /\ Queued(d)
    /\ item' = [item EXCEPT ![d] = NoItem]
    /\ UNCHANGED <<run, event, exec, node>>

(* A publish changes a node's configuration to one with or without error. *)
UpdateNode(n) ==
    /\ n \in Breakable /\ node[n] # "deleted"
    /\ \E s \in {"ready", "error"} : node' = [node EXCEPT ![n] = s]
    /\ UNCHANGED <<run, event, item, exec>>

(* Mutants of DeleteNode: only pending executions are cancelled ... *)
DeleteNodeKeepingStarted(n) ==
    /\ n \in Deletable /\ node[n] # "deleted"
    /\ exec' = CancellingExecs({d \in Deliveries : d[2] = n /\ exec[d].state = "pending"})
    /\ item' = [d \in Deliveries |-> IF d[2] = n THEN NoItem ELSE item[d]]
    /\ node' = [node EXCEPT ![n] = "deleted"]
    /\ UNCHANGED <<run, event>>

(* ... and the items of every node are deleted. *)
DeleteNodeAndAllItems(n) ==
    /\ n \in Deletable /\ node[n] # "deleted"
    /\ exec' = CancellingExecs({d \in Deliveries :
                    d[2] = n /\ exec[d].state \in ActiveStates})
    /\ item' = [d \in Deliveries |-> NoItem]
    /\ node' = [node EXCEPT ![n] = "deleted"]
    /\ UNCHANGED <<run, event>>

(* A publish deletes a node: its executions are cancelled, its items deleted. *)
DeleteNode(n) ==
    /\ n \in Deletable /\ node[n] # "deleted"
    /\ exec' = CancellingExecs({d \in Deliveries :
                    d[2] = n /\ exec[d].state \in ActiveStates})
    /\ item' = [d \in Deliveries |-> IF d[2] = n THEN NoItem ELSE item[d]]
    /\ node' = [node EXCEPT ![n] = "deleted"]
    /\ UNCHANGED <<run, event>>

-----------------------------------------------------------------------------
Next ==
    \/ \E n \in Triggers, r \in RunIds : EmitRootEvent(n, r) \/ CreatePendingRun(n, r)
    \/ \E r \in RunIds : \/ InitializeRun(r) \/ FinalizeRun(r)
                         \/ CancelRun(r) \/ DrainAgain(r)
    \/ \E e \in EventIds : RouteEvent(e)
    \/ \E n \in Nodes : ProcessNode(n)
    \/ \E d \in Deliveries : \/ Execute(d) \/ InvokeHook(d) \/ Terminate(d)
                             \/ CancelExecution(d) \/ DeleteQueueItem(d)
    \/ \E n \in AllNodes : UpdateNode(n) \/ DeleteNode(n)

Spec == Init /\ [][Next]_vars

(***************************************************************************)
(* Every worker polls its table on a timer, so a row that stays eligible   *)
(* is eventually processed.  Nothing is assumed of users and components.   *)
(***************************************************************************)
WorkerFairness ==
    /\ \A r \in RunIds : WF_vars(InitializeRun(r)) /\ WF_vars(FinalizeRun(r))
    /\ \A e \in EventIds : WF_vars(RouteEvent(e))
    /\ \A n \in Nodes : WF_vars(ProcessNode(n))
    /\ \A d \in Deliveries : WF_vars(Execute(d)) /\ WF_vars(Terminate(d))

(* External: started components eventually report their end. *)
ComponentFairness == \A d \in Deliveries : WF_vars(InvokeHook(d))

WorkerSpec == Spec /\ WorkerFairness

(* Components report their end in one queue, and need not in the others. *)
QueueFairness(q) ==
    \A d \in Deliveries : WF_vars(exec[d].queue = q /\ InvokeHook(d))

-----------------------------------------------------------------------------
(* Properties. *)

(***************************************************************************)
(* A finished run has nothing left to do: no execution that is not         *)
(* finished, no queue item, no pending event (maybeFinalizeRun).           *)
(***************************************************************************)
FinishedRunHasNoOpenWork ==
    \A r \in RunIds : run[r].state = "finished" => ~HasOpenWork(r)

(***************************************************************************)
(* All that is left of a cancelling run are executions the terminator will *)
(* finish: nothing that the router, the queue worker, the executor or a    *)
(* hook could still move forward (DrainForCancellation).                   *)
(***************************************************************************)
CancellingRunIsDrained ==
    \A r \in RunIds : run[r].state = "cancelling" =>
        /\ \A d \in Deliveries : RunOf(d) = r =>
              ~Queued(d) /\ exec[d].state \notin {"pending", "started"}
        /\ \A e \in EventIds : event[e].run = r => event[e].state # "pending"

(***************************************************************************)
(* A queue of a node never has more executions in it than the node's       *)
(* concurrency allows, whatever the pass admits at once                    *)
(* (processNodeQueueItems).                                                *)
(***************************************************************************)
QueueWithinCapacity ==
    \A n \in Nodes, q \in Queues : ActiveInQueue(n, q) <= Max[n]

(***************************************************************************)
(* The result stored when the run was finalized is still the one its       *)
(* executions justify: passed only if all of them passed and no error was  *)
(* added, failed only for a failed execution or an error (CalculateResult).*)
(***************************************************************************)
ResultMatchesExecutions ==
    \A r \in RunIds :
        LET results == {exec[d].result : d \in {x \in Deliveries : RunOf(x) = r}}
        IN  /\ run[r].result = "passed" =>
                  results \subseteq {"none", "passed"} /\ ~run[r].errors
            /\ run[r].result = "failed" => "failed" \in results \/ run[r].errors

(***************************************************************************)
(* An error inside a run that an On Error node started does not start      *)
(* another one (dispatchOnError, loop prevention).                         *)
(***************************************************************************)
NoErrorCascade ==
    \A r \in RunIds : run[r].cause # NoCause =>
        run[RunOf(run[r].cause)].node \notin OnErrorNodes

(* d leaves the queue for a slot in this step. *)
Admits(d) == exec[d].state = "none" /\ exec'[d].state = "pending"

(***************************************************************************)
(* Per-queue FIFO: an item is started only when no older item of the same  *)
(* node and queue stays behind (processNodeQueueItems).                    *)
(***************************************************************************)
PerQueueFifo ==
    [][\A d, x \in Deliveries :
         (Admits(d) /\ x[2] = d[2] /\ item'[x].queue = exec'[d].queue)
            => ~(item'[x].at # 0 /\ item'[x].at < item[d].at)]_vars

(***************************************************************************)
(* A queue item goes away only by becoming an execution, with its run's    *)
(* cancellation, with its node, or because a user deleted it: neither the  *)
(* router nor a pass loses or overwrites one.                              *)
(***************************************************************************)
ItemsAreNotLost ==
    [][\A d \in Deliveries : Queued(d) =>
         \/ item'[d].at = item[d].at
         \/ exec'[d].state # "none"
         \/ run'[RunOf(d)].state = "cancelling"
         \/ node'[d[2]] = "deleted"
         \/ DeleteQueueItem(d)]_vars

(* The engine implements the life cycle of RunLifecycle. *)
Lifecycle == INSTANCE RunLifecycle WITH
    state  <- [r \in RunIds |-> run[r].state],
    result <- [r \in RunIds |-> run[r].result],
    busy   <- [r \in RunIds |-> HasOpenWork(r)]

ImplementsLifecycle == Lifecycle!LifecycleSpec

(***************************************************************************)
(* A cancelled run finishes, whatever its components do: the terminator    *)
(* finishes executions without them (WorkerSpec).                          *)
(***************************************************************************)
CancellingRunFinishes ==
    \A r \in RunIds : run[r].state = "cancelling" ~> run[r].state = "finished"

(***************************************************************************)
(* An execution of a deleted node is finished by the terminator            *)
(* (DeleteCanvasNodeWithResult; WorkerSpec).                               *)
(***************************************************************************)
DeletedNodeReleasesExecutions ==
    \A d \in Deliveries :
        (node[d[2]] = "deleted" /\ exec[d].state \in ActiveStates)
            ~> exec[d].state = "finished"

(* If started components end and broken nodes get repaired, every run finishes (WorkerSpec). *)
NodesGetRepaired == <>[](\A n \in Nodes : node[n] # "error")

EveryRunFinishes ==
    ComponentFairness /\ NodesGetRepaired =>
        \A r \in RunIds : run[r].state # "none" ~> run[r].state = "finished"

(***************************************************************************)
(* A queue whose executions never end does not keep the items of queue q   *)
(* from being started, however small the scan limit (QueueFairness(q),     *)
(* ListPendingQueueItems).                                                 *)
(***************************************************************************)
NoStarvationOf(q) ==
    \A d \in Deliveries :
        (Queued(d) /\ item[d].queue \in {Unresolved, q})
            ~> (~Queued(d) \/ item[d].queue \notin {Unresolved, q})
=============================================================================
