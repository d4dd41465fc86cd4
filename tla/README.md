# A verification development for SuperPlane's run engine

SuperPlane runs *canvases*: graphs of triggers and component nodes. A trigger emits a
root event, the event starts a *run*, and the run spreads over the canvas as events,
queue items and node executions until no work of it is left. This directory holds TLA+
modules translated from the Go code in `src/pkg`, TLC configurations that check them on
small canvases, and TLAPS proofs of their main invariants for every canvas.

| file | what it is |
|---|---|
| `RunEngine.tla` | the engine: one action per database transaction |
| `RunLifecycle.tla` | what the engine promises of a run; `RunEngine` and `SubRuns` implement it |
| `ReadCommitted.tla` | the engine at the isolation level it runs at: unlocked reads take a step of their own |
| `SubRuns.tla` | runs that call other apps: the tree of runs, cancellation down, results up |
| `SelfManaged.tla` | a merge or loop node: sessions that collect queue items, hooks that read and write beside passes |
| `FactoryLine.tla` | work orders crossing a factory line: slots, step queues, admission, advance |
| `Queues.tla` | what a delete leaves of a queue, for `SelfManaged` and `FactoryLine` |
| `MC*.tla` | small canvases, apps and lines, constants for TLC |
| `*.cfg` | one per run, described below |
| `RunEngine_proofs.tla` | TLAPS proofs of the types, of what finished and cancelling runs have left, and that `RunEngine` implements `RunLifecycle` |
| `RunEngine_capacity.tla` | TLAPS proof of the capacity of queues |
| `RunEngine_steps.tla` | TLAPS proofs of what one transaction does to the rows: results, order of queues, items, error handlers |
| `ReadCommitted_proofs.tla` | TLAPS proofs at the finer grain: what holds whichever reads are interrupted, and which read may be interrupted without breaking what |
| `SubRuns_proofs.tla` | TLAPS proofs of all invariants of `SubRuns` and that it implements `RunLifecycle` |
| `Queues_proofs.tla` | TLAPS lemmas about queues: which items they have after a removal, and which is the first |
| `SelfManaged_proofs.tla` | TLAPS proofs of all safety properties of `SelfManaged` |
| `FactoryLine_proofs.tla` | TLAPS proofs of all safety properties of `FactoryLine` |
| `PROJECT.json` | components, runs, mutants, the source lines of every definition, findings, hazards, theorems |

## 1. The system

### Components, their state and their operations

All state the components share is in PostgreSQL. Workers are goroutines (of one or many
server processes) that poll their table on a ticker and are woken up early by RabbitMQ
messages published after each commit. No state travels in a message: a message names a
row, and the worker reads the row again.

| component | state | operations | modelled as |
|---|---|---|---|
| runs (`models/canvas_run.go`) | `workflow_runs`: state, result, errors, parent, callbacks | create, start, fail, cancel, finalize | `run`; `NewRun`, `HasOpenWork`, `ResultOf`; the ancestor checks in `SubRuns` |
| events (`models/canvas_event.go`) | `workflow_events`: state, node, channel, run | `BeforeCreate` makes the run of a root event | `event`; `EmitRootEvent`, `NewEvent` |
| run initializer | - | `initializeRun`, `failRun` for pending (sub-)runs | `InitializeRun` = `StartRun` or `FailRun` |
| event router | - | pending event to queue items, one per edge | `RouteEvent` |
| queue items (`models/canvas_node.go`) | `workflow_node_queue_items`: node, event, queue name, age | list, resolve name, delete | `item` |
| node queue worker | the lock of a node row | one pass: list, drop, resolve, count, start | `ProcessNode` / `Dispatch` |
| executions (`models/canvas_node_execution.go`) | `workflow_node_executions`: state, result, queue name | start, pass, fail, request cancellation, cancel | `exec`; `Begin`, `Pass`, `Fail`, `CancellingExecs` |
| node executor | - | run a pending execution's component | `Execute` |
| node request worker, webhooks | `workflow_node_requests` | a started component reports | `InvokeHook` |
| execution terminator | - | finish cancelling executions | `Terminate` |
| run finalizer | - | finish runs without open work, drain cancelling ones again | `FinalizeRun`, `DrainAgain` |
| On Error dispatch | - | a failure emits a root event at every On Error node | `OnErrorReports` inside `Fail` and `Dispatch` |
| cancel APIs | - | cancel a run, cancel an execution, delete a queue item | `CancelRun`, `CancelExecution`, `DeleteQueueItem` |
| canvas publisher | `workflow_nodes.state`, soft deletion | put a node in or out of the error state, delete it | `node`; `UpdateNode`, `DeleteNode` |
| run callback dispatcher | callbacks of a run | call the parent node before the start and after the end | inside `StartRun`; `SaveCallback`; `FinishWith` in `SubRuns` |
| runApp sub-runs (`components/runs`, `models/canvas_run.go`) | parent columns of runs, the calling execution | create, time out, cancel, report a child run | `SubRuns` |
| forEach | - | one output event per item | `Pass` with several outputs |
| merge (`components/merge`) | execution metadata | collect the inputs of a run, stop early, time out | `SelfManaged` with `kind = "merge"` |
| loop (`components/loop`) | execution metadata, deferred items | sessions, iterations, delays, time out | `SelfManaged` with `kind = "loop"` |
| factory lines (`models/factory_*.go`, `actions/factories`) | work orders, lines, dispatches, step executions, step queues | dispatch, admit, advance, close, edit | `FactoryLine` |
| webhooks, integrations, triggers, schedules | third-party resources | provision, receive | external: a root event or a hook may come at any time |
| publishing (drafts, change sets), cleanup and retention, usage, auth, agents, UI, CLI | own tables | - | not modelled, see section 6 |

### How they interact

```
trigger --event--> EventRouter --item--> NodeQueueWorker --execution--> NodeExecutor
   ^                                                                        |
   |          (events on the output channels of a passed execution)         |
   +--------------------------- component / hook / webhook <-----------------+
Fail --> On Error nodes --> new root events        RunFinalizer: no open work => finished
CancelRun --> drain --> ExecutionTerminator        RunInitializer: pending => started | failed
```

A runApp execution creates a pending run of another app and is told its end by the callback
dispatcher; cancelling the execution cancels that run. Merge and loop decide themselves what
a queue item means for the execution they keep open per run. The finalizer of a run that
belongs to a factory step admits the next orders of the step and moves its own order on, in
the transaction that finishes the run.

Shared rows are protected by `SELECT ... FOR UPDATE [SKIP LOCKED]`: the run row by
CancelRun, the initializer and the finalizer; the event row by the router; the node row by
the queue worker; a pending or cancelling execution by the executor or the terminator; the
row of a factory line by whoever counts, starts or queues at its steps.
Everything else is read without a lock under READ COMMITTED.

### What is hard

* Work is handed from table to table by different workers while another worker decides
  that the run has none left.
* Cancellation meets every worker in the middle of something.
* One pass of the queue worker starts several items, across several queues, under a
  concurrency limit and a scan limit, and resolves queue names on the way.
* Nodes are edited and deleted under running runs.
* An error handler is itself a run that may fail.
* Messages may be lost or repeated; the polls have to be enough.
* Several transactions check a state they have not locked.
* A tree of runs is cancelled from the top and reports from the bottom, one transaction per
  run, while nodes it passes through are deleted.
* The metadata of a session is read by a pass or a hook and written back later, whole.
* A limit is enforced by several starters, on a line that is edited while it is crossed.

`PROJECT.json` lists each of these as a hazard, at the line where it bites, with the
properties that cover it.

### What makes each component correct

* *runs*: a run moves forward only, is finished only without open work, never gets work
  again, and its stored result is the one its executions and errors justify;
* *router and queue worker*: a delivery is started at most once and is never lost; a queue
  stays within its capacity, is served in order, and does not starve another one;
* *cancellation*: leaves nothing a worker could move forward, and always ends;
* *On Error*: no error starts an error handler from inside an error handler;
* *publisher*: deleting a node releases exactly that node's work;
* *sub-runs*: a call ends, is told how its run ended, and never waits for a callback that
  will not come; a finished run leaves no run behind; chains of calls end;
* *merge*: no input is lost, a session ends once;
* *loop*: sessions and rounds stay within their limits, sessions end, deferred starts come up;
* *factory lines*: a traversal is in one place, runs its steps in order and ends; a step
  keeps its limit and its queue, and a queue is never left to nobody.

## 2. How the model corresponds to the code

**Rows.** `run`, `event`, `item`, `exec` and `node` are the five tables, keyed by
identifiers. A root event and its run share an identifier, since a run has at most one
root event. A *delivery* `<<event, node>>` identifies both the queue item and the
execution an event causes at a node: both rows carry the event and the node, and an edge
list has at most one edge from a source and channel to a target. `item[d].at` is the
creation time (0: no row). `RunOf(d)` is the `run_id` column, which `BeforeCreate` copies
from the root event.

**Atomicity in `RunEngine`.** One action is one transaction with everything it writes:
`RouteEvent` marks the event and inserts all its items; `ProcessNode` lists, drops,
resolves, starts, fails and reports in one step; `Pass` emits the outputs and finishes;
`CancelRun` drains and marks. Early returns are guards (`CancelExecution` of a finished
execution, `FinalizeRun` with open work). `FinalizeRun` is restricted to started and
cancelling runs: a pending run has no event, item or execution, so no message and no sweep
ever hands it to the finalizer.

**Time.** Only the order of creation times matters. `RouteEvent` stamps its items with the
least stamp later than all queued ones (`IsNow`), so two items have the same stamp only if
one event made them, and then they are at different nodes.

**A pass** (`Dispatch`). The listed rows are the `ScanLimit` oldest actionable ones
(`Window`): without a queue name, or with one whose queue has a free slot. Items of
cancelling runs are deleted. `QueueNames` resolves the others: a stored name is kept, a
missing one is any result in `KeyResults`, which may be an error. `Reached` is the closed
form of the loop with its `blocked` map: an item gets to the dispatch if the executions
active before the pass and those the pass has inserted for older items leave a slot. Items
in `bad` reach it but their configuration does not build: they become failed executions
and take no slot. The other items store their name and stay.

**Failures.** A failed execution whose reason is an error is reported to the On Error
nodes; `DispatchOnError` logs and swallows its own errors, and failures with other reasons
are not reported, so a report covers any subset of the failures, but for each of them all
live On Error nodes. Payloads have no content in the model.

**Error paths.** A transaction that returns an error is rolled back and does nothing; the
worker tries again. The executor's `FindCanvasNode` fails for a deleted node: `Execute` is
not enabled there.

**Publishing.** Deleting a node lists and cancels its executions, deletes its items,
completes its requests and then deletes the row. `RunEngine` does all of it at one moment.
`ReadCommitted` lists the executions in a step of its own, but deletes the items with the
node row: an item routed to the node between these two statements is not in the models. `Edges` is constant; an edge whose end is deleted is gone
(`OutgoingTargets`). New nodes and edges between existing nodes are not modelled.

**`ReadCommitted`** splits the transactions that read without a lock. `StaleReads` chooses
which of them other transactions may interrupt, so that a run can tell which read is to
blame: `pass` (the queue worker's listing), `cancel` (CancelExecution,
`cancelNodeExecutions`), `finish` (Pass and Fail after `findState`), `save` (a hook that
saves the row it read), `callback` (the same in the callback dispatcher), `delete` (the
listing of a deleted node's executions). Writes are applied to the rows as they are at the
time of the write, with the values that were read, as the SQL does. A pass keeps the node
row locked, so `DeleteListed` and `UpdateNode` wait for it.

**`SubRuns`.** A call is named by the run it creates: `call[c]` is the runApp execution,
`run[c]` the child, `run[c].parent` the run the execution belongs to. Everything else a run
does is `work`, open or done, with any result; that and the calls are what `FindOpenWork`
and `CalculateResult` look at (`HasOpenWork`, `PossibleResults`). `CreateRun` is the
executor's transaction: `ValidateSubRunCreation` with its three checks, the pending run, the
timeout request. An entry may be removed for good, or refuse the parameters of its callers
while its configuration asks for others; a pending run then fails (`FailRun`).

Whoever resumes a call has read its execution without a lock and saves the row later. The
end of a run is `EndsWith`, up to the callback's read of the call, and `FinishWith`, the
save: a call that still waited emits on the channel of the result, which opens work in the
parent, and one that was cancelled meanwhile is put back to started, with no callback left
to come. `ending` holds the result in between, while the run's row is locked (`Free`). The
timeout is `ReadForTimeout` and `Timeout`, which cancels the child, leaves the call waiting
for its callback and saves it as it was read; `hook` are the calls in between. The
cancellations that a save undid are in `lost`. What can come in between is what does not
wait for a lock of the transaction: CancelExecution of the call and CancelRun of its run,
and with a callback also the deletion of the node. The deletion completes the pending requests of
the node's executions (`canvas_node.go:745-757`) and so waits for a timeout's hook, which
holds the row of its request: if it has come to that row first it is not pending any more,
and if the hook has, the two would deadlock over the call's row and one is rolled back.
`DeleteNode` therefore waits for `hook`. `Terminate` cancels the child of a cancelled call
and finishes the call. The finalizer of a child and the terminator of its call take the two
rows in opposite order; PostgreSQL aborts one of them and it is tried again, so the model
lets only one of them happen.

**`SelfManaged`.** One node, a merge or a loop (`kind` is chosen at the start). A pass over
a backlog is a sequence of `ReadItem` and one of `SkipItem`, `MergeItem`, `DeferItem`,
`StartLoop`, `HandleFeedback`; the node's lock keeps passes apart (`pass`), nothing keeps
hooks out. A hook reads the row in `ReadForHook` and acts in `MergeTimeout`, `LoopTimeout`
or `NextIteration`. What a write does depends on whether the row is locked by then:
`Metadata.Set` updates the row, so the `findState` that follows it in `PassInTransaction`
sees the latest state (`Finish`), while `Merge.HandleTimeout` checks without a write before
it, so its check may be out of date. A hook that leaves the execution open ends with the
request worker saving the row it read (`SaveRead`); `lost` remembers the runs in which that
undid a cancellation. A loop always has a timeout, a merge only if one is configured, which
it is not by default (`timed`). The stop and until expressions may be true, false or fail.
The counters `arrivals`, `delivered`, `rounds` and `out` are history.

**`FactoryLine`.** A dispatch with its snapshot of steps, an execution per step, a queue
per step. Whoever counts, starts or queues holds the line's lock, which a finalizer may
take before it reads the order: `advance` is that finalizer, and the other actions that
need the lock wait for it. Requests read in one step and write in another. `EndRun`,
`Advance` contain `AdmitQueuedForStep`: `ReachedFor` are the positions its loop gets to
before a limit stops it. An error in it rolls the finish of the run back, so `Advance` is
only enabled when every start it makes succeeds, and the sweep tries again. `DeleteRun` is
the cleanup of a deleted app's runs. An entrypoint that a publish deletes
(`DeleteEntrypoint`) does not come back: `ensureNewNodeID` gives a node added later an
identifier the app has never used. `ReadForDispatch` reads the order, the line and the
active dispatch at one moment; the code does so in three statements. Fields of an order that
are only text are left out.

**Bounds.** `RunIds`, `OutputIds`, `MaxEmit` and `Stamps` bound the number of runs, of
output events, of events per emit and of creation times; `MaxArrivals` and `Returns` the
inputs of a merge and what a round of a loop brings back; `DispatchIds`, `Requests` and
`MaxSteps` the dispatches, the requests under way and the length of lines. All are
constants and nothing else is capped. Identifiers are handed out in order, which removes
symmetric states. When they are used up, the actions that need new ones are no longer
enabled.

## 3. Runs

Deadlock is not checked anywhere: a canvas on which every run has finished, with no
identifier left for another one, really has nothing to do; the same holds of orders and
sessions.

| run | canvas and bounds | checks | shows |
|---|---|---|---|
| `EngineChain` | trigger to a to b, On Error to b; b can fail its configuration and is addRunError, a can be deleted; 3 runs, 1 output; scan limit 2 | `TypeOK`, `FinishedRunHasNoOpenWork`, `CancellingRunIsDrained`, `NoErrorCascade`, `ResultMatchesExecutions`, `ItemsAreNotLost`, `ImplementsLifecycle` | consistency of runs with failures of configuration, key and component, error handlers, sub-runs, cancellation, a deleted node |
| `EngineQueues` | one node, two queues, capacity 1, scan limit 1; 3 runs; fair workers, fair components in one queue only | `PerQueueFifo`, `NoStarvation` | order within a queue; a stuck queue does not starve the other |
| `EngineLiveness` | the chain; a and the trigger can be deleted, a can break; 2 runs, 1 output; fair workers | `CancellingRunFinishes`, `DeletedNodeReleasesExecutions`, `EveryRunFinishes` | cancellation and deletion need no cooperation of components; with it every run ends |
| `RowsSafety` | one node that can break or be deleted, all unlocked reads interruptible; 2 runs | `RunMovesForward`, `DeliveryStartsOnce`, `ItemsAreNotLost` | what the locks are enough for |
| `RowsProgress` | one node that can be deleted, two queues, passes and finishing hooks interruptible; 2 runs; fair workers | `QueueWithinCapacity`, `CancellingRunFinishes` | the lock of the node protects its queues; the repeated drain catches what a cancellation missed |
| `SubRuns` | app A with two entries, app B with one, at most 1 crossing on a chain (`MaxDepth` 2); A's runApp node can be deleted, B's entry can refuse its parameters or be removed; a root run and 2 called ones, of which the first can be cancelled, and its call; fair workers | `TypeOK`, `NoMissedCallback`, `CallReportsRun`, `NoRunLeftBehind`, `ChainsEnd`, `ImplementsLifecycle`, `CallsEnd`, `CancelledRunsFinish` | results come up and cancellation goes down whatever happens between the read and the save of a call, and each run of the tree follows the life cycle |
| `SelfManaged` | merge of a and b with or without a timeout, b can be removed, three inputs for one run and none for the other; or a loop with one session, three rounds, one item back per round; 2 runs, one of them can be cancelled; fair workers | `TypeOK`, `SessionsWithinLimit`, `RoundsWithinLimit`, `InputsAreCollected`, `DecidedOnce`, `SessionsEnd`, `StartsAreServed` | what sessions keep to although hooks and passes overlap |
| `FactoryAdmission` | three orders, three dispatches, a line edited between two steps of one slot and one step of two; one order is closed and reopened; one request at a time | `StepsInOrder`, `QueueIsServed`, `StepsWithinLimit`, `FifoAdmission` | limits, order and snapshots while the line changes |
| `FactoryProgress` | two orders, two dispatches, two steps of one slot; y's entrypoint or app can be deleted; two requests under way; fair workers | `TypeOK`, `OnePlacePerTraversal`, `TraversalsEnd` | no traversal is lost or left waiting, also when requests race, unless an entrypoint is gone |
| `LateDispatch`, `OvertakenItem`, `DeletedNode` | smallest canvas that shows it | one property each | violated: section 5 |

Why the bounds are enough. The properties of the engine relate at most two runs, or two
deliveries of one queue; a third run is there where a queue has to be full *and* have two
items waiting. `EngineLiveness` and the `Rows` runs have two because a liveness check, or a
split of every transaction, multiplies the states. Two nodes are needed for a run to have
work in two places; one output event gives a run a second hop, which is where events, items
and executions of one run coexist. A scan limit below the number of items makes the window
matter. Three runs make a chain of two calls, or two calls of one run: a middle run that is
parent and child at once is where cancellation and callbacks meet, and a chain that leaves
an app and comes back is the shortest one the checks refuse. Cancelling the first called run
or its call goes down to a second one, and meets the callback of either. Two sessions compete
for one slot; three inputs for two sources give a merge a late one. Three dispatches leave two in a
queue behind one slot, the least for admission to have an order; a line that becomes wider
and shorter makes the snapshot and the live line disagree on both.

Every property has a mutant in the module, next to the definition it replaces: the
definition with a plausible mistake (a guard dropped, a count not refreshed, a reset
forgotten). Each mutant makes TLC find a violation.

**Fairness.** `WorkerFairness` is weak fairness of each worker's transaction for each row.
The workers poll every row that is eligible, on a ticker, for as long as the server runs,
and rows stay eligible until somebody processes them; `SKIP LOCKED` only postpones. The
started-run sweep takes 100 runs per tick and moves those with open work to the back, so
each comes up again. The cancelling sweep does not rotate (`cancelled_at DESC`); a run is
also finalized on the messages of its last execution, and with fewer than 100 cancelling
runs the sweep reaches all of them, which is what the fairness assumes. `EveryRunFinishes`
has the premise `ComponentFairness`: a started component eventually reports. `NoStarvation`
needs it of the components in one queue only (`QueueFairness`). `EveryRunFinishes` also has the
premise `NodesGetRepaired`: a node in the error state keeps its items until a publish mends
it. Nothing is assumed of users, and no fairness is needed for `Fail`, cancellation or
publishing.

`SubRuns` has the same fairness: the initializer, the finalizer, the terminator and the
timeout request are polled. The work of a started run may go on for ever; only that of a
cancelled run ends, by the terminator. The steps of a transaction that takes two are fair
one by one: it goes on to its save or is rolled back. `SelfManaged` assumes the polls of the
queue worker, the executor, the requests, the sweep and the terminator, and nothing of the nodes before a
merge, of a loop's body or of users. `FactoryLine` assumes that the runs of its steps end
(`EveryRunFinishes`, for the runs of the other apps) and strong fairness of `Advance`: the
sweep takes a passed run up again and again, while other finalizers and requests hold the
lock in between. `TraversalsEnd` excepts traversals while one of them lacks an entrypoint
(`LacksEntrypoint`): every attempt to start it is rolled back. `SessionsEnd` lets a merge
without a timeout stay open for an input that has not come (`Awaits`), as long as nobody
cancels it.

## 4. Proofs

The theorems hold for every set of nodes, edges, queues and runs and every limit that
satisfies the named assumptions of `RunEngine` (identifiers are positive, nodes and
triggers disjoint, edges end at component nodes, limits positive; finiteness of the sets of
identifiers is used for the capacity and the order of queues alone), `StaleReadsAssumption` of `ReadCommitted`, and
the assumptions on types, subsets and finiteness that `SubRuns`, `SelfManaged` and
`FactoryLine` name at their constants.

Some theorems have a hypothesis of their own. `ErrorsDoNotCascade` and
`LateFailuresDoNotCascade` assume that On Error nodes are not deleted (`OnErrorNodesStay`),
and `RoundsKeepToTheirLimit` that a round of a loop's body brings back at most one item
(`Returns <= 1`); section 5 says what happens otherwise. The others are about a choice of
`StaleReads`, the unlocked reads that other transactions may interrupt. With one kind of
read interrupted at a time, TLC finds each of the engine's properties kept or violated as
follows; everything that is kept has a theorem.

| property | kept whatever is interrupted, or for | violated for |
|---|---|---|
| `RunMovesForward`, `DeliveryStartsOnce` | every read (`RunsMoveForward`, `DeliveriesStartOnce`) | |
| `ItemsAreNotLost` | every read (`LateWritesLoseNoItem`) | |
| `NoErrorCascade` | every read (`LateFailuresDoNotCascade`) | |
| `PerQueueFifo` | every read but `pass` (`WholePassesAreFifo`) | `pass` |
| `QueueWithinCapacity` | `pass`, `finish`, `save` (`LatePassesFit`) | `cancel`, `callback`, `delete` |
| `CancellingRunIsDrained` | `cancel`, `delete` (`LateCancelsKeepRunsDrained`) | `pass`, `finish`, `save`, `callback` |
| `FinishedRunHasNoOpenWork` | `save` (`LateSavesKeepRunsIdle`) | all others |
| `ImplementsLifecycle` | `save` (`LateSavesImplementLifecycle`) | all others |
| `ResultMatchesExecutions` | `finish`, `save` (`LateHooksKeepResults`) | all others |

The theorems say more than the table: they hold for every set of the reads in their row
interrupted together. `UninterruptedIsRunEngine` is about the choice of no interrupted read
at all: it says that the finer module is nothing but a finer `RunEngine`.

| theorem | module | statement |
|---|---|---|
| `TypeCorrect` | `RunEngine_proofs` | `Spec => []TypeOK` |
| `FinishedRunsStayIdle` | `RunEngine_proofs` | `Spec => []FinishedRunHasNoOpenWork` |
| `CancellingRunsStayDrained` | `RunEngine_proofs` | `Spec => []CancellingRunIsDrained` |
| `EngineImplementsLifecycle` | `RunEngine_proofs` | `Spec => ImplementsLifecycle` |
| `QueuesStayWithinCapacity` | `RunEngine_capacity` | `Spec => []QueueWithinCapacity` |
| `ResultsAreJustified` | `RunEngine_steps` | `Spec => []ResultMatchesExecutions` |
| `QueuesAreFifo` | `RunEngine_steps` | `Spec => PerQueueFifo` |
| `ItemsStay` | `RunEngine_steps` | `Spec => ItemsAreNotLost` |
| `ErrorsDoNotCascade` | `RunEngine_steps` | `OnErrorNodesStay /\ Spec => []NoErrorCascade` |
| `RunsMoveForward` | `ReadCommitted_proofs` | `RCSpec => RunMovesForward` |
| `DeliveriesStartOnce` | `ReadCommitted_proofs` | `RCSpec => DeliveryStartsOnce` |
| `LatePassesFit` | `ReadCommitted_proofs` | `StaleReads \subseteq LateReads /\ RCSpec => []QueueWithinCapacity` |
| `LateWritesLoseNoItem` | `ReadCommitted_proofs` | `RCSpec => ItemsAreNotLost` |
| `LateFailuresDoNotCascade` | `ReadCommitted_proofs` | `OnErrorNodesStay /\ RCSpec => []NoErrorCascade` |
| `WholePassesAreFifo` | `ReadCommitted_proofs` | `"pass" \notin StaleReads /\ RCSpec => PerQueueFifo` |
| `LateCancelsKeepRunsDrained` | `ReadCommitted_proofs` | `StaleReads \subseteq {"cancel", "delete"} /\ RCSpec => []CancellingRunIsDrained` |
| `LateSavesKeepRunsIdle` | `ReadCommitted_proofs` | `StaleReads \subseteq {"save"} /\ RCSpec => []FinishedRunHasNoOpenWork` |
| `LateSavesImplementLifecycle` | `ReadCommitted_proofs` | `StaleReads \subseteq {"save"} /\ RCSpec => ImplementsLifecycle` |
| `LateHooksKeepResults` | `ReadCommitted_proofs` | `HooksOnly /\ RCSpec => []ResultMatchesExecutions` |
| `UninterruptedIsRunEngine` | `ReadCommitted_proofs` | `StaleReads = {} /\ RCSpec => Spec` |
| `SubRunsTypes` | `SubRuns_proofs` | `Spec => []TypeOK` |
| `NoCallbackIsMissed` | `SubRuns_proofs` | `Spec => []NoMissedCallback` |
| `CallsReportTheirRuns` | `SubRuns_proofs` | `Spec => []CallReportsRun` |
| `NoChildIsLeftBehind` | `SubRuns_proofs` | `Spec => []NoRunLeftBehind` |
| `ChainsAreBounded` | `SubRuns_proofs` | `Spec => []ChainsEnd` |
| `SubRunsImplementLifecycle` | `SubRuns_proofs` | `Spec => ImplementsLifecycle` |
| `NodeTypeCorrect` | `SelfManaged_proofs` | `Spec => []TypeOK` |
| `LoopsKeepToTheirLimit` | `SelfManaged_proofs` | `Spec => []SessionsWithinLimit` |
| `SessionsAreDecidedOnce` | `SelfManaged_proofs` | `Spec => []DecidedOnce` |
| `RoundsKeepToTheirLimit` | `SelfManaged_proofs` | `Returns <= 1 /\ Spec => []RoundsWithinLimit` |
| `MergesCollectInputs` | `SelfManaged_proofs` | `Spec => []InputsAreCollected` |
| `FactoryTypes` | `FactoryLine_proofs` | `Spec => []TypeOK` |
| `StepsRunInOrder` | `FactoryLine_proofs` | `Spec => []StepsInOrder` |
| `QueuesAreServed` | `FactoryLine_proofs` | `Spec => []QueueIsServed` |
| `TraversalsHaveOnePlace` | `FactoryLine_proofs` | `Spec => []OnePlacePerTraversal` |
| `StepsKeepTheirLimit` | `FactoryLine_proofs` | `Spec => StepsWithinLimit` |
| `AdmissionIsFifo` | `FactoryLine_proofs` | `Spec => FifoAdmission` |

*Finished and cancelling runs.* The inductive invariant is `RunInv(K)`: the types,
`NewRunHasNoEvents`, that a run which has not started has no event, and the property of the
runs in the states of `K`, finished or cancelling. Neither property needs the other, which
matters where only one of them holds (`LateCancelsKeepRunsDrained`); each needs the rest.
`failRun` finishes a run without asking for open work; that is right because such
a run has no event, hence no delivery. The router, the queue worker and the executor do
not look whether the run they work for is finished; that is right because they start from
a pending event, a queue item or an active execution, which a finished run does not have,
and which a cancelling run does not have either since it was drained. Outputs go to the
run of an execution that is pending or started, so to a started run. On Error events go to
runs that did not exist.

The argument is stated once: `NoNewWork(r)` says a step gives run `r` nothing to work on,
`NoNewWorkKeeps` that such a step keeps either property of `r`, and `RunInvStep` that it is
enough for a step to give no new work to the runs it is about. One
lemma per action (or per group of actions that write the same rows) then shows just that.

*Refinement.* `LifeInv` is `RunInv({"finished"})` and that an unfinished run has no result. A run whose
row a step leaves alone takes a step of the life cycle if it was busy (`Work`) or if the
step gives it no work (`Same`): that is `SteadyIsLifeStep`. The lemmas per action name the
one step that is neither, for the runs the action creates, starts, cancels or finishes; the
work an action adds always goes to a run that was busy, because a worker starts from a
pending event, a queue item or an active execution of it.

*Capacity.* `CapacityInv` adds that two items of one node never have the same age
(`DistinctStamps`). A pass may start several items of a queue; the newest of them
(`Newest`) was let through with all the others counted as ahead of it, so all of them fit
(`AdmittedFit`). The rest is counting: the executions active after a pass are among those
active before it and those it started.

*Steps of the engine.* `RowsStep` says how a transaction may move each kind of row: events
are created for runs that exist and routed, runs keep their node and their cause and leave
the cancelling state without open work, items go only for the reasons `ItemsAreNotLost`
lists. `GoodStep` adds what holds of a transaction that acts on what it has just read: runs
end with a result that their rows justify, only active executions change and only queued
items become executions, and no older item of its queue stays behind one that is started.
One lemma per action shows that it is a `GoodStep`; that needs `RowsInv`, by which an event
belongs to a run that exists and an item or execution to a routed event (so the router
never overwrites an item). For the order of a queue, an older item that the pass
listed and left waiting would have had fewer items ahead of it than the one it started; one
that it did not list would have been among the oldest `ScanLimit`, because its queue had a
free slot. Results stay justified because the executions of a finished run no longer
change; how a run ends (`RunEnds`) and what happens to its executions (`ExecMoves`) are
stated run by run and execution by execution, so that the argument serves where some
finished run has work again. `ErrorsDoNotCascade` assumes that On Error nodes are not deletable: the code looks
for the run's node among those that are live.

*Read committed.* The finer grain keeps the types (`RCTypes`), and no step of it writes a
run row other than the actions of `RunEngine` that lock it, or a report that creates one.

For `DeliveriesStartOnce` the invariant is `StartInv`. An execution comes from a routed
event (`RowsAreRouted`), a queued item has no execution yet (`QueuedIsNotStarted`), and
neither has an item that a pass has listed (`ListedIsNotStarted`), however long ago: only
the pass of its node starts it, and that pass is the one that holds the node's lock. What a
late cancellation, hook or deletion has read is an execution (`ReadsHaveExecutions`), so
its write never makes one. An execution that went back to started or cancelling is
therefore still not pending, and a delivery is executed once.

`SlotsInv`, for the capacity, adds `CapacityInv` and that the rows a pass has listed have
different ages (`ListedStamps`). The count of active executions is read when the pass
writes, so the argument about `Newest` needs only the ages of the rows it acts on, which
are those it listed: the lemma `DispatchFits` is stated for any list of rows, and is used
for a pass that writes at once and for one that writes late.

A transaction that was interrupted is still a `RowsStep` (`LateStepMoves`), because the
lemmas about what a pass and a component write (`DispatchMoves`, `OutcomeMoves`) ask only
for facts that outlast the read. The one that takes an argument is about the rows a pass
listed and did not keep: it deletes them when it writes, and their runs are still
cancelling then, or the items are gone (`DroppedAreCancelling`), because a cancelling run
does not end while it has a queue item. `RowsInv` and `CascadeInv` are kept by `RowsStep`s,
so items and the loop prevention survive every interruption. Only a pass admits, so the
order of queues survives all but its own. A late cancellation or deletion turns an
execution of a cancelling run into one for the terminator at most (`LateCancelKeeps`), and
a late save moves an active execution only and is a `GoodStep` (`SaveHookMoves`).

A hook that finishes its execution late is no `GoodStep`: the terminator may have finished
the execution as cancelled meanwhile, and the run with it, and then the hook overwrites
the result and emits events into a finished run. Results stay justified all the same
(`ResultsInv`). What a hook has found unfinished is still active or was cancelled since
(`StillFinishing`): the run it belongs to has not ended, or has ended with a failure or a
cancellation, never as passed. So a run that has passed stays without work
(`PassedHasNoWork`) and is left alone, and for one that has failed the execution or error
that justifies it stays (`FailureStays`), because the late hook overwrites no failed
execution.

*Sub-runs.* `SubRunsInv` consists of the types, `ChainsEnd` and three parts. `TreeInv` says
that parents form a forest: `up` holds the ancestors of a run and with each of them its
ancestors, and only a run that has started has called others. A run is therefore never its
own ancestor, and a transaction that finishes a run and opens work in its parent touches
two different rows. `CallSide` is the other three properties and `CallInv`: a called run
has its call, the run of a finished call is cancelling or finished, and only calls are held
by a hook or were put back. `RunSide` is what the other end needs: a run whose end waits
for the save of its callback stays unfinished and its call open (`EndInv`); only started
and cancelling runs have open work, and none once they have begun to end (`IdleInv`); only
finished ones have a result (`ResultAtEnd`). A run finished by a late save has therefore got
no work and no child since its rows were read, and a call that the save puts back is one a
cancellation had reached, which `lost` remembers. Each action is reduced to the moves it
makes of run and call rows (`RunMoves`, `CallMoves`, and `Quiet`, `CancelsRun` and `Ends`
for the moves that recur), and the invariant is preserved by the moves.

*Sub-runs and the life cycle.* A run of a tree is busy with its own work or with a call
that has not ended. One lemma per action shows that it keeps the invariant and is a step of
the life cycle for each run (`LifeStep`). Most actions leave the state of a run alone and
open no call (`NoCallAdded`): then it is `Steady`, working on or the same. The one action
that gives a run new work is the callback of a run it called; by `NoMissedCallback` the
caller is a started run that was waiting, hence busy, so the work is no work for an idle or
finished run.

*Sessions.* `SessionInv` adds to the two properties that what a pass or a hook has read
still tells whether there is a session (`ReadInv`), and that only a finished session has an
outcome (`OutInv`). A hook may write back an old row, so the argument cannot be that a
session only moves on: it is that a loop's hook saves the row only while the session is not
finished, so it was still counted, and that a merge's hook can reopen only a session that
has no outcome yet; the one outcome that can follow another is the one the exception of
`DecidedOnce` names. Each action stays, moves,
opens, decides, times out, ends or reopens (`StepKinds`). For these two properties nothing
is needed of the queue.

*Rounds.* A round of a loop is brought on by a token: an item that is queued or at the
queue worker, a pending request, or a hook that runs. `OneToken` accounts for them: of the
items that came back, those that are left and those that became rounds; with one item back
per round there is at most one token at a time. `Counted` then says that whoever holds the
token has read an iteration that covers all rounds before, so that writing it back forgets
none. `LoopQueue` says that the items in the queue are distinct and that the one a pass is
at is the first.

*Inputs.* Nobody but the pass writes what a merge has collected, so what a pass has read of
it is still true when it writes (`SameInputs` in `Collected`), and only a cancellation
takes away the item a pass is at (`ItemStays`). With the sources that are still queued, the
collected ones are then all that came.

*Queues.* The deletes of `SelfManaged` and `FactoryLine` take rows out of the middle of a
queue. `Without` says which position each remaining row gets by counting, not by recursion,
so that its values can be proved: `Queues_proofs` shows that exactly the other items remain,
none of them twice if none was, and that the first one stays first.

*Factory lines.* `LineInv` consists of the types, `OnceQueued` (a queue lists a dispatch at
most once), `AdvanceFits` (the finalizer that holds the lock works for a running step),
`QueueIsServed`, and for each dispatch `Fits`: its executions, its place in a queue and its
state agree. Each action is shown to be a `GoodStep`, which says of each dispatch how it
moves (rests, enters, runs, is admitted, is dropped, stops, passes or goes on) and of each
queue that its end admits those who wait. The loop of `AdmitQueuedForStep` reaches an
initial part of the queue: the positions it does not reach have a smallest one, and none
after that is reached. `StepsKeepTheirLimit` then takes the last of those admitted, for
which all the others were counted.

**Model-checked only.** Liveness (`NoStarvation`, `EveryRunFinishes`,
`CancellingRunFinishes`, `DeletedNodeReleasesExecutions`, `CallsEnd`,
`CancelledRunsFinish`, `SessionsEnd`, `StartsAreServed`, `TraversalsEnd`): the prover does
not handle fairness. Every other property that a passing run checks has a theorem.

## 5. Findings

Each is a run of its own whose counterexample is a short sequence of transactions.

* `LateDispatch`: a pass lists an item; a user deletes the item (or the run is cancelled)
  and the run is finalized; the pass then inserts its execution into the finished run.
* `OvertakenItem`: an item of a full queue is not listed; the queue gets a free slot before
  the pass counts; a younger item resolved to the same queue takes it.
* `DeletedNode`: an execution inserted while a publish deletes its node is not on the
  publish's list; the executor then fails to find the node for ever and the run hangs.

Four more interleavings are behaviours of the model without a run of their own. An
execution that finishes between the check and the update of CancelExecution goes back to
cancelling (`RequestCancellation`). One that is asked to cancel between the check and the
update of Pass finishes as passed (`FinishRead`). A hook or a child's end that saves the
execution it read before puts a cancelling one back to started (`SaveHook`,
`SaveCallback`). And `DispatchOnError` compares a run's root node with the On Error nodes
live now, so a run started by one that has been deleted since is not recognised as an error
handler; `NoErrorCascade` is therefore checked and proved where On Error nodes stay. `RowsSafety` and
`RowsProgress` show what holds in spite of the first three.

The other modules show behaviours that disagree with a comment or a document, or that
somebody who changes the code should know of. Each is a behaviour of the model that a
property names as its exception.

* A child run whose runApp node has been deleted cannot be finalized: `resolveParent` finds
  no node (`run_callback_dispatcher.go:288`), the error rolls back the end of the run, and
  the run stays cancelling. `CancelledRunsFinish` excepts it.
* A callback that saves a call it has read before undoes a cancellation of that call
  (`run_callback_dispatcher.go:176` and `267`). The child has finished and its timeout does
  nothing any more, so the call stays started unless it is cancelled again. `NoMissedCallback`
  and `CallsEnd` except it (`lost`). The same save after a timeout
  (`node_request_worker.go:405`) does no such harm: the child is cancelled by then and its
  callback still comes.
* `ValidateSubRunCreation` allows one crossing less than `canvas_run.go` says in its
  comments: "A -> B -> C targeting D gives depth 4" and "A -> B -> C has depth 3" are 3 and 2
  by the code. `ChainsEnd` states what the code does.
* The comment at `loop.go:330-334` says the timeout "guarantees the session always
  terminates, so it can never block later runs". A cancellation that meets a running hook is
  undone by the save of the row the hook had read, and the session's timeout is spent by
  then; it goes on for ever. `SessionsEnd` and `StartsAreServed` except these sessions
  (`lost`), and are violated without the exception.
* A delayed round writes back the iteration its hook has read. If a round can bring more
  than one item back to the loop (`Returns` = 2), an iteration counted in between is
  forgotten and the body is sent off more often than the limit says. `RoundsWithinLimit`
  holds for one item per round.
* A merge's timeout that has read the state before a pass decides emits after it: the
  execution ends twice, the second time as a timeout. `DecidedOnce` excepts it.
* A traversal whose next entrypoint has been deleted cannot be moved on: `StartStep` fails,
  which rolls back the end of the step before, so its run is never finished and keeps its
  slot; only a failure or a cancellation of that run ends it, and that too only if nobody
  who waits for the step lacks an entrypoint. `TraversalsEnd` excepts it.
* A merge without a timeout whose input never comes stays open, and with it its run, until
  it is cancelled (`merge.go:470-475`). `SessionsEnd` excepts it.
* Two requests that both find no active dispatch of an order both dispatch it, against
  `docs/design/factory.md:27` ("Only one active execution per work order per line at a
  time"); there is no unique index behind the check. Each of the two traversals is still in
  one place and ends.
* The cleanup of a deleted app frees slots of a step without admitting anyone
  (`QueueIsServed` excepts deleted apps): a queue can wait until the next order comes by.

## 6. Not modelled, and why

* The content of payloads, expressions, configurations and order texts: only whether
  expressions and configurations evaluate, and to which of the outcomes that matter.
* Adding nodes and rewiring edges of a live canvas, in `RunEngine`: its edges are constant.
* Webhooks, integrations, triggers and schedules: I/O against third parties; the model
  lets their root events and hooks arrive at any time. The clients and components of some
  fifty external systems, by far the largest part of the repository, turn a configuration
  into requests and answers into events, and share no state with each other.
* Approval, wait, time gate and the other components: to the engine they are executions
  that end with a hook.
* Drafts and change sets: an editor's concern until they are published.
* Cleanup and retention: they delete rows of finished runs and of deleted canvases. Of the
  canvas cleanup, only what deleting an app's runs does to factory steps is modelled, in
  `FactoryLine`, where it frees slots.
* The limits of the finalizer's sweeps. The sweep of cancelling runs takes the 100 most
  recently cancelled ones; more than 100 that do not drain would hide older ones. The
  fairness of section 3 assumes there are fewer.
* Usage, authentication, agents, notifications, UI and CLI: outside the engine.

## 7. Plan

Done: `RunEngine`, `RunLifecycle`, `ReadCommitted`, `SubRuns`, `SelfManaged`,
`FactoryLine`, with their runs and the theorems of section 4.

Left, in order of importance:

1. `RunSweep`: the finalizer's sweeps with their limits, runs abstracted;
2. live edges: adding nodes and rewiring a canvas under its runs;
3. webhook provisioning and its retries, change sets and their conflicts.
