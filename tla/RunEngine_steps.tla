-------------------------- MODULE RunEngine_steps --------------------------
(***************************************************************************)
(* Proofs about what one transaction of the run engine does to the rows,   *)
(* for every canvas: the stored result stays the one the executions        *)
(* justify, errors do not cascade, no item is lost, and queues are first   *)
(* in, first out.                                                          *)
(*                                                                         *)
(* Each action is shown to be a RowsStep, whatever else goes on: how it    *)
(* may move events, runs, items and nodes.  If it acts on what it has just *)
(* read, it is a GoodStep too.  The theorems follow from that.             *)
(***************************************************************************)
EXTENDS RunEngine_capacity

(* A run that has not started has no root event to be overwritten. *)
RootsAreNew ==
    \A r \in RunIds : run[r].state \in {"none", "pending"} => event[r].state = "none"

(* Items and executions come from events that are routed, and are not routed again. *)
RowsAreRouted ==
    \A d \in Deliveries :
        Queued(d) \/ exec[d].state # "none" => event[d[1]].state = "routed"

(* Rows belong to rows: an event has its run, an item or execution its routed event. *)
RowsInv ==
    /\ \A e \in EventIds :
          IF event[e].state = "none" THEN event[e].run = NoRun
          ELSE event[e].run \in RunIds /\ run[event[e].run].state # "none"
    /\ \A r \in RunIds : event[r].state # "none" => event[r].run = r
    /\ RowsAreRouted
    /\ \A r \in RunIds : run[r].cause # NoCause =>
          run[r].cause \in Deliveries /\ event[run[r].cause[1]].state = "routed"

RowsFit == TypeOK /\ RootsAreNew /\ RowsInv

EngineInv == LifeInv /\ RowsInv /\ ResultMatchesExecutions

-----------------------------------------------------------------------------
(* What a step does to the rows. *)

(* Events are created for runs that exist, and routed. *)
EventsMove ==
    \A e \in EventIds :
        \/ event'[e] = event[e]
        \/ /\ event[e].state = "none" /\ event'[e].state = "pending"
           /\ event'[e].run \in RunIds /\ run'[event'[e].run].state # "none"
           /\ e \in RunIds => event'[e].run = e
        \/ /\ event[e].state = "pending" /\ event'[e].state = "routed"
           /\ event'[e].run = event[e].run

(* The failure a run is created for is not one of an error handler. *)
CauseIsSound(c) ==
    \/ c = NoCause
    \/ /\ c \in Deliveries /\ event[c[1]].state = "routed"
       /\ run[RunOf(c)].node \notin LiveOnErrorNodes

(* Runs keep what they were created with and their errors, have no result before *)
(* they are finished, and a cancelling one ends without work.                    *)
RunsMove ==
    \A r \in RunIds :
        \/ run'[r] = run[r]
        \/ /\ run[r].state = "none" /\ run'[r].state \notin {"none", "finished"}
           /\ CauseIsSound(run'[r].cause) /\ run'[r].result = "none"
        \/ /\ run[r].state # "none" /\ run'[r].state # "none"
           /\ run'[r].node = run[r].node /\ run'[r].cause = run[r].cause
           /\ run[r].errors => run'[r].errors
           /\ run'[r].state # "finished" => run'[r].result = run[r].result
           /\ run[r].state = "cancelling" =>
                 run'[r].state = "cancelling" \/ ~HasOpenWork(r)

(* Why an item may go away. *)
MayLose(d) ==
    \/ exec'[d].state # "none" \/ run'[RunOf(d)].state = "cancelling"
    \/ node'[d[2]] = "deleted" \/ DeleteQueueItem(d)

ItemsMove ==
    \A d \in Deliveries :
        \/ item'[d].at = item[d].at
        \/ item'[d].at = 0 /\ (Queued(d) => MayLose(d))
        \/ event[d[1]].state = "pending" /\ event'[d[1]].state = "routed"

(* No older item of its queue stays behind the one that is started. *)
InOrder ==
    \A d, x \in Deliveries :
        (Admits(d) /\ x[2] = d[2] /\ item'[x].queue = exec'[d].queue)
            => ~(item'[x].at # 0 /\ item'[x].at < item[d].at)

NodesMove ==
    \A n \in AllNodes :
        node'[n] = "deleted" => node[n] = "deleted" \/ n \in Deletable

RowsStep == EventsMove /\ RunsMove /\ ItemsMove /\ NodesMove

(* An execution is changed while it is active, or created from an item, and gets *)
(* its result when it finishes.                                                  *)
ExecMoves(d) ==
    \/ exec'[d] = exec[d]
    \/ /\ exec[d].state \in ActiveStates \/ Queued(d)
       /\ exec'[d].state # "finished" => exec'[d].result \in {"none", exec[d].result}

ExecsMove == \A d \in Deliveries : ExecMoves(d)

(* A run ends with a result its rows justify. *)
EndsRight(r) ==
    \/ run'[r].result = "failed" /\ run'[r].errors
    \/ /\ run'[r].result = ResultOf(r) /\ run'[r].errors = run[r].errors
       /\ ~HasOpenWork(r) /\ event' = event /\ item' = item /\ exec' = exec

(* That is the end of it ... *)
RunEnds(r) ==
    /\ IF run[r].state = "finished" THEN run'[r] = run[r]
       ELSE run'[r].state = "finished" => EndsRight(r)
    /\ \A e \in EventIds :
          event[e].state = "none" /\ event'[e].state # "none" /\ event'[e].run = r =>
             run'[r].state # "finished"

(* ... unless it has ended with open work. *)
RunsEnd ==
    \A r \in RunIds : RunEnds(r) \/ (run[r].state = "finished" /\ HasOpenWork(r))

GoodStep == RowsStep /\ ExecsMove /\ RunsEnd /\ InOrder

\* A step that changes executions that exist only starts no item.
LEMMA NothingAdmitted ==
    ASSUME \A d \in Deliveries : exec'[d] = exec[d] \/ exec[d].state # "none"
    PROVE  InOrder
<1>1. \A d \in Deliveries : ~Admits(d)
  BY DEF Admits
<1> QED  BY <1>1 DEF InOrder

\* A step that leaves runs and events alone ends none.
LEMMA NothingEnds ==
    ASSUME run' = run, event' = event
    PROVE  EventsMove /\ RunsMove /\ \A r \in RunIds : RunEnds(r)
  BY DEF EventsMove, RunsMove, RunEnds

\* The engine's invariant gives what every transaction relies on.
LEMMA EngineRowsFit == EngineInv => RowsFit
  BY DEF EngineInv, LifeInv, IdleInv, NewRunHasNoEvents, RowsInv, RowsFit, RootsAreNew,
         EventIds

-----------------------------------------------------------------------------
(* Every action is a good step. *)

\* The runs of a report are new, and about failures that may be reported.
LEMMA ReportMoves ==
    ASSUME RowsFit, NEW failed \in SUBSET Deliveries,
           \A d \in failed : event[d[1]].state = "routed",
           NEW report \in OnErrorReports(failed),
           run' = RunsWith(report), event' = EventsWith(report)
    PROVE  EventsMove /\ RunsMove /\ \A r \in RunIds : RunEnds(r)
<1>1. DOMAIN report \subseteq FreshRuns
  BY ReportType
<1>2. \A r \in DOMAIN report :
         report[r].cause \in failed /\ run[RunOf(report[r].cause)].node \notin LiveOnErrorNodes
  <2> DEFINE subject == [node : LiveOnErrorNodes, cause : {d \in failed : Reportable(d)}]
  <2>1. PICK S \in SUBSET FreshRuns : report \in [S -> subject]
    BY DEF OnErrorReports
  <2>2. \A x \in subject : x.cause \in failed /\ Reportable(x.cause)
    OBVIOUS
  <2>3. \A r \in DOMAIN report : report[r] \in subject
    BY <2>1
  <2> QED  BY <2>2, <2>3 DEF Reportable
<1>3. ASSUME NEW r \in DOMAIN report
      PROVE  /\ r \in RunIds /\ r \in EventIds /\ run[r].state = "none"
             /\ run'[r].state = "started" /\ run'[r].result = "none"
             /\ run'[r].cause = report[r].cause
             /\ event[r].state = "none" /\ event'[r].state = "pending" /\ event'[r].run = r
  <2>1. r \in RunIds /\ r \in EventIds /\ run[r].state = "none"
    BY <1>1 DEF FreshRuns, EventIds
  <2>2. run'[r] = NewRun("started", report[r].node, report[r].cause)
    BY <2>1 DEF RunsWith
  <2>3. event'[r] = NewEvent(r, report[r].node, DefaultChannel)
    BY <2>1 DEF EventsWith
  <2>4. event[r].state = "none"
    BY <2>1 DEF RowsFit, RootsAreNew
  <2>5. /\ run'[r].state = "started" /\ run'[r].result = "none"
        /\ run'[r].cause = report[r].cause
    BY <2>2 DEF NewRun, AbsentRun
  <2>6. event'[r].state = "pending" /\ event'[r].run = r
    BY <2>3 DEF NewEvent
  <2> QED  BY <2>1, <2>4, <2>5, <2>6
<1>4. EventsMove
  <2>1. \A e \in EventIds \ DOMAIN report : event'[e] = event[e]
    BY DEF EventsWith
  <2> QED  BY <1>3, <2>1 DEF EventsMove
<1>5. RunsMove
  <2>1. \A r \in RunIds \ DOMAIN report : run'[r] = run[r]
    BY DEF RunsWith
  <2>2. \A r \in DOMAIN report : CauseIsSound(run'[r].cause)
    BY <1>2, <1>3 DEF CauseIsSound
  <2> QED  BY <1>3, <2>1, <2>2 DEF RunsMove
<1>6. ASSUME NEW r \in RunIds PROVE RunEnds(r)
  <2>1. r \notin DOMAIN report => run'[r] = run[r]
    BY DEF RunsWith
  <2>2. \A e \in EventIds \ DOMAIN report : event'[e] = event[e]
    BY DEF EventsWith
  <2> QED  BY <1>3, <2>1, <2>2 DEF RunEnds
<1> QED  BY <1>4, <1>5, <1>6

\* A root event creates a run.
LEMMA EmitRootEventIsGood ==
    ASSUME RowsFit, NEW n \in Triggers, NEW r \in RunIds, EmitRootEvent(n, r)
    PROVE  GoodStep
<1>1. run[r].state = "none" /\ r \in EventIds /\ event[r].state = "none"
  BY DEF RowsFit, RootsAreNew, EmitRootEvent, FreshRuns, EventIds
<1>2. run'[r] = NewRun("started", n, NoCause) /\ \A q \in RunIds \ {r} : run'[q] = run[q]
  BY DEF EmitRootEvent, RowsFit, TypeOK
<1>3. event'[r] = NewEvent(r, n, DefaultChannel) /\ \A e \in EventIds \ {r} : event'[e] = event[e]
  BY <1>1 DEF EmitRootEvent, RowsFit, TypeOK
<1>4. run'[r].state = "started" /\ run'[r].cause = NoCause /\ run'[r].result = "none"
  BY <1>2 DEF NewRun, AbsentRun
<1>5. event'[r].state = "pending" /\ event'[r].run = r
  BY <1>3 DEF NewEvent
<1>6. item' = item /\ exec' = exec /\ node' = node
  BY DEF EmitRootEvent
<1>7. EventsMove
  BY <1>1, <1>3, <1>4, <1>5 DEF EventsMove
<1>8. RunsMove
  BY <1>1, <1>2, <1>4 DEF RunsMove, CauseIsSound
<1>9. RunsEnd
  BY <1>1, <1>2, <1>3, <1>4, <1>5 DEF RunsEnd, RunEnds
<1> QED  BY <1>6, <1>7, <1>8, <1>9, NothingAdmitted
         DEF GoodStep, RowsStep, ItemsMove, NodesMove, ExecsMove, ExecMoves

\* So does a sub-run.
LEMMA CreatePendingRunIsGood ==
    ASSUME RowsFit, NEW n \in Triggers, NEW r \in RunIds, CreatePendingRun(n, r)
    PROVE  GoodStep
<1>1. run[r].state = "none"
  BY DEF CreatePendingRun, FreshRuns
<1>2. run'[r] = NewRun("pending", n, NoCause) /\ \A q \in RunIds \ {r} : run'[q] = run[q]
  BY DEF CreatePendingRun, RowsFit, TypeOK
<1>3. run'[r].state = "pending" /\ run'[r].cause = NoCause /\ run'[r].result = "none"
  BY <1>2 DEF NewRun, AbsentRun
<1>4. item' = item /\ exec' = exec /\ node' = node /\ event' = event
  BY DEF CreatePendingRun
<1>5. RunsMove
  BY <1>1, <1>2, <1>3 DEF RunsMove, CauseIsSound
<1>6. RunsEnd
  BY <1>1, <1>2, <1>3, <1>4 DEF RunsEnd, RunEnds
<1> QED  BY <1>4, <1>5, <1>6, NothingAdmitted
         DEF GoodStep, RowsStep, EventsMove, ItemsMove, NodesMove, ExecsMove, ExecMoves

\* A pending run gets its root event, fails, or a run that is idle ends.
LEMMA RunRowsAreGood ==
    ASSUME RowsFit, NEW r \in RunIds, InitializeRun(r) \/ FinalizeRun(r)
    PROVE  GoodStep
<1>1. run[r] \in RunRecord /\ r \in EventIds
  BY DEF RowsFit, TypeOK, EventIds
<1>2. item' = item /\ exec' = exec /\ node' = node
  BY DEF InitializeRun, StartRun, FailRun, FinalizeRun
<1>3. \A q \in RunIds \ {r} : run'[q] = run[q]
  BY DEF InitializeRun, StartRun, FailRun, FinalizeRun, RowsFit, TypeOK
<1>4. CASE StartRun(r)
  <2>1. run[r].state = "pending" /\ event[r].state = "none"
    BY <1>4 DEF StartRun, RowsFit, RootsAreNew
  <2>2. /\ run'[r].state = "started" /\ run'[r].result = run[r].result
        /\ run'[r].node = run[r].node /\ run'[r].cause = run[r].cause
        /\ run'[r].errors = run[r].errors
    BY <1>1, <1>4 DEF StartRun, RowsFit, TypeOK, RunRecord
  <2>3. /\ event'[r] = NewEvent(r, run[r].node, DefaultChannel)
        /\ \A e \in EventIds \ {r} : event'[e] = event[e]
    BY <1>1, <1>4 DEF StartRun, RowsFit, TypeOK
  <2>4. event'[r].state = "pending" /\ event'[r].run = r
    BY <2>3 DEF NewEvent
  <2>5. EventsMove
    BY <2>1, <2>2, <2>3, <2>4 DEF EventsMove
  <2>6. RunsMove
    BY <1>3, <2>1, <2>2 DEF RunsMove
  <2>7. RunsEnd
    BY <1>3, <2>1, <2>2, <2>3, <2>4 DEF RunsEnd, RunEnds
  <2> QED  BY <1>2, <2>5, <2>6, <2>7, NothingAdmitted
           DEF GoodStep, RowsStep, ItemsMove, NodesMove, ExecsMove, ExecMoves
<1>5. ASSUME run[r].state \notin {"none", "finished"}, event' = event,
             run'[r].state = "finished", run'[r].node = run[r].node,
             run'[r].cause = run[r].cause, run[r].errors => run'[r].errors, EndsRight(r),
             run[r].state = "cancelling" => ~HasOpenWork(r)
      PROVE  GoodStep
  <2>1. RunsMove
    BY <1>3, <1>5 DEF RunsMove
  <2>2. RunsEnd
    BY <1>3, <1>5 DEF RunsEnd, RunEnds
  <2> QED  BY <1>2, <1>5, <2>1, <2>2, NothingAdmitted
           DEF GoodStep, RowsStep, EventsMove, ItemsMove, NodesMove, ExecsMove, ExecMoves
<1>6. CASE FailRun(r)
  <2>1. /\ run'[r].state = "finished" /\ run'[r].result = "failed" /\ run'[r].errors
        /\ run'[r].node = run[r].node /\ run'[r].cause = run[r].cause
    <3>1. run'[r] = [run[r] EXCEPT !.state = "finished", !.result = "failed", !.errors = TRUE]
      BY <1>6 DEF FailRun, RowsFit, TypeOK
    <3> QED  BY <1>1, <3>1 DEF RunRecord
  <2> QED  BY <1>5, <1>6, <2>1 DEF FailRun, EndsRight
<1>7. CASE FinalizeRun(r)
  <2>1. /\ run'[r].state = "finished" /\ run'[r].result = ResultOf(r)
        /\ run'[r].errors = run[r].errors
        /\ run'[r].node = run[r].node /\ run'[r].cause = run[r].cause
    <3>1. run'[r] = [run[r] EXCEPT !.state = "finished", !.result = ResultOf(r)]
      BY <1>7 DEF FinalizeRun, RowsFit, TypeOK
    <3> QED  BY <1>1, <3>1 DEF RunRecord
  <2> QED  BY <1>2, <1>5, <1>7, <2>1 DEF FinalizeRun, EndsRight
<1> QED  BY <1>4, <1>6, <1>7 DEF InitializeRun

\* A pending event becomes the items of its targets.
LEMMA RouteEventIsGood ==
    ASSUME RowsFit, NEW e \in EventIds, RouteEvent(e)
    PROVE  GoodStep
<1>1. event'[e].state = "routed" /\ event'[e].run = event[e].run
  BY DEF RouteEvent, RowsFit, TypeOK, EventRecord
<1>2. \A x \in EventIds \ {e} : event'[x] = event[x]
  BY DEF RouteEvent, RowsFit, TypeOK
<1>3. event[e].state = "pending" /\ run' = run /\ exec' = exec /\ node' = node
  BY DEF RouteEvent
<1>4. \A d \in Deliveries : d[1] # e => item'[d] = item[d]
  BY DEF RouteEvent
<1>5. EventsMove
  BY <1>1, <1>2, <1>3 DEF EventsMove
<1>6. ItemsMove
  BY <1>1, <1>3, <1>4 DEF ItemsMove
<1>7. RunsMove /\ RunsEnd
  BY <1>1, <1>2, <1>3 DEF RunsMove, RunsEnd, RunEnds
<1> QED  BY <1>3, <1>5, <1>6, <1>7, NothingAdmitted
         DEF GoodStep, RowsStep, NodesMove, ExecsMove, ExecMoves

\* A component begins, passes with outputs, or fails with a report.
LEMMA OutcomeMoves ==
    ASSUME RowsFit, NEW d \in Deliveries, exec[d].state # "none",
           Begin(d) \/ Pass(d) \/ Fail(d)
    PROVE  /\ RowsStep /\ InOrder
           /\ \A r \in RunIds : RunEnds(r) \/ (run[r].state = "finished" /\ r = RunOf(d))
<1>1. item' = item /\ node' = node
  BY DEF Begin, Pass, Fail
<1>2. \A x \in Deliveries \ {d} : exec'[x] = exec[x]
  BY DEF Begin, Pass, Fail, Finished, RowsFit, TypeOK
<1>3. ItemsMove /\ NodesMove /\ InOrder
  BY <1>1, <1>2, NothingAdmitted DEF ItemsMove, NodesMove
<1>4. d[1] \in EventIds /\ event[d[1]].state = "routed"
  BY DEF RowsFit, RowsInv, RowsAreRouted, Deliveries
<1>5. CASE Begin(d)
  BY <1>3, <1>5, NothingEnds DEF RowsStep, Begin
<1>6. CASE Pass(d)
  <2> DEFINE r == RunOf(d)
  <2>1. r \in RunIds /\ run[r].state # "none"
    BY <1>4 DEF RowsFit, RowsInv, RunOf
  <2>2. PICK outs \in FreshOutputs, c \in Channels :
          event' = [e \in EventIds |-> IF e \in outs THEN NewEvent(RunOf(d), d[2], c)
                                      ELSE event[e]]
    BY <1>6 DEF Pass
  <2>3. \A e \in outs : e \in OutputIds /\ e \notin RunIds /\ event[e].state = "none"
    BY IdAssumption DEF FreshOutputs
  <2>4. \A e \in outs : e \in EventIds => event'[e].run = r /\ event'[e].state = "pending"
    BY <2>2 DEF NewEvent
  <2>5. /\ \A q \in RunIds \ {r} : run'[q] = run[q]
        /\ run'[r].state = run[r].state
        /\ run'[r].result = run[r].result /\ (run[r].errors => run'[r].errors)
        /\ run'[r].node = run[r].node /\ run'[r].cause = run[r].cause
    BY <1>6, <2>1 DEF Pass, RowsFit, TypeOK, RunRecord
  <2>6. EventsMove
    BY <2>1, <2>2, <2>3, <2>4, <2>5 DEF EventsMove
  <2>7. RunsMove
    BY <2>1, <2>5 DEF RunsMove
  <2>8. ASSUME NEW q \in RunIds, ~(run[q].state = "finished" /\ q = r) PROVE RunEnds(q)
    BY <2>2, <2>4, <2>5, <2>8 DEF RunEnds
  <2> QED  BY <1>3, <2>6, <2>7, <2>8 DEF RowsStep
<1>7. CASE Fail(d)
  <2>1. PICK report \in OnErrorReports({d}) :
           run' = RunsWith(report) /\ event' = EventsWith(report)
    BY <1>7 DEF Fail
  <2> QED  BY <1>3, <1>4, <2>1, ReportMoves DEF RowsStep
<1> QED  BY <1>5, <1>6, <1>7

\* If it is active, its run has not ended.
LEMMA OutcomeIsGood ==
    ASSUME RowsFit, NEW d \in Deliveries, exec[d].state \in {"pending", "started"},
           Begin(d) \/ Pass(d) \/ Fail(d)
    PROVE  GoodStep
<1>1. /\ RowsStep /\ InOrder
      /\ \A r \in RunIds : RunEnds(r) \/ (run[r].state = "finished" /\ r = RunOf(d))
  BY OutcomeMoves
<1>2. HasOpenWork(RunOf(d))
  BY DEF HasOpenWork, ActiveStates
<1>3. ExecsMove
  <2>1. exec \in [Deliveries -> ExecRecord]
    BY DEF RowsFit, TypeOK
  <2>2. /\ \A x \in Deliveries \ {d} : exec'[x] = exec[x]
        /\ exec'[d].state = "finished" \/ exec'[d].result = exec[d].result
    BY <2>1 DEF Begin, Pass, Fail, Finished, ExecRecord
  <2> QED  BY <2>2 DEF ExecsMove, ExecMoves, ActiveStates
<1> QED  BY <1>1, <1>2, <1>3 DEF GoodStep, RunsEnd

\* Cancelling a run drains it.
LEMMA DrainIsGood ==
    ASSUME RowsFit, NEW r \in RunIds, CancelRun(r) \/ DrainAgain(r)
    PROVE  GoodStep
<1>1. Drain(r) /\ node' = node
  BY DEF CancelRun, DrainAgain
<1>2. EventsMove
  <2>1. \A e \in EventIds : /\ [event[e] EXCEPT !.state = "routed"].run = event[e].run
                           /\ [event[e] EXCEPT !.state = "routed"].state = "routed"
    BY DEF RowsFit, TypeOK, EventRecord
  <2> QED  BY <1>1, <2>1 DEF Drain, EventsMove
<1>3. run'[r].state = "cancelling"
  BY DEF CancelRun, DrainAgain, RowsFit, TypeOK, RunRecord
<1>4. RunsMove
  <2>1. \A q \in RunIds \ {r} : run'[q] = run[q]
    BY DEF CancelRun, DrainAgain, RowsFit, TypeOK
  <2>2. /\ run'[r].node = run[r].node /\ run'[r].cause = run[r].cause
        /\ run'[r].result = run[r].result /\ run'[r].errors = run[r].errors
        /\ run[r].state \notin {"none", "finished"}
    BY DEF CancelRun, DrainAgain, RowsFit, TypeOK, RunRecord
  <2> QED  BY <1>3, <2>1, <2>2 DEF RunsMove
<1>5. ItemsMove
  BY <1>1, <1>3 DEF Drain, ItemsMove, MayLose, NoItem
<1>6. ExecsMove /\ InOrder
  <2>1. \A d \in Deliveries :
           \/ exec'[d] = exec[d]
           \/ exec[d].state \in ActiveStates /\ exec'[d].result = exec[d].result
    BY <1>1 DEF Drain, CancellingExecs, ActiveStates, RowsFit, TypeOK, ExecRecord
  <2> QED  BY <2>1, NothingAdmitted DEF ExecsMove, ExecMoves, ActiveStates
<1>7. RunsEnd
  <2>1. /\ \A q \in RunIds \ {r} : run'[q] = run[q]
        /\ run[r].state # "finished" /\ run'[r].state # "finished"
    BY <1>3 DEF CancelRun, DrainAgain, RowsFit, TypeOK
  <2>2. \A e \in EventIds : event[e].state = "none" => event'[e].state = "none"
    BY <1>1 DEF Drain
  <2> QED  BY <2>1, <2>2 DEF RunsEnd, RunEnds
<1> QED  BY <1>1, <1>2, <1>4, <1>5, <1>6, <1>7 DEF GoodStep, RowsStep, NodesMove

\* The terminator, and the users of the cancel and queue-item APIs.
LEMMA DeliveryIsGood ==
    ASSUME RowsFit, NEW d \in Deliveries,
           Terminate(d) \/ CancelExecution(d) \/ DeleteQueueItem(d)
    PROVE  GoodStep
<1>1. run' = run /\ event' = event /\ node' = node
  BY DEF Terminate, CancelExecution, DeleteQueueItem
<1>2. \A x \in Deliveries :
         \/ exec'[x] = exec[x]
         \/ /\ exec[x].state \in ActiveStates
            /\ exec'[x].state = "finished" \/ exec'[x].result = exec[x].result
  <2>1. exec \in [Deliveries -> ExecRecord]
    BY DEF RowsFit, TypeOK
  <2> QED  BY <2>1 DEF Terminate, CancelExecution, DeleteQueueItem, Finished, CancellingExecs,
                       ActiveStates, ExecRecord
<1>3. ItemsMove
  <2>1. CASE item' = item
    BY <2>1 DEF ItemsMove
  <2>2. CASE DeleteQueueItem(d)
    <3>1. item'[d] = NoItem /\ \A x \in Deliveries \ {d} : item'[x] = item[x]
      BY <2>2 DEF DeleteQueueItem, RowsFit, TypeOK
    <3> QED  BY <2>2, <3>1 DEF ItemsMove, MayLose, NoItem
  <2> QED  BY <2>1, <2>2 DEF Terminate, CancelExecution
<1>4. ExecsMove /\ InOrder
  BY <1>2, NothingAdmitted DEF ExecsMove, ExecMoves, ActiveStates
<1> QED  BY <1>1, <1>3, <1>4, NothingEnds DEF GoodStep, RowsStep, RunsEnd, NodesMove

\* A publish.
LEMMA NodeIsGood ==
    ASSUME RowsFit, NEW n \in AllNodes, UpdateNode(n) \/ DeleteNode(n)
    PROVE  GoodStep
<1>1. run' = run /\ event' = event
  BY DEF UpdateNode, DeleteNode
<1>2. \A d \in Deliveries :
         \/ exec'[d] = exec[d]
         \/ exec[d].state \in ActiveStates /\ exec'[d].result = exec[d].result
  <2>1. exec \in [Deliveries -> ExecRecord]
    BY DEF RowsFit, TypeOK
  <2> QED  BY <2>1 DEF UpdateNode, DeleteNode, CancellingExecs, ExecRecord
<1>3. node \in [AllNodes -> {"ready", "error", "deleted"}]
  BY DEF RowsFit, TypeOK
<1>4. ItemsMove
  <2>1. CASE UpdateNode(n)
    BY <2>1 DEF UpdateNode, ItemsMove
  <2>2. CASE DeleteNode(n)
    <3>1. node'[n] = "deleted"
      BY <1>3, <2>2 DEF DeleteNode
    <3>2. \A d \in Deliveries : item'[d] = IF d[2] = n THEN NoItem ELSE item[d]
      BY <2>2 DEF DeleteNode
    <3> QED  BY <3>1, <3>2 DEF ItemsMove, MayLose, NoItem
  <2> QED  BY <2>1, <2>2
<1>5. NodesMove
  <2>1. \A x \in AllNodes \ {n} : node'[x] = node[x]
    BY <1>3 DEF UpdateNode, DeleteNode
  <2>2. CASE UpdateNode(n)
    <3>1. node'[n] # "deleted"
      BY <1>3, <2>2 DEF UpdateNode
    <3> QED  BY <2>1, <3>1 DEF NodesMove
  <2>3. CASE DeleteNode(n)
    BY <2>1, <2>3 DEF DeleteNode, NodesMove
  <2> QED  BY <2>2, <2>3
<1>6. ExecsMove /\ InOrder
  BY <1>2, NothingAdmitted DEF ExecsMove, ExecMoves, ActiveStates
<1> QED  BY <1>1, <1>4, <1>5, <1>6, NothingEnds DEF GoodStep, RowsStep, RunsEnd

\* A pass that has listed these rows, now or before: what it did not keep of them
\* belongs to runs that are being cancelled, or is gone.
LEMMA DispatchMoves ==
    ASSUME RowsFit, NEW n \in Nodes, NEW rows, NEW L \in SUBSET Deliveries,
           \A d \in L : event[d[1]].state = "routed",
           \A d \in Deliveries : d \in DOMAIN rows \ L /\ Queued(d) =>
              run[RunOf(d)].state = "cancelling",
           Dispatch(n, rows, L)
    PROVE  RowsStep /\ \A r \in RunIds : RunEnds(r)
<1>1. PICK name \in QueueNames(n, rows, L), bad \in SUBSET L :
        DispatchAs(n, rows, L, name, bad)
  BY DEF Dispatch
<1> DEFINE admitted == Reached(n, rows, L, name, bad) \ bad
           failed   == bad \cup {d \in L : name[d] = KeyError}
           blocked  == L \ (admitted \cup failed)
<1>2. admitted \subseteq L /\ failed \subseteq L
  BY DEF Reached
<1>3. /\ node' = node
      /\ item' = [d \in Deliveries |->
                     IF d \in blocked /\ Queued(d)
                     THEN [item[d] EXCEPT !.queue = name[d]]
                     ELSE IF d \in DOMAIN rows THEN NoItem ELSE item[d]]
      /\ \A d \in Deliveries : d \in admitted \cup failed => exec'[d].state # "none"
  BY <1>1 DEF DispatchAs
<1>4. PICK report \in OnErrorReports(failed) :
         run' = RunsWith(report) /\ event' = EventsWith(report)
  BY <1>1 DEF DispatchAs
<1> HIDE DEF admitted, failed
<1>5. EventsMove /\ RunsMove /\ \A r \in RunIds : RunEnds(r)
  BY <1>2, <1>4, ReportMoves
<1>6. ASSUME NEW d \in Deliveries, item'[d].at # item[d].at
      PROVE  item'[d].at = 0 /\ (Queued(d) => MayLose(d))
  <2>1. [item[d] EXCEPT !.queue = name[d]].at = item[d].at
    BY DEF RowsFit, TypeOK, ItemRecord
  <2>2. d \in DOMAIN rows /\ item'[d] = NoItem /\ ~(d \in blocked /\ Queued(d))
    BY <1>3, <1>6, <2>1
  <2>3. CASE d \in L /\ Queued(d)
    <3>1. d \in admitted \cup failed
      BY <2>2, <2>3
    <3> QED  BY <1>3, <2>2, <3>1 DEF MayLose, NoItem
  <2>4. CASE d \notin L /\ Queued(d)
    <3>1. run[RunOf(d)].state = "cancelling"
      BY <2>2, <2>4
    <3>2. d[1] \in EventIds /\ event[d[1]].state = "routed"
      BY <2>4 DEF RowsFit, RowsInv, RowsAreRouted, Deliveries
    <3>3. RunOf(d) \in RunIds
      BY <3>2 DEF RowsFit, RowsInv, RunOf
    <3>4. RunOf(d) \notin DOMAIN report
      BY <1>2, <1>4, <3>1, ReportType DEF FreshRuns
    <3>5. run'[RunOf(d)] = run[RunOf(d)]
      BY <1>4, <3>3, <3>4 DEF RunsWith
    <3> QED  BY <2>2, <3>1, <3>5 DEF MayLose, NoItem
  <2> QED  BY <2>2, <2>3, <2>4 DEF NoItem
<1>7. ItemsMove
  BY <1>6 DEF ItemsMove
<1> QED  BY <1>3, <1>5, <1>7 DEF RowsStep, NodesMove

\* A pass starts the items of a queue in order of age, and loses none.
LEMMA ProcessNodeIsGood ==
    ASSUME RowsFit, NEW n \in Nodes, ProcessNode(n)
    PROVE  GoodStep
<1> DEFINE rows == [d \in Window(n) |-> item[d]]
           L    == Live(Window(n))
<1>1. /\ L \subseteq Window(n) /\ Window(n) \subseteq Deliveries
      /\ \A d \in Window(n) : Queued(d) /\ d[2] = n /\ rows[d] = item[d]
  BY DEF Live, Window, Actionable
<1>2. PICK name \in QueueNames(n, rows, L), bad \in SUBSET L :
        DispatchAs(n, rows, L, name, bad)
  BY DEF ProcessNode, Dispatch
<1> DEFINE reached  == Reached(n, rows, L, name, bad)
           admitted == reached \ bad
           failed   == bad \cup {d \in L : name[d] = KeyError}
           blocked  == L \ (admitted \cup failed)
<1>3. admitted \subseteq L /\ failed \subseteq L /\ L \in SUBSET Deliveries
  BY <1>1 DEF Reached
<1>4. /\ bad \subseteq reached /\ node' = node
      /\ item' = [d \in Deliveries |->
                     IF d \in blocked /\ Queued(d)
                     THEN [item[d] EXCEPT !.queue = name[d]]
                     ELSE IF d \in Window(n) THEN NoItem ELSE item[d]]
      /\ exec' = [d \in Deliveries |->
                     IF d \in admitted
                     THEN [state |-> "pending", result |-> "none", queue |-> name[d]]
                     ELSE IF d \in failed
                     THEN [state |-> "finished", result |-> "failed", queue |-> Unresolved]
                     ELSE exec[d]]
  BY <1>2 DEF DispatchAs
<1>5. RowsStep /\ RunsEnd
  <2>1. \A d \in L : event[d[1]].state = "routed"
    BY <1>1 DEF RowsFit, RowsInv, RowsAreRouted
  <2>2. \A d \in Deliveries : d \in DOMAIN rows \ L => run[RunOf(d)].state = "cancelling"
    BY DEF Live
  <2>3. Dispatch(n, rows, L)
    BY DEF ProcessNode
  <2> HIDE DEF rows, L
  <2> QED  BY <1>3, <2>1, <2>2, <2>3, DispatchMoves DEF RunsEnd
<1> HIDE DEF rows, L, reached, admitted, failed, blocked
<1>6. \A d \in Deliveries :
         /\ d \in blocked => item'[d].at = item[d].at /\ item'[d].queue = name[d]
         /\ d \in Window(n) \ blocked => item'[d] = NoItem
         /\ d \notin Window(n) => item'[d] = item[d]
  <2>1. \A d \in Deliveries :
           /\ [item[d] EXCEPT !.queue = name[d]].at = item[d].at
           /\ [item[d] EXCEPT !.queue = name[d]].queue = name[d]
    BY DEF RowsFit, TypeOK, ItemRecord
  <2>2. \A d \in blocked : d \in Window(n) /\ Queued(d)
    BY <1>1 DEF blocked
  <2> QED  BY <1>4, <2>1, <2>2
<1>7. ExecsMove
  <2>1. \A d \in admitted \cup failed : Queued(d)
    BY <1>1, <1>3
  <2>2. \A d \in Deliveries :
           \/ exec'[d] = exec[d]
           \/ d \in admitted \cup failed /\ exec'[d].result = "none"
           \/ d \in admitted \cup failed /\ exec'[d].state = "finished"
    BY <1>4
  <2> QED  BY <2>1, <2>2 DEF ExecsMove, ExecMoves
<1>8. InOrder
  <2> SUFFICES ASSUME NEW d \in Deliveries, NEW x \in Deliveries, Admits(d),
                      x[2] = d[2], item'[x].queue = exec'[d].queue,
                      item'[x].at # 0, item'[x].at < item[d].at
               PROVE  FALSE
    BY DEF InOrder
  <2>1. d \in admitted /\ exec'[d].queue = name[d]
    BY <1>4 DEF Admits
  <2>2. /\ d \in L /\ d \in Window(n) /\ x[2] = n
        /\ name[d] \in Queues /\ name[d] # KeyError
    <3>1. d \in L /\ d \in Window(n) /\ d[2] = n
      BY <1>1, <1>3, <2>1
    <3>2. name[d] \in Queues \cup {KeyError} /\ name[d] # KeyError
      BY <2>1, <3>1 DEF QueueNames, Reached, admitted, reached
    <3> QED  BY <3>1, <3>2
  <2> DEFINE ahead(y) == {z \in L \ bad : name[z] = name[y] /\ rows[z].at < rows[y].at}
             q        == name[d]
  <2>3. ActiveInQueue(n, q) + Cardinality(ahead(d)) < Max[n]
    BY <2>1 DEF Reached, admitted, reached
  <2>4. /\ IsFiniteSet(L) /\ IsFiniteSet(Actionable(n))
    <3>1. IsFiniteSet(EventIds \X {n})
      BY EventIdsFinite, FS_Singleton, FS_Product
    <3>2. Actionable(n) \in SUBSET (EventIds \X {n})
      BY DEF Actionable, Deliveries
    <3>3. L \in SUBSET Actionable(n)
      BY <1>1 DEF Window
    <3> QED  BY <3>1, <3>2, <3>3, FS_Subset
  <2>5. ActiveInQueue(n, q) \in Nat /\ Max[n] \in Nat
    BY ActiveFinite, QueueAssumption
  <2>6. \A y \in Deliveries : item[y].at \in Nat
    BY StampType DEF RowsFit
  <2>7. CASE x \in Window(n)
    <3>1. x \in blocked
      BY <1>6, <2>7 DEF NoItem
    <3>2. item[x].at < item[d].at /\ name[x] = q
      BY <1>6, <2>1, <3>1
    <3>3. x \in L /\ x \notin Reached(n, rows, L, name, bad)
      BY <1>4, <3>1 DEF blocked, admitted, failed, reached
    <3>4. ~(ActiveInQueue(n, q) + Cardinality(ahead(x)) < Max[n])
      BY <2>2, <3>2, <3>3 DEF Reached
    <3>5. ahead(x) \subseteq ahead(d)
      <4>1. rows[x].at < rows[d].at /\ \A z \in L : rows[z].at \in Nat
        BY <1>1, <2>2, <2>6, <2>7, <3>2
      <4>2. rows[x].at \in Nat /\ rows[d].at \in Nat
        BY <2>2, <3>3, <4>1
      <4> QED  BY <3>2, <4>1, <4>2
    <3>6. ahead(d) \in SUBSET L
      OBVIOUS
    <3>7. /\ Cardinality(ahead(x)) <= Cardinality(ahead(d))
          /\ Cardinality(ahead(x)) \in Nat /\ Cardinality(ahead(d)) \in Nat
      <4> HIDE DEF ahead
      <4>1. IsFiniteSet(ahead(d))
        BY <2>4, <3>6, FS_Subset
      <4> QED  BY <3>5, <4>1, FS_Subset, FS_CardinalityType
    <3> HIDE DEF ahead
    <3> QED  BY <2>3, <2>5, <3>4, <3>7
  <2>8. CASE x \notin Window(n)
    <3>1. item[x].at # 0 /\ item[x].at < item[d].at /\ item[x].queue = q
      BY <1>6, <2>1, <2>8
    <3>2. ActiveInQueue(n, q) < Max[n]
      <4>1. ahead(d) \in SUBSET L
        OBVIOUS
      <4>2. Cardinality(ahead(d)) \in Nat
        BY <2>4, <4>1, FS_Subset, FS_CardinalityType
      <4> HIDE DEF ahead
      <4> QED  BY <2>3, <2>5, <4>2
    <3>3. x \in Actionable(n) /\ d \in Actionable(n)
      BY <2>2, <3>1, <3>2 DEF Actionable, Queued, Window
    <3> DEFINE older(y) == {z \in Actionable(n) : item[z].at < item[y].at}
    <3>4. older(x) \subseteq older(d) /\ older(d) \in SUBSET Actionable(n)
      BY <2>6, <3>1 DEF Actionable
    <3>5. Cardinality(older(d)) < ScanLimit /\ ~(Cardinality(older(x)) < ScanLimit)
      BY <2>2, <2>8, <3>3 DEF Window
    <3>6. /\ Cardinality(older(x)) <= Cardinality(older(d))
          /\ Cardinality(older(x)) \in Nat /\ Cardinality(older(d)) \in Nat
      <4> HIDE DEF older
      <4>1. IsFiniteSet(older(d))
        BY <2>4, <3>4, FS_Subset
      <4> QED  BY <3>4, <4>1, FS_Subset, FS_CardinalityType
    <3>7. ScanLimit \in Nat
      BY QueueAssumption
    <3> HIDE DEF older
    <3> QED  BY <3>5, <3>6, <3>7
  <2> QED  BY <2>7, <2>8
<1> QED  BY <1>5, <1>7, <1>8 DEF GoodStep

\* Every step is good.
LEMMA EveryStepIsGood ==
    ASSUME RowsFit, [Next]_vars
    PROVE  GoodStep
<1>1. CASE UNCHANGED vars
  <2>1. /\ run' = run /\ event' = event /\ item' = item
        /\ exec' = exec /\ node' = node
    BY <1>1 DEF vars
  <2> QED  BY <2>1, NothingAdmitted, NothingEnds
           DEF GoodStep, RowsStep, RunsEnd, ItemsMove, NodesMove, ExecsMove, ExecMoves
<1>2. CASE \E n \in Triggers, r \in RunIds : EmitRootEvent(n, r) \/ CreatePendingRun(n, r)
  BY <1>2, EmitRootEventIsGood, CreatePendingRunIsGood
<1>3. CASE \E r \in RunIds : InitializeRun(r) \/ FinalizeRun(r)
  BY <1>3, RunRowsAreGood
<1>4. CASE \E r \in RunIds : CancelRun(r) \/ DrainAgain(r)
  BY <1>4, DrainIsGood
<1>5. CASE \E e \in EventIds : RouteEvent(e)
  BY <1>5, RouteEventIsGood
<1>6. CASE \E n \in Nodes : ProcessNode(n)
  BY <1>6, ProcessNodeIsGood
<1>7. CASE \E d \in Deliveries : Execute(d) \/ InvokeHook(d)
  BY <1>7, OutcomeIsGood DEF Execute, InvokeHook
<1>8. CASE \E d \in Deliveries : Terminate(d) \/ CancelExecution(d) \/ DeleteQueueItem(d)
  BY <1>8, DeliveryIsGood
<1>9. CASE \E n \in AllNodes : UpdateNode(n) \/ DeleteNode(n)
  BY <1>9, NodeIsGood
<1> QED  BY <1>1, <1>2, <1>3, <1>4, <1>5, <1>6, <1>7, <1>8, <1>9 DEF Next

-----------------------------------------------------------------------------
(* What such steps keep. *)

\* A routed event stays as it is.
LEMMA RoutedEventStays ==
    ASSUME RowsStep, NEW e \in EventIds, event[e].state = "routed"
    PROVE  event'[e] = event[e]
  BY DEF RowsStep, EventsMove

\* A run that exists keeps its node.
LEMMA RunKeepsNode ==
    ASSUME RowsStep, NEW r \in RunIds, run[r].state # "none"
    PROVE  run'[r].state # "none" /\ run'[r].node = run[r].node
  BY DEF RowsStep, RunsMove

\* Rows still belong to rows.
LEMMA RowsKept ==
    ASSUME RowsInv, RowsStep, RowsAreRouted'
    PROVE  RowsInv'
<1>1. ASSUME NEW e \in EventIds
      PROVE  IF event'[e].state = "none" THEN event'[e].run = NoRun
             ELSE event'[e].run \in RunIds /\ run'[event'[e].run].state # "none"
  <2>1. CASE event[e].state # "none"
    <3>1. event'[e].state # "none" /\ event'[e].run = event[e].run
      BY <2>1 DEF RowsStep, EventsMove
    <3> QED  BY <2>1, <3>1, RunKeepsNode DEF RowsInv
  <2>2. CASE event[e].state = "none"
    BY <2>2 DEF RowsStep, EventsMove, RowsInv
  <2> QED  BY <2>1, <2>2
<1>2. ASSUME NEW r \in RunIds, event'[r].state # "none" PROVE event'[r].run = r
  BY <1>2 DEF RowsStep, EventsMove, RowsInv, EventIds
<1>3. ASSUME NEW r \in RunIds, run'[r].cause # NoCause
      PROVE  run'[r].cause \in Deliveries /\ event'[run'[r].cause[1]].state = "routed"
  <2>1. \/ run'[r].cause = run[r].cause
        \/ CauseIsSound(run'[r].cause)
    BY DEF RowsStep, RunsMove
  <2>2. run'[r].cause \in Deliveries /\ event[run'[r].cause[1]].state = "routed"
    BY <1>3, <2>1 DEF CauseIsSound, RowsInv
  <2>3. run'[r].cause[1] \in EventIds
    BY <2>2 DEF Deliveries
  <2> QED  BY <2>2, <2>3, RoutedEventStays
<1> QED  BY <1>1, <1>2, <1>3 DEF RowsInv

\* Items and executions are made of items, and items of routed events.
LEMMA RoutedKept ==
    ASSUME RowsAreRouted, GoodStep
    PROVE  RowsAreRouted'
<1> SUFFICES ASSUME NEW d \in Deliveries, Queued(d)' \/ exec'[d].state # "none"
             PROVE  event'[d[1]].state = "routed"
  BY DEF RowsAreRouted
<1>1. d[1] \in EventIds /\ RowsStep
  BY DEF Deliveries, GoodStep
<1>2. CASE Queued(d) \/ exec[d].state # "none"
  BY <1>1, <1>2, RoutedEventStays DEF RowsAreRouted
<1>3. CASE ~Queued(d) /\ exec[d].state = "none"
  <2>1. exec'[d] = exec[d]
    BY <1>3 DEF GoodStep, ExecsMove, ExecMoves, ActiveStates
  <2> QED  BY <1>1, <1>3, <2>1 DEF RowsStep, ItemsMove, Queued
<1> QED  BY <1>2, <1>3

(* What the stored result of run r says about its executions. *)
Justified(r) ==
    /\ run[r].result = "passed" =>
          /\ \A d \in Deliveries : RunOf(d) = r => exec[d].result \in {"none", "passed"}
          /\ ~run[r].errors
    /\ run[r].result = "failed" =>
          \/ \E d \in Deliveries : RunOf(d) = r /\ exec[d].result = "failed"
          \/ run[r].errors

\* The same, run by run.
LEMMA ResultsJustified == ResultMatchesExecutions <=> \A r \in RunIds : Justified(r)
<1>1. ASSUME NEW r \in RunIds
      PROVE  LET results == {exec[d].result : d \in {x \in Deliveries : RunOf(x) = r}}
             IN  /\ (results \subseteq {"none", "passed"}) <=>
                      \A d \in Deliveries : RunOf(d) = r => exec[d].result \in {"none", "passed"}
                 /\ ("failed" \in results) <=>
                      \E d \in Deliveries : RunOf(d) = r /\ exec[d].result = "failed"
  OBVIOUS
<1> QED  BY <1>1 DEF ResultMatchesExecutions, Justified

\* A finished run without work is left alone, and so are its executions.
LEMMA FinishedRunIsLeftAlone ==
    ASSUME RowsInv, RowsStep, NEW r \in RunIds, run[r].state = "finished",
           ~HasOpenWork(r), RunEnds(r),
           \A d \in Deliveries : RunOf(d) = r => ExecMoves(d)
    PROVE  /\ run'[r] = run[r] /\ ~HasOpenWork(r)'
           /\ \A d \in Deliveries : RunOf(d)' = r <=> RunOf(d) = r
           /\ \A d \in Deliveries : RunOf(d) = r => exec'[d] = exec[d]
<1>1. run'[r] = run[r]
  BY DEF RunEnds
<1>2. ASSUME NEW e \in EventIds
      PROVE  /\ event'[e].run = r <=> event[e].run = r
             /\ event'[e].run = r => event'[e].state # "pending"
  <2>1. CASE event[e].state = "none"
    <3>1. event[e].run = NoRun /\ r # NoRun
      BY <2>1, IdAssumption DEF RowsInv, NoRun
    <3>2. event'[e] = event[e] \/ event'[e].run # r
      BY <1>1, <2>1 DEF RowsStep, EventsMove, RunEnds
    <3> QED  BY <3>1, <3>2
  <2>2. CASE event[e].state # "none"
    <3>1. event[e].run = r => event[e].state # "pending"
      BY DEF HasOpenWork
    <3> QED  BY <2>2, <3>1 DEF RowsStep, EventsMove
  <2> QED  BY <2>1, <2>2
<1>3. \A d \in Deliveries : d[1] \in EventIds
  BY DEF Deliveries
<1>4. \A d \in Deliveries : RunOf(d)' = r <=> RunOf(d) = r
  BY <1>2, <1>3 DEF RunOf
<1>5. ASSUME NEW d \in Deliveries, RunOf(d) = r
      PROVE  exec'[d] = exec[d] /\ exec[d].state \notin ActiveStates /\ ~Queued(d)'
  <2>1. ~Queued(d) /\ exec[d].state \notin ActiveStates /\ event[d[1]].state # "pending"
    BY <1>3, <1>5 DEF HasOpenWork, RunOf
  <2> QED  BY <1>5, <2>1 DEF ExecMoves, RowsStep, ItemsMove, Queued
<1>6. ~HasOpenWork(r)'
  BY <1>2, <1>4, <1>5 DEF HasOpenWork
<1> QED  BY <1>1, <1>4, <1>5, <1>6

\* So its result stays justified, and a run that ends gets a justified one.
LEMMA JustifiedKept ==
    ASSUME TypeOK, UnfinishedRunHasNoResult', RowsInv, RowsStep,
           NEW r \in RunIds, Justified(r), RunEnds(r),
           run[r].state = "finished" =>
              ~HasOpenWork(r) /\ \A d \in Deliveries : RunOf(d) = r => ExecMoves(d)
    PROVE  Justified(r)'
<1>1. CASE run'[r].state # "finished"
  <2>1. run'[r].result = "none"
    BY <1>1 DEF UnfinishedRunHasNoResult
  <2> QED  BY <2>1 DEF Justified
<1>2. CASE run[r].state = "finished"
  BY <1>2, FinishedRunIsLeftAlone DEF Justified
<1>3. CASE run[r].state # "finished" /\ run'[r].state = "finished"
  <2>1. EndsRight(r)
    BY <1>3 DEF RunEnds
  <2>2. CASE run'[r].result = "failed" /\ run'[r].errors
    BY <2>2 DEF Justified
  <2>3. CASE /\ run'[r].result = ResultOf(r) /\ run'[r].errors = run[r].errors
             /\ event' = event /\ exec' = exec
    <3>1. /\ ResultOf(r) = "passed" =>
                /\ ~run[r].errors
                /\ \A d \in Deliveries : RunOf(d) = r =>
                      exec[d].result # "failed" /\ exec[d].result # "cancelled"
          /\ ResultOf(r) = "failed" =>
                \/ run[r].errors
                \/ \E d \in Deliveries : RunOf(d) = r /\ exec[d].result = "failed"
      BY DEF ResultOf
    <3>2. \A d \in Deliveries : exec[d].result \in {"none", "passed", "failed", "cancelled"}
      BY DEF TypeOK, ExecRecord, Results
    <3> QED  BY <2>3, <3>1, <3>2 DEF Justified, RunOf
  <2> QED  BY <2>1, <2>2, <2>3 DEF EndsRight
<1> QED  BY <1>1, <1>2, <1>3

\* For all runs, if no finished run has open work.
LEMMA ResultsKept ==
    ASSUME LifeInv, LifeInv', RowsInv, GoodStep, ResultMatchesExecutions
    PROVE  ResultMatchesExecutions'
<1> SUFFICES ASSUME NEW r \in RunIds PROVE Justified(r)'
  <2>1. ResultMatchesExecutions' <=> (\A r \in RunIds : Justified(r))'
    BY ResultsJustified, PTL
  <2> QED  BY <2>1
<1>1. Justified(r)
  BY ResultsJustified
<1>2. /\ run[r].state = "finished" => ~HasOpenWork(r)
      /\ TypeOK /\ UnfinishedRunHasNoResult'
  BY DEF LifeInv, IdleInv, FinishedRunHasNoOpenWork
<1>3. RunEnds(r) /\ RowsStep /\ \A d \in Deliveries : ExecMoves(d)
  BY <1>2 DEF GoodStep, RunsEnd, ExecsMove
<1> QED  BY <1>1, <1>2, <1>3, JustifiedKept

-----------------------------------------------------------------------------
\* The empty system has no rows to relate.
LEMMA EngineInit == Init => EngineInv /\ NoErrorCascade
<1> SUFFICES ASSUME Init PROVE EngineInv /\ NoErrorCascade
  OBVIOUS
<1>1. LifeInv
  BY LifeInit
<1>2. /\ \A r \in RunIds : /\ run[r].state = "none" /\ run[r].result = "none"
                           /\ run[r].cause = NoCause
      /\ \A e \in EventIds : event[e].state = "none" /\ event[e].run = NoRun
      /\ \A d \in Deliveries : ~Queued(d) /\ exec[d].state = "none"
  BY DEF Init, AbsentRun, NoEvent, NoItem, NoExec, Queued
<1>3. RowsInv
  BY <1>2 DEF RowsInv, RowsAreRouted, EventIds
<1>4. ResultMatchesExecutions
  BY <1>2, ResultsJustified DEF Justified
<1> QED  BY <1>1, <1>2, <1>3, <1>4 DEF EngineInv, NoErrorCascade

\* The invariant is inductive.
LEMMA EngineNext == EngineInv /\ [Next]_vars => EngineInv' /\ GoodStep
<1> SUFFICES ASSUME EngineInv, [Next]_vars PROVE EngineInv' /\ GoodStep
  OBVIOUS
<1>1. LifeInv /\ RowsInv /\ ResultMatchesExecutions
  BY DEF EngineInv
<1>2. GoodStep
  BY EngineRowsFit, EveryStepIsGood
<1>3. LifeInv'
  BY <1>1, LifeNext
<1>4. RowsInv'
  BY <1>1, <1>2, RoutedKept, RowsKept DEF GoodStep, RowsInv
<1> QED  BY <1>1, <1>2, <1>3, <1>4, ResultsKept DEF EngineInv

(***************************************************************************)
(* The result stored when a run was finalized is, for ever, the one its    *)
(* executions justify: nothing executes, fails or is cancelled in a run    *)
(* afterwards (CalculateResult).                                           *)
(***************************************************************************)
THEOREM ResultsAreJustified == Spec => []ResultMatchesExecutions
<1>1. EngineInv => ResultMatchesExecutions
  BY DEF EngineInv
<1> QED  BY <1>1, EngineInit, EngineNext, PTL DEF Spec

(***************************************************************************)
(* Per-queue FIFO, for every scan limit, concurrency and backlog: an item  *)
(* that is started leaves no older one of its queue behind, neither among  *)
(* the items the pass listed nor among those it did not list               *)
(* (processNodeQueueItems).                                                *)
(***************************************************************************)
THEOREM QueuesAreFifo == Spec => PerQueueFifo
<1>1. GoodStep => \A d, x \in Deliveries :
         (Admits(d) /\ x[2] = d[2] /\ item'[x].queue = exec'[d].queue)
            => ~(item'[x].at # 0 /\ item'[x].at < item[d].at)
  BY DEF GoodStep, InOrder
<1> QED  BY <1>1, EngineInit, EngineNext, PTL DEF Spec, PerQueueFifo

\* An item that goes away may go.
LEMMA ItemsStayIn ==
    ASSUME RowsAreRouted, RowsStep
    PROVE  \A d \in Deliveries : Queued(d) =>
              \/ item'[d].at = item[d].at
              \/ exec'[d].state # "none"
              \/ run'[RunOf(d)].state = "cancelling"
              \/ node'[d[2]] = "deleted"
              \/ DeleteQueueItem(d)
<1> SUFFICES ASSUME NEW d \in Deliveries, Queued(d)
             PROVE  item'[d].at = item[d].at \/ MayLose(d)
  BY DEF MayLose
<1>1. event[d[1]].state = "routed"
  BY DEF RowsAreRouted
<1> QED  BY <1>1 DEF RowsStep, ItemsMove

(***************************************************************************)
(* No worker loses a queue item: it becomes an execution, or goes with its *)
(* run's cancellation, its node or a user's request.  The router does not  *)
(* overwrite one, since an event that has items is routed.                 *)
(***************************************************************************)
THEOREM ItemsStay == Spec => ItemsAreNotLost
<1>1. EngineInv /\ GoodStep => \A d \in Deliveries : Queued(d) =>
         \/ item'[d].at = item[d].at
         \/ exec'[d].state # "none"
         \/ run'[RunOf(d)].state = "cancelling"
         \/ node'[d[2]] = "deleted"
         \/ DeleteQueueItem(d)
  BY ItemsStayIn DEF EngineInv, RowsInv, GoodStep
<1> QED  BY <1>1, EngineInit, EngineNext, PTL DEF Spec, ItemsAreNotLost

-----------------------------------------------------------------------------
(* The On Error nodes of the canvas are not deleted. *)
OnErrorNodesStay == OnErrorNodes \cap Deletable = {}

CascadeInv ==
    /\ NoErrorCascade
    /\ \A n \in OnErrorNodes : node[n] # "deleted"

\* A run that a failure starts is about another run than an error handler's.
LEMMA CascadeKept ==
    ASSUME OnErrorNodesStay, CascadeInv, RowsInv, RowsStep
    PROVE  CascadeInv'
<1>1. \A n \in OnErrorNodes : node'[n] # "deleted"
  BY NodeAssumption DEF RowsStep, NodesMove, CascadeInv, OnErrorNodesStay, AllNodes
<1>2. LiveOnErrorNodes = OnErrorNodes
  BY DEF CascadeInv, LiveOnErrorNodes
<1>3. ASSUME NEW r \in RunIds, run'[r].cause # NoCause
      PROVE  run'[event'[run'[r].cause[1]].run].node \notin OnErrorNodes
  <2> DEFINE c == run'[r].cause
  <2>1. c = run[r].cause \/ CauseIsSound(c)
    BY DEF RowsStep, RunsMove
  <2>2. c \in Deliveries /\ event[c[1]].state = "routed" /\ c[1] \in EventIds
    BY <1>3, <2>1 DEF CauseIsSound, RowsInv, Deliveries
  <2>3. run[RunOf(c)].node \notin OnErrorNodes
    BY <1>2, <1>3, <2>1 DEF CauseIsSound, CascadeInv, NoErrorCascade
  <2>4. event'[c[1]] = event[c[1]] /\ RunOf(c) \in RunIds /\ run[RunOf(c)].state # "none"
    BY <2>2, RoutedEventStays DEF RowsInv, RunOf
  <2>5. run'[RunOf(c)].node = run[RunOf(c)].node
    BY <2>4, RunKeepsNode
  <2> QED  BY <2>3, <2>4, <2>5 DEF RunOf
<1> QED  BY <1>1, <1>3 DEF CascadeInv, NoErrorCascade, RunOf

\* At first there is no failure, and no node is deleted.
LEMMA CascadeInit == Init => CascadeInv
<1>1. Init => \A n \in OnErrorNodes : node[n] # "deleted"
  BY NodeAssumption DEF Init, AllNodes
<1> QED  BY <1>1, EngineInit DEF CascadeInv

(***************************************************************************)
(* While no On Error node is deleted, a failure inside a run that one      *)
(* started never starts another run (dispatchOnError).  The assumption is  *)
(* needed: the check looks for the run's node among the live ones.         *)
(***************************************************************************)
THEOREM ErrorsDoNotCascade == OnErrorNodesStay /\ Spec => []NoErrorCascade
<1> SUFFICES ASSUME OnErrorNodesStay PROVE Spec => []NoErrorCascade
  OBVIOUS
<1>1. EngineInv /\ CascadeInv /\ GoodStep => CascadeInv'
  BY CascadeKept DEF EngineInv, GoodStep
<1>2. CascadeInv => NoErrorCascade
  BY DEF CascadeInv
<1> QED  BY <1>1, <1>2, CascadeInit, EngineInit, EngineNext, PTL DEF Spec
===========================================================================
