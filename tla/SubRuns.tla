------------------------------ MODULE SubRuns ------------------------------
(***************************************************************************)
(* Runs that run other apps.  A runApp execution of a run creates a child  *)
(* run and waits for the callback of its end.  Cancellation goes down the  *)
(* tree, run by run, through the terminator; results go up, through the    *)
(* callback.  The timeout of the call cancels the child.                   *)
(*                                                                         *)
(* A call is named by the run it creates.  What else a run does is its     *)
(* work, open or done, and the result of a run that was not cancelled is   *)
(* any: RunEngine has the executions it is calculated from.                *)
(*                                                                         *)
(* An action is one transaction, but for two that read the call without    *)
(* locking it and save the row they read: the timeout's hook, and the      *)
(* callback at the end of a run.  They read in one step and write in       *)
(* another, and a cancellation of the call in between is undone.           *)
(***************************************************************************)
EXTENDS Integers, FiniteSets

CONSTANTS
    RunIds,     \* identifiers of runs, bounds their number
    Apps,
    Entries,    \* the nodes a run can begin at, as [app, node]
    RootEntry,  \* the runs that triggers start, with their entries
    MaxDepth,   \* how often a chain of calls may cross from app to app
    Cancellable, \* the runs that people cancel, or the calls of
    Deletable,  \* the apps whose runApp node may be deleted
    Removable   \* the entries that may be removed

NoParent == 0
NoEntry  == [app |-> "none", node |-> "none"]

ASSUME SubRunsAssumption ==
    /\ RunIds \subseteq Nat \ {NoParent} /\ IsFiniteSet(RunIds)
    /\ DOMAIN RootEntry \subseteq RunIds
    /\ \A r \in DOMAIN RootEntry : RootEntry[r] \in Entries
    /\ MaxDepth \in Nat /\ Cancellable \subseteq RunIds
    /\ \A e \in Entries : e \in [app : Apps, node : {e.node}]
    /\ NoEntry \notin Entries
    /\ Deletable \subseteq Apps /\ Removable \subseteq Entries

VARIABLES
    run,    \* per run: state, result, work, and where it stands in the tree
    call,   \* per run: the runApp execution that created it, with its timer
    node,   \* per app: is its runApp node there
    entry,  \* per entry: is the node there, and does it take the parameters of its callers
    hook,   \* the calls whose timeout hook has read them
    ending, \* per run: the result of its end, once its callback has read the call
    lost    \* the calls that go on because a save undid their cancellation

vars == <<run, call, node, entry, hook, ending, lost>>

appVars  == <<node, entry>>
saveVars == <<hook, ending, lost>>

-----------------------------------------------------------------------------
(* Types and the initial state. *)

Unfinished == {"pending", "started", "cancelling"}
Results    == {"passed", "failed", "cancelled"}

CalledRuns == RunIds \ DOMAIN RootEntry

NoRun  == [state |-> "none", result |-> "", work |-> "done",
           entry |-> NoEntry, parent |-> NoParent, up |-> {}]
NoCall == [state |-> "none", channel |-> "", timer |-> FALSE]

RunRows  == [state : {"none", "finished"} \cup Unfinished, result : Results \cup {""},
             work : {"open", "done"}, entry : Entries \cup {NoEntry},
             parent : RunIds \cup {NoParent}, up : SUBSET RunIds]
CallRows == [state : {"none", "started", "cancelling", "finished"},
             channel : {"", "passed", "failed"}, timer : BOOLEAN]

TypeOK ==
    /\ run \in [RunIds -> RunRows] /\ call \in [RunIds -> CallRows]
    /\ node \in [Apps -> {"live", "deleted"}]
    /\ entry \in [Entries -> {"live", "refusing", "removed"}]
    /\ hook \subseteq RunIds /\ ending \in [RunIds -> Results \cup {""}]
    /\ lost \subseteq RunIds

Init ==
    /\ run = [r \in RunIds |-> NoRun]
    /\ call = [r \in RunIds |-> NoCall]
    /\ node = [a \in Apps |-> "live"]
    /\ entry = [e \in Entries |-> "live"]
    /\ hook = {} /\ ending = [r \in RunIds |-> ""] /\ lost = {}

-----------------------------------------------------------------------------
AppOf(r)    == run[r].entry.app
IsRoot(r)   == run[r].parent = NoParent
CallsOf(r)  == {c \in RunIds : run[c].state # "none" /\ run[c].parent = r}
Waits(c)    == call[c].state = "started"

(* The row of the run is not locked by a transaction that ends it. *)
Free(r)     == ending[r] = ""

(* Identifiers of called runs are given out in order. *)
IsFresh(c) ==
    /\ c \in CalledRuns /\ run[c].state = "none"
    /\ \A q \in CalledRuns : run[q].state = "none" => c <= q

(* FindOpenWork. *)
HasOpenWork(r) ==
    \/ run[r].work = "open"
    \/ \E c \in CallsOf(r) : Waits(c) \/ call[c].state = "cancelling"

(* CalculateResult: what a run with such a state may have come to. *)
PossibleResults(r) ==
    IF run[r].state = "cancelling" THEN {"cancelled"} ELSE Results

(***************************************************************************)
(* DrainForCancellation and MarkAsCancelling of run r: the calls it waits  *)
(* for are to be cancelled.                                                *)
(***************************************************************************)
Drained(r) ==
    [c \in RunIds |-> IF c \in CallsOf(r) /\ Waits(c)
                      THEN [call[c] EXCEPT !.state = "cancelling"] ELSE call[c]]
Cancelling(r) == [run EXCEPT ![r].state = "cancelling"]

-----------------------------------------------------------------------------
(* Creating runs. *)

(* An event of a trigger starts a run. *)
StartRoot(r) ==
    /\ r \in DOMAIN RootEntry /\ run[r].state = "none"
    /\ entry[RootEntry[r]] # "removed"
    /\ run' = [run EXCEPT ![r] = [NoRun EXCEPT !.state = "started", !.work = "open",
                                               !.entry = RootEntry[r]]]
    /\ UNCHANGED <<call, appVars, saveVars>>

(* collectRunAncestors: run p and its ancestors.  Parents never change. *)
Chain(p) == run[p].up \cup {p}

(* entrypointInRuns. *)
EntrypointCycle(p, e) == \E a \in Chain(p) : run[a].entry = e

(* workflowCycleInAncestors: the parent itself is not compared. *)
WorkflowCycle(p, e) ==
    /\ AppOf(p) # e.app
    /\ \E a \in run[p].up : AppOf(a) = e.app

(* crossWorkflowDepthForSubRun. *)
Crossings(r) ==
    {a \in Chain(r) : ~IsRoot(a) /\ AppOf(run[a].parent) # AppOf(a)}

CrossWorkflowDepth(p, e) ==
    Cardinality(Crossings(p)) + (IF AppOf(p) # e.app THEN 1 ELSE 0)

(* Mutant of ValidateSubRunCreation: only the parent's entry is compared. *)
ValidateAgainstParent(p, e) ==
    /\ run[p].entry # e
    /\ CrossWorkflowDepth(p, e) < MaxDepth

(* ValidateSubRunCreation. *)
ValidateSubRunCreation(p, e) ==
    /\ ~EntrypointCycle(p, e)
    /\ ~WorkflowCycle(p, e)
    /\ CrossWorkflowDepth(p, e) < MaxDepth

(* A runApp execution of run p executes: Runs.Create looks up the entry. *)
Executes(p) ==
    run[p].state = "started" /\ run[p].work = "open" /\ node[AppOf(p)] = "live"
CanCreate(p, e) == entry[e] # "removed" /\ ValidateSubRunCreation(p, e)

(* It creates a pending run and its timeout.  One that is refused only fails. *)
CreateRun(p, c, e) ==
    /\ Executes(p) /\ CanCreate(p, e) /\ IsFresh(c)
    /\ run' = [run EXCEPT ![c] = [NoRun EXCEPT !.state = "pending", !.entry = e,
                                               !.parent = p, !.up = Chain(p)]]
    /\ call' = [call EXCEPT ![c] = [NoCall EXCEPT !.state = "started", !.timer = TRUE]]
    /\ UNCHANGED <<appVars, saveVars>>

-----------------------------------------------------------------------------
(* The end of a run and its callback on the parent. *)

(* resolveParent finds no deleted node; its error undoes the end of the run. *)
ParentResolves(r) == ~IsRoot(r) => node[AppOf(run[r].parent)] = "live"

(* Mutants of ChannelOf: only a failed run is told as failed ... *)
ChannelOfFailed(result) == IF result = "failed" THEN "failed" ELSE "passed"

(* ... or the channel is named after the result. *)
ChannelOfResult(result) == result

(* The channel a result is told on. *)
ChannelOf(result) == IF result = "passed" THEN "passed" ELSE "failed"

(***************************************************************************)
(* The end of a run: it is finished, and DispatchFinished reads its call.  *)
(* A call that is being cancelled is not told.                             *)
(***************************************************************************)
EndsWith(r, result) ==
    /\ Free(r) /\ ParentResolves(r)
    /\ IF Waits(r)
       THEN ending' = [ending EXCEPT ![r] = result] /\ UNCHANGED run
       ELSE /\ run' = [run EXCEPT ![r].state = "finished", ![r].result = result]
            /\ UNCHANGED ending
    /\ UNCHANGED <<call, appVars, hook, lost>>

(* The run whose call is told the end of r: its output goes on in it. *)
Resumed(r) == IF Waits(r) THEN {run[r].parent} ELSE {}

(***************************************************************************)
(* handleRunFinished: a call that still waits emits on the channel of the  *)
(* result, and that event is open work of the parent.  If it has been      *)
(* cancelled since it was read, the dispatcher saves it as it was read.    *)
(***************************************************************************)
FinishWith(r) ==
    /\ ~Free(r)
    /\ run' = [q \in RunIds |->
                 IF q = r THEN [run[q] EXCEPT !.state = "finished", !.result = ending[r]]
                 ELSE IF q \in Resumed(r) THEN [run[q] EXCEPT !.work = "open"]
                 ELSE run[q]]
    /\ IF Waits(r)
       THEN /\ call' = [call EXCEPT ![r] = [NoCall EXCEPT !.state = "finished",
                                                          !.channel = ChannelOf(ending[r])]]
            /\ lost' = lost \ {r}
       ELSE /\ call' = [call EXCEPT ![r].state = "started"]
            /\ lost' = lost \cup {r}
    /\ ending' = [ending EXCEPT ![r] = ""]
    /\ UNCHANGED <<appVars, hook>>

(* Mutant of InitializeRun: a run cancelled before it started is started. *)
InitializeAnyRun(r) ==
    /\ Free(r) /\ run[r].state \in {"pending", "cancelling"} /\ entry[run[r].entry] = "live"
    /\ run' = [run EXCEPT ![r].state = "started", ![r].work = "open"]
    /\ UNCHANGED <<call, appVars, saveVars>>

(* RunInitializer: the pending callback emits at the entry ... *)
InitializeRun(r) ==
    /\ Free(r) /\ run[r].state = "pending" /\ entry[run[r].entry] = "live"
    /\ run' = [run EXCEPT ![r].state = "started", ![r].work = "open"]
    /\ UNCHANGED <<call, appVars, saveVars>>

(* Mutant of FailRun: the parent is not told. *)
FailRunSilently(r) ==
    /\ Free(r) /\ run[r].state = "pending" /\ entry[run[r].entry] # "live"
    /\ run' = [run EXCEPT ![r].state = "finished", ![r].result = "failed"]
    /\ UNCHANGED <<call, appVars, saveVars>>

(* ... or finds no entry, or one whose hook refuses the parameters, and the run fails. *)
FailRun(r) ==
    /\ run[r].state = "pending" /\ entry[run[r].entry] # "live"
    /\ EndsWith(r, "failed")

(* The other nodes of a run have finished; while it is cancelled, by the terminator. *)
FinishWork(r) ==
    /\ run[r].work = "open" /\ run[r].state \in Unfinished
    /\ run' = [run EXCEPT ![r].work = "done"]
    /\ UNCHANGED <<call, appVars, saveVars>>

(* RunFinalizer. *)
FinalizeRun(r) ==
    /\ run[r].state \in {"started", "cancelling"} /\ ~HasOpenWork(r)
    /\ \E result \in PossibleResults(r) : EndsWith(r, result)

-----------------------------------------------------------------------------
(* Cancellation. *)

(* The CancelRun API. *)
CancelRun(r) ==
    /\ r \in Cancellable /\ Free(r) /\ run[r].state \in Unfinished
    /\ run' = Cancelling(r) /\ call' = Drained(r)
    /\ UNCHANGED <<appVars, saveVars>>

(* The sweep of cancelling runs drains without locking the run. *)
DrainAgain(r) ==
    /\ run[r].state = "cancelling" /\ \E c \in CallsOf(r) : Waits(c)
    /\ call' = Drained(r)
    /\ UNCHANGED <<run, appVars, saveVars>>

(* The CancelExecution API. *)
CancelCall(c) ==
    /\ c \in Cancellable /\ Waits(c)
    /\ call' = [call EXCEPT ![c].state = "cancelling"]
    /\ UNCHANGED <<run, appVars, saveVars>>

(* RunExecutionContext.Cancel: the child is cancelled unless it has finished. *)
ChildCancelled(c) == IF run[c].state \in Unfinished THEN Cancelling(c) ELSE run
ChildDrained(c)   == IF run[c].state \in Unfinished THEN Drained(c) ELSE call

(* Mutant of Terminate: a runApp without a Cancel of its own. *)
TerminateCallOnly(c) ==
    /\ call[c].state = "cancelling" /\ Free(c)
    /\ call' = [call EXCEPT ![c].state = "finished", ![c].timer = FALSE]
    /\ lost' = lost \ {c}
    /\ UNCHANGED <<run, appVars, hook, ending>>

(* ExecutionTerminator: RunApp.Cancel, then the call is finished; the node may be deleted. *)
Terminate(c) ==
    /\ call[c].state = "cancelling" /\ Free(c)
    /\ run' = ChildCancelled(c)
    /\ call' = [ChildDrained(c) EXCEPT ![c].state = "finished", ![c].timer = FALSE]
    /\ lost' = lost \ {c}
    /\ UNCHANGED <<appVars, hook, ending>>

(***************************************************************************)
(* The request for the timeout is locked and the call read.  If it is      *)
(* being cancelled the request is completed, without effect.               *)
(***************************************************************************)
ReadForTimeout(c) ==
    /\ call[c].timer
    /\ call' = [call EXCEPT ![c].timer = FALSE]
    /\ hook' = IF Waits(c) THEN hook \cup {c} ELSE hook
    /\ UNCHANGED <<run, appVars, ending, lost>>

(* Mutants of Timeout: the child is cancelled only if it has started ... *)
TimeoutStarted(c) ==
    /\ c \in hook /\ Free(c)
    /\ run' = IF run[c].state = "started" THEN ChildCancelled(c) ELSE run
    /\ call' = IF call[c].state = "finished" THEN ChildDrained(c)
               ELSE [ChildDrained(c) EXCEPT ![c].state = "started"]
    /\ hook' = hook \ {c}
    /\ lost' = IF call[c].state = "cancelling" THEN lost \cup {c} ELSE lost
    /\ UNCHANGED <<appVars, ending>>

(* ... or the call is saved without asking whether it is finished. *)
TimeoutSavesAnyway(c) ==
    /\ c \in hook /\ Free(c)
    /\ run' = ChildCancelled(c)
    /\ call' = [ChildDrained(c) EXCEPT ![c].state = "started"]
    /\ hook' = hook \ {c}
    /\ lost' = IF call[c].state = "cancelling" THEN lost \cup {c} ELSE lost
    /\ UNCHANGED <<appVars, ending>>

(***************************************************************************)
(* handleRunTimeout cancels the child, and the request worker saves the    *)
(* call as it was read unless it is finished.  The child stays locked      *)
(* until then, so neither its end nor the terminator comes in between.     *)
(***************************************************************************)
Timeout(c) ==
    /\ c \in hook /\ Free(c)
    /\ run' = ChildCancelled(c)
    /\ call' = IF call[c].state = "finished" THEN ChildDrained(c)
               ELSE [ChildDrained(c) EXCEPT ![c].state = "started"]
    /\ hook' = hook \ {c}
    /\ lost' = IF call[c].state = "cancelling" THEN lost \cup {c} ELSE lost
    /\ UNCHANGED <<appVars, ending>>

-----------------------------------------------------------------------------
(* Editing the apps. *)

(***************************************************************************)
(* A publish deletes the runApp node of app a, cancels its executions and  *)
(* completes their requests, for which it waits for the hooks under way.   *)
(***************************************************************************)
DeleteNode(a) ==
    /\ a \in Deletable /\ node[a] = "live"
    /\ \A c \in hook : AppOf(run[c].parent) # a
    /\ node' = [node EXCEPT ![a] = "deleted"]
    /\ call' = [c \in RunIds |->
                  IF call[c].state # "none" /\ AppOf(run[c].parent) = a
                  THEN [call[c] EXCEPT !.state = IF Waits(c) THEN "cancelling" ELSE @,
                                       !.timer = FALSE]
                  ELSE call[c]]
    /\ UNCHANGED <<run, entry, saveVars>>

(***************************************************************************)
(* A publish changes the parameters an entry takes, or removes the entry   *)
(* for good: a node added later gets an identifier never used before.      *)
(***************************************************************************)
EditEntry(e) ==
    /\ e \in Removable /\ entry[e] # "removed"
    /\ \E to \in {"live", "refusing", "removed"} \ {entry[e]} :
          entry' = [entry EXCEPT ![e] = to]
    /\ UNCHANGED <<run, call, node, saveVars>>

-----------------------------------------------------------------------------
Next ==
    \/ \E p, c \in RunIds, e \in Entries : CreateRun(p, c, e)
    \/ \E r \in RunIds :
         \/ StartRoot(r) \/ InitializeRun(r) \/ FailRun(r) \/ FinalizeRun(r) \/ FinishWith(r)
         \/ FinishWork(r) \/ CancelRun(r) \/ DrainAgain(r)
    \/ \E c \in RunIds : CancelCall(c) \/ Terminate(c) \/ ReadForTimeout(c) \/ Timeout(c)
    \/ \E a \in Apps : DeleteNode(a)
    \/ \E e \in Entries : EditEntry(e)

Spec == Init /\ [][Next]_vars

(***************************************************************************)
(* The workers poll.  The work of a run ends when the run is cancelled;    *)
(* nothing else makes it end.                                              *)
(***************************************************************************)
WorkerFairness ==
    /\ \A r \in RunIds :
          WF_vars(\/ InitializeRun(r) \/ FailRun(r) \/ FinalizeRun(r) \/ FinishWith(r)
                  \/ DrainAgain(r) \/ (run[r].state = "cancelling" /\ FinishWork(r)))
    /\ \A c \in CalledRuns : WF_vars(Terminate(c) \/ ReadForTimeout(c) \/ Timeout(c))

FairSpec == Spec /\ WorkerFairness

-----------------------------------------------------------------------------
(* Properties. *)

(***************************************************************************)
(* A call that waits has something to wait for: its run has not finished,  *)
(* and its own run is not being cancelled.  So no call hangs on a callback *)
(* that has come and gone, whatever ended the child.  If a save undid the  *)
(* call's cancellation, its run is at least not going on                   *)
(* (dispatchFinishedCallbackOnParent, invokeExecutionComponentHook).       *)
(***************************************************************************)
NoMissedCallback ==
    \A c \in RunIds : Waits(c) =>
        IF c \in lost
        THEN run[c].state \in {"cancelling", "finished"}
        ELSE run[c].state \in Unfinished /\ run[run[c].parent].state = "started"

(* A call's channel tells how its run ended, and only a run that has ended is told. *)
CallReportsRun ==
    \A c \in RunIds : call[c].channel # "" =>
        /\ run[c].state = "finished"
        /\ call[c].channel = "passed" <=> run[c].result = "passed"

(***************************************************************************)
(* No run is left behind: when a run has finished, the runs it called have *)
(* finished or are being cancelled.                                        *)
(***************************************************************************)
NoRunLeftBehind ==
    \A r \in RunIds : run[r].state = "finished" =>
        \A c \in CallsOf(r) : run[c].state \in {"cancelling", "finished"}

(***************************************************************************)
(* Calls do not go round in circles: along a chain of calls no entry comes *)
(* twice, an app that was left is not entered again, and the apps change   *)
(* fewer than MaxDepth times.  Entries are finite, so chains are too.      *)
(***************************************************************************)
ChainsEnd ==
    \A r \in RunIds :
        /\ \A a \in run[r].up :
              /\ run[a].entry # run[r].entry
              /\ AppOf(a) = AppOf(r) =>
                    \A b \in run[r].up : a \in run[b].up => AppOf(b) = AppOf(r)
        /\ ~IsRoot(r) => Cardinality(Crossings(r)) < MaxDepth

(***************************************************************************)
(* Seen from outside, a run of the tree lives as the run engine promises:  *)
(* it is finished when neither its own work nor a call is open, by its     *)
(* callbacks or by a failed start too, and no callback that comes later    *)
(* gives it work again (RunLifecycle).                                     *)
(***************************************************************************)
Lifecycle == INSTANCE RunLifecycle WITH
    state  <- [r \in RunIds |-> run[r].state],
    result <- [r \in RunIds |-> IF run[r].result = "" THEN "none" ELSE run[r].result],
    busy   <- [r \in RunIds |-> HasOpenWork(r)]

ImplementsLifecycle == Lifecycle!LifecycleSpec

(***************************************************************************)
(* Every call ends, even one whose run would go on for ever: the timeout   *)
(* cancels the run, down to the runs it called in turn.  A call whose      *)
(* cancellation the timeout's own hook undid ends as well; the exception   *)
(* is one that was cancelled and saved back while its run was ending,      *)
(* which has no callback to come.                                          *)
(***************************************************************************)
CallsEnd ==
    \A c \in CalledRuns :
        Waits(c) ~> (call[c].state = "finished" \/ (c \in lost /\ run[c].state = "finished"))

(***************************************************************************)
(* A cancelled run finishes, with the whole tree below it, unless the node *)
(* that called it has been deleted: the callback does not find the node,   *)
(* and the run stays cancelling.                                           *)
(***************************************************************************)
CancelledRunsFinish ==
    \A r \in RunIds :
        run[r].state = "cancelling" ~> (run[r].state = "finished" \/ ~ParentResolves(r))
=============================================================================
