---------------------------- MODULE SelfManaged ----------------------------
(***************************************************************************)
(* A merge or a loop node.  Their queue items are not gated on capacity:   *)
(* the component keeps one execution per run open, its session, and        *)
(* decides in ProcessQueueItem what an item means for it.                  *)
(*                                                                         *)
(* The queue worker holds the lock of the node, so its passes do not       *)
(* overlap, but hooks run beside them and nobody locks the session before  *)
(* reading it.  A pass and a hook therefore read in one step and write in  *)
(* another.  Whoever has written the session's metadata holds its row, and *)
(* what it reads of the state after that is what it overwrites.            *)
(***************************************************************************)
EXTENDS Integers, FiniteSets, Sequences, Queues

CONSTANTS
    Kinds,          \* the components the node may have
    Runs,
    Sources,        \* the nodes with an edge to the merge
    Removable,      \* the sources whose edge may be removed
    Cancellable,    \* the runs that people cancel, or the sessions of
    MaxArrivals,    \* per run: bound on the inputs of a merge
    Returns,        \* how many items a round of the loop's body may bring back
    MaxSessions,    \* the loop's concurrency
    MaxIterations   \* the loop's iteration limit

ASSUME SelfManagedAssumption ==
    /\ Kinds \subseteq {"merge", "loop"}
    /\ IsFiniteSet(Runs) /\ Cancellable \subseteq Runs
    /\ Removable \subseteq Sources /\ "body" \notin Sources
    /\ MaxArrivals \in [Runs -> Nat] /\ Returns \in Nat
    /\ MaxSessions \in Nat \ {0} /\ MaxIterations \in Nat \ {0}

VARIABLES
    kind,       \* the node's component
    edges,      \* the sources the merge has now
    timed,      \* has the node a timeout: a loop always has
    run,        \* per run: started or cancelling
    queue,      \* the node's items, oldest first
    pass,       \* the item the queue worker is at, and what it has read
    session,    \* per run: the open execution and its metadata
    timer,      \* per run: is the request for the timeout pending
    waiting,    \* per run: pending requests for the next iteration
    hook,       \* per hook and run: the row the running hook has read
    out,        \* per run: what ended the session, in order
    rounds,     \* per run: how often the loop has sent its body off
    arrivals,   \* per run: items that came
    delivered,  \* per run: the sources whose input came
    lost        \* the runs whose session had a cancellation undone by a save

vars == <<kind, edges, timed, run, queue, pass, session, timer, waiting, hook, out,
          rounds, arrivals, delivered, lost>>

nodeVars  == <<kind, edges, timed>>
queueVars == <<queue, pass>>
askVars   == <<timer, waiting>>
histVars  == <<arrivals, delivered>>

-----------------------------------------------------------------------------
(* Types and the initial state. *)

OpenStates == {"pending", "started"}
Active     == OpenStates \cup {"cancelling"}
Outcomes   == {"success", "stopped", "error", "done", "timeout"}
Hooks      == {"timeout", "next"}

NoSession == [state |-> "none", need |-> {}, got |-> {}, stopped |-> FALSE, iteration |-> 0]
NoRead    == NoSession
NoPass    == [on |-> FALSE]

Sessions == [state : Active \cup {"none", "finished"}, need : SUBSET Sources,
             got : SUBSET Sources, stopped : BOOLEAN, iteration : 0 .. MaxIterations]
Items    == [run : Runs, source : Sources \cup {"body"}]
Passes   == [on : {TRUE}, item : Items, seen : Sessions, live : BOOLEAN]

TypeOK ==
    /\ kind \in Kinds /\ edges \subseteq Sources /\ timed \in BOOLEAN
    /\ run \in [Runs -> {"started", "cancelling"}]
    /\ queue \in Seq(Items)
    /\ pass \in Passes \cup {NoPass}
    /\ session \in [Runs -> Sessions]
    /\ timer \in [Runs -> BOOLEAN] /\ waiting \in [Runs -> Nat]
    /\ hook \in [Hooks -> [Runs -> Sessions]]
    /\ out \in [Runs -> Seq(Outcomes)]
    /\ rounds \in [Runs -> Nat] /\ arrivals \in [Runs -> Nat]
    /\ delivered \in [Runs -> SUBSET Sources]
    /\ lost \subseteq Runs

Init ==
    /\ kind \in Kinds /\ edges = Sources
    /\ timed \in BOOLEAN /\ (kind = "loop" => timed)
    /\ run = [r \in Runs |-> "started"]
    /\ queue = <<>> /\ pass = NoPass
    /\ session = [r \in Runs |-> NoSession]
    /\ timer = [r \in Runs |-> FALSE] /\ waiting = [r \in Runs |-> 0]
    /\ hook = [h \in Hooks |-> [r \in Runs |-> NoRead]]
    /\ out = [r \in Runs |-> <<>>]
    /\ rounds = [r \in Runs |-> 0] /\ arrivals = [r \in Runs |-> 0]
    /\ delivered = [r \in Runs |-> {}]
    /\ lost = {}

-----------------------------------------------------------------------------
(* What comes from outside. *)

(* The router queues an input.  It may have read the run before it was cancelled. *)
ArriveAtMerge(r, s) ==
    /\ kind = "merge" /\ s \in edges
    /\ arrivals[r] < MaxArrivals[r]
    /\ queue' = Append(queue, [run |-> r, source |-> s])
    /\ arrivals' = [arrivals EXCEPT ![r] = @ + 1]
    /\ delivered' = [delivered EXCEPT ![r] = @ \cup {s}]
    /\ UNCHANGED <<nodeVars, run, pass, session, askVars, hook, out, rounds, lost>>

(* The start of a loop, then what the rounds of its body bring back. *)
ArriveAtLoop(r) ==
    /\ kind = "loop" /\ arrivals[r] <= Returns * rounds[r]
    /\ queue' = Append(queue, [run |-> r, source |-> "body"])
    /\ arrivals' = [arrivals EXCEPT ![r] = @ + 1]
    /\ UNCHANGED <<nodeVars, run, pass, session, askVars, hook, out, rounds, delivered, lost>>

(* A publish removes an edge of the merge. *)
RemoveEdge(s) ==
    /\ kind = "merge" /\ s \in edges \cap Removable
    /\ edges' = edges \ {s}
    /\ UNCHANGED <<kind, timed, run, queueVars, session, askVars, hook, out, rounds, histVars, lost>>

-----------------------------------------------------------------------------
(* Writes to a session. *)

(* Metadata.Set: the state stays what it is in the row. *)
Written(r, md) ==
    [session EXCEPT ![r] = [md EXCEPT !.state =
        IF session[r].state = "none" THEN "pending" ELSE session[r].state]]

KeepOpen(r, md) ==
    /\ session' = Written(r, md)
    /\ UNCHANGED <<askVars, out>>

(* Mutant of Finish: the state is not read again. *)
FinishAnyway(r, md, outcome) ==
    /\ session' = [session EXCEPT ![r] = [md EXCEPT !.state = "finished"]]
    /\ out' = [out EXCEPT ![r] = Append(@, outcome)]
    /\ timer' = [timer EXCEPT ![r] = FALSE] /\ waiting' = [waiting EXCEPT ![r] = 0]

(***************************************************************************)
(* Metadata.Set, then PassInTransaction or FailInTransaction, which does   *)
(* nothing when the session is finished or cancelling by now and completes *)
(* the pending requests.                                                   *)
(***************************************************************************)
Finish(r, md, outcome) ==
    IF session[r].state \in {"finished", "cancelling"}
    THEN KeepOpen(r, md)
    ELSE /\ session' = [session EXCEPT ![r] = [md EXCEPT !.state = "finished"]]
         /\ out' = [out EXCEPT ![r] = Append(@, outcome)]
         /\ timer' = [timer EXCEPT ![r] = FALSE] /\ waiting' = [waiting EXCEPT ![r] = 0]

-----------------------------------------------------------------------------
(***************************************************************************)
(* A pass of the queue worker, item by item.  Passes over a backlog are    *)
(* sequences of these steps; a deferred item goes to the back.             *)
(***************************************************************************)
ReadItem ==
    /\ pass = NoPass /\ queue # <<>>
    /\ pass' = [on |-> TRUE, item |-> Head(queue), seen |-> session[Head(queue).run],
                live |-> run[Head(queue).run] = "started"]
    /\ UNCHANGED <<nodeVars, run, queue, session, askVars, hook, out, rounds, histVars, lost>>

(* A cancellation may have deleted the item since. *)
StillQueued == queue # <<>> /\ Head(queue) = pass.item
Dequeued    == IF StillQueued THEN Tail(queue) ELSE queue

(* Items of cancelling runs are dropped, late inputs of a finished session ignored. *)
SkipItem ==
    /\ pass.on /\ (~pass.live \/ pass.seen.state = "finished")
    /\ queue' = Dequeued /\ pass' = NoPass
    /\ UNCHANGED <<nodeVars, run, session, askVars, hook, out, rounds, histVars, lost>>

Takes(k) == kind = k /\ pass.on /\ pass.live /\ pass.seen.state # "finished"

(* findOrCreateExecution, with the sources the merge has at that time. *)
FoundOrCreated ==
    IF pass.seen.state = "none" THEN [NoSession EXCEPT !.need = edges] ELSE pass.seen

(* Mutant of UpdateSource: only the last input is remembered. *)
UpdateLastSource(md, s) == [md EXCEPT !.got = {s} \cap md.need]

UpdateSource(md, s) == [md EXCEPT !.got = @ \cup ({s} \cap md.need)]

HasReceivedAll(md) == md.need \subseteq md.got

(* Merge.ProcessQueueItem: the stop expression may be true, false or fail. *)
MergeItem ==
    /\ Takes("merge")
    /\ LET r  == pass.item.run
           md == UpdateSource(FoundOrCreated, pass.item.source)
       IN  \/ md.stopped /\ KeepOpen(r, md)
           \/ /\ ~md.stopped
              /\ \E o \in {"stopped", "error"} : Finish(r, [md EXCEPT !.stopped = TRUE], o)
           \/ ~md.stopped /\ HasReceivedAll(md) /\ Finish(r, md, "success")
           \/ ~md.stopped /\ ~HasReceivedAll(md) /\ KeepOpen(r, md)
    /\ queue' = Dequeued /\ pass' = NoPass
    /\ UNCHANGED <<nodeVars, run, hook, rounds, histVars, lost>>

(* Mutants of SessionsAtLimit: cancelling sessions are not counted ... *)
OpenSessionsAtLimit == Cardinality({r \in Runs : session[r].state \in OpenStates}) >= MaxSessions

(* ... and finished ones are. *)
AllSessionsAtLimit == Cardinality({r \in Runs : session[r].state # "none"}) >= MaxSessions

SessionsAtLimit == Cardinality({r \in Runs : session[r].state \in Active}) >= MaxSessions

DeferItem ==
    /\ Takes("loop") /\ pass.seen.state = "none" /\ SessionsAtLimit
    /\ queue' = IF StillQueued THEN Append(Tail(queue), pass.item) ELSE queue
    /\ pass' = NoPass
    /\ UNCHANGED <<nodeVars, run, session, askVars, hook, out, rounds, histVars, lost>>

(* The first round is sent off at once, which starts the session. *)
StartLoop ==
    /\ Takes("loop") /\ pass.seen.state = "none" /\ ~SessionsAtLimit
    /\ LET r == pass.item.run IN
        /\ session' = [session EXCEPT ![r] = [NoSession EXCEPT !.state = "started", !.iteration = 1]]
        /\ timer' = [timer EXCEPT ![r] = TRUE]
        /\ rounds' = [rounds EXCEPT ![r] = @ + 1]
    /\ queue' = Dequeued /\ pass' = NoPass
    /\ UNCHANGED <<nodeVars, run, waiting, hook, out, histVars, lost>>

(* Mutant of IsLastIteration: one round too many. *)
IsPastLastIteration(md) == md.iteration > MaxIterations

IsLastIteration(md) == md.iteration >= MaxIterations

(* emitNextIteration: at once, or by a request for later (EmitAndContinue checks no state). *)
EmitNextIteration(r) ==
    \/ rounds' = [rounds EXCEPT ![r] = @ + 1] /\ UNCHANGED waiting
    \/ /\ waiting' = [waiting EXCEPT ![r] = IF session[r].state = "finished" THEN @ ELSE @ + 1]
       /\ UNCHANGED rounds

(* handleFeedback: the until expression may be true, false or fail. *)
HandleFeedback ==
    /\ Takes("loop") /\ pass.seen.state # "none"
    /\ LET r  == pass.item.run
           md == pass.seen
       IN  \/ \E o \in {"done", "error"} : Finish(r, md, o) /\ UNCHANGED rounds
           \/ IsLastIteration(md) /\ Finish(r, md, "done") /\ UNCHANGED rounds
           \/ /\ ~IsLastIteration(md)
              /\ session' = Written(r, [md EXCEPT !.iteration = @ + 1])
              /\ EmitNextIteration(r)
              /\ UNCHANGED <<timer, out>>
    /\ queue' = Dequeued /\ pass' = NoPass
    /\ UNCHANGED <<nodeVars, run, hook, histVars, lost>>

-----------------------------------------------------------------------------
(* The executor, and the hooks the request worker invokes. *)

(* Mutant of StartSession: the timeout is not armed. *)
StartWithoutTimeout(r) ==
    /\ session[r].state = "pending"
    /\ session' = [session EXCEPT ![r].state = "started"]
    /\ UNCHANGED <<nodeVars, run, queueVars, askVars, hook, out, rounds, histVars, lost>>

(* The executor picks up a pending merge; its Execute arms the timeout, if one is configured. *)
StartSession(r) ==
    /\ session[r].state = "pending"
    /\ session' = [session EXCEPT ![r].state = "started"]
    /\ timer' = [timer EXCEPT ![r] = timed]
    /\ UNCHANGED <<nodeVars, run, queueVars, waiting, hook, out, rounds, histVars, lost>>

Due(h, r) == IF h = "timeout" THEN timer[r] ELSE waiting[r] > 0

(* A request is locked and its execution read.  Requests of cancelled sessions just complete. *)
ReadForHook(h, r) ==
    /\ Due(h, r) /\ hook[h][r] = NoRead
    /\ hook' = IF session[r].state \in OpenStates
               THEN [hook EXCEPT ![h][r] = session[r]] ELSE hook
    /\ timer' = IF h = "timeout" THEN [timer EXCEPT ![r] = FALSE] ELSE timer
    /\ waiting' = IF h = "next" THEN [waiting EXCEPT ![r] = @ - 1] ELSE waiting
    /\ UNCHANGED <<nodeVars, run, queueVars, session, out, rounds, histVars, lost>>

HookDone(h, r) == hook' = [hook EXCEPT ![h][r] = NoRead]

(* What remains of a cancellation when the request worker saves the row its hook was given. *)
SaveRead(h, r) ==
    /\ session' = [session EXCEPT ![r] = hook[h][r]]
    /\ lost' = IF session[r].state \in OpenStates THEN lost ELSE lost \cup {r}

(* A session that only the terminator has ended. *)
IsCancelled(r) ==
    session[r].state = "cancelling" \/ (session[r].state = "finished" /\ out[r] = <<>>)

(***************************************************************************)
(* Merge.HandleTimeout.  Emit reads the state and then writes it whatever  *)
(* it has become; when it reads that the session is finished it does       *)
(* nothing, when it reads that it is cancelling the row is saved.          *)
(***************************************************************************)
MergeTimeout(r) ==
    /\ kind = "merge" /\ hook["timeout"][r] # NoRead
    /\ \/ /\ session' = [session EXCEPT ![r].state = "finished"]
          /\ out' = [out EXCEPT ![r] = Append(@, "timeout")]
          /\ timer' = [timer EXCEPT ![r] = FALSE]
          /\ UNCHANGED lost
       \/ session[r].state = "finished" /\ UNCHANGED <<session, out, timer, lost>>
       \/ IsCancelled(r) /\ SaveRead("timeout", r) /\ UNCHANGED <<out, timer>>
    /\ HookDone("timeout", r)
    /\ UNCHANGED <<nodeVars, run, queueVars, waiting, rounds, histVars>>

(* Loop.handleTimeout writes the metadata before it fails the session. *)
LoopTimeout(r) ==
    /\ kind = "loop" /\ hook["timeout"][r] # NoRead
    /\ IF session[r].state = "cancelling"
       THEN SaveRead("timeout", r) /\ UNCHANGED <<out, askVars>>
       ELSE Finish(r, hook["timeout"][r], "timeout") /\ UNCHANGED lost
    /\ HookDone("timeout", r)
    /\ UNCHANGED <<nodeVars, run, queueVars, rounds, histVars>>

(* Mutant of NextIteration: the hook is retried after it has sent the round. *)
NextIterationAgain(r) ==
    /\ hook["next"][r] # NoRead
    /\ rounds' = [rounds EXCEPT ![r] = @ + 1]
    /\ waiting' = [waiting EXCEPT ![r] = 1]
    /\ HookDone("next", r)
    /\ UNCHANGED <<nodeVars, run, queueVars, session, timer, out, histVars, lost>>

(* Loop.handleNextIteration; a session that is not finished is saved as it was read. *)
NextIteration(r) ==
    /\ hook["next"][r] # NoRead
    /\ rounds' = [rounds EXCEPT ![r] = @ + 1]
    /\ IF session[r].state = "finished"
       THEN session' = Written(r, hook["next"][r]) /\ UNCHANGED lost
       ELSE SaveRead("next", r)
    /\ HookDone("next", r)
    /\ UNCHANGED <<nodeVars, run, queueVars, askVars, out, histVars>>

-----------------------------------------------------------------------------
(* Cancellation. *)

(* The CancelExecution API. *)
CancelSession(r) ==
    /\ r \in Cancellable /\ session[r].state \in OpenStates
    /\ session' = [session EXCEPT ![r].state = "cancelling"]
    /\ UNCHANGED <<nodeVars, run, queueVars, askVars, hook, out, rounds, histVars, lost>>

(* DrainForCancellation. *)
Drain(r) ==
    /\ queue' = Without(queue, {i \in Items : i.run = r})
    /\ session' = IF session[r].state \in OpenStates
                  THEN [session EXCEPT ![r].state = "cancelling"] ELSE session
    /\ UNCHANGED <<nodeVars, pass, askVars, hook, out, rounds, histVars, lost>>

CancelRun(r) ==
    /\ r \in Cancellable /\ run[r] = "started"
    /\ run' = [run EXCEPT ![r] = "cancelling"]
    /\ Drain(r)

(* The finalizer's sweep. *)
DrainAgain(r) ==
    /\ run[r] = "cancelling"
    /\ Drain(r)
    /\ UNCHANGED run

(* The terminator. *)
Terminate(r) ==
    /\ session[r].state = "cancelling"
    /\ session' = [session EXCEPT ![r].state = "finished"]
    /\ timer' = [timer EXCEPT ![r] = FALSE] /\ waiting' = [waiting EXCEPT ![r] = 0]
    /\ UNCHANGED <<nodeVars, run, queueVars, hook, out, rounds, histVars, lost>>

-----------------------------------------------------------------------------
ProcessItem == SkipItem \/ MergeItem \/ DeferItem \/ StartLoop \/ HandleFeedback

Next ==
    \/ ReadItem \/ SkipItem \/ MergeItem \/ DeferItem \/ StartLoop \/ HandleFeedback
    \/ \E s \in Sources : RemoveEdge(s)
    \/ \E r \in Runs :
        \/ ArriveAtLoop(r) \/ \E s \in Sources : ArriveAtMerge(r, s)
        \/ StartSession(r) \/ \E h \in Hooks : ReadForHook(h, r)
        \/ MergeTimeout(r) \/ LoopTimeout(r) \/ NextIteration(r)
        \/ CancelSession(r) \/ CancelRun(r) \/ DrainAgain(r) \/ Terminate(r)

Spec == Init /\ [][Next]_vars

(***************************************************************************)
(* Workers poll: the node of a self-managed item is always in the queue    *)
(* worker's poll, requests are polled once due.  Nothing is assumed of the *)
(* nodes before a merge, of a loop's body or of users.                     *)
(***************************************************************************)
Fairness ==
    /\ WF_vars(ReadItem) /\ WF_vars(ProcessItem)
    /\ \A r \in Runs :
        /\ WF_vars(StartSession(r)) /\ \A h \in Hooks : WF_vars(ReadForHook(h, r))
        /\ WF_vars(MergeTimeout(r)) /\ WF_vars(LoopTimeout(r)) /\ WF_vars(NextIteration(r))
        /\ WF_vars(DrainAgain(r)) /\ WF_vars(Terminate(r))

FairSpec == Spec /\ Fairness

-----------------------------------------------------------------------------
(* Properties. *)

(***************************************************************************)
(* The loop never has more sessions than its concurrency allows, although  *)
(* sessions are cancelled, time out and are saved back while a pass counts *)
(* them (sessionsAtLimit).                                                 *)
(***************************************************************************)
SessionsWithinLimit ==
    kind = "loop" =>
        Cardinality({r \in Runs : session[r].state \in Active}) <= MaxSessions

(***************************************************************************)
(* The body is sent off at most as often as the limit says, by passes and  *)
(* delayed hooks together, also when the session ends or is cancelled in   *)
(* between, unless a save that undid a cancellation also brought back an   *)
(* older count (handleFeedback, handleNextIteration).                      *)
(***************************************************************************)
RoundsWithinLimit == \A r \in Runs \ lost : rounds[r] <= MaxIterations

(***************************************************************************)
(* A merge that is still open has recorded every input that came and is    *)
(* not queued any more, and still misses one: no input is lost between the *)
(* queue, the metadata and the hooks (addEventToMetadata, HasReceivedAll). *)
(***************************************************************************)
InputsAreCollected ==
    kind = "merge" =>
        \A r \in Runs \ lost :
            (session[r].state \in OpenStates /\ run[r] = "started") =>
                LET queued == {queue[i].source : i \in {j \in 1 .. Len(queue) : queue[j].run = r}}
                    need   == session[r].need
                IN  /\ session[r].got \cup (queued \cap need) = delivered[r] \cap need
                    /\ ~(need \subseteq session[r].got)

(***************************************************************************)
(* A session ends once.  The one exception: a merge's timeout that is      *)
(* under way when an input decides the merge still emits; nothing follows  *)
(* a timeout, and a loop has no such exception (PassInTransaction,         *)
(* FailInTransaction, HandleTimeout).                                      *)
(***************************************************************************)
DecidedOnce ==
    \A r \in Runs :
        \/ Len(out[r]) <= 1
        \/ kind = "merge" /\ Len(out[r]) = 2 /\ out[r][1] # "timeout" /\ out[r][2] = "timeout"

(***************************************************************************)
(* Every session ends, whatever its inputs or its body do, unless a hook   *)
(* undid its cancellation (handleTimeout, HandleTimeout, Terminate).  A    *)
(* merge without a timeout may stay open, but only for an input that has   *)
(* not come yet and only as long as nobody cancels it or its run.          *)
(***************************************************************************)
Awaits(r) ==
    /\ ~timed /\ session[r].state \in OpenStates /\ run[r] = "started"
    /\ ~(session[r].need \subseteq delivered[r])

SessionsEnd ==
    \A r \in Runs :
        session[r].state \in Active
            ~> (session[r].state = "finished" \/ r \in lost \/ Awaits(r))

(***************************************************************************)
(* A queued item of a run gets its session, deferred or not, unless the    *)
(* run is cancelled: sessions cannot block the node for good               *)
(* (DeferQueueItem, startLoop).                                            *)
(***************************************************************************)
StartsAreServed ==
    \A r \in Runs :
        (\E i \in 1 .. Len(queue) : queue[i].run = r)
            ~> (session[r].state # "none" \/ run[r] = "cancelling" \/ lost # {})
=============================================================================
