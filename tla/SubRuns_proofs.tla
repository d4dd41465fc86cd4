-------------------------- MODULE SubRuns_proofs --------------------------
(***************************************************************************)
(* Proofs that calls between apps neither hang nor go round in circles,    *)
(* for every set of runs, apps and entries and every limit on the depth.   *)
(***************************************************************************)
EXTENDS SubRuns, FiniteSetTheorems, TLAPS

Exists(r) == run[r].state # "none"
IsOpen(c) == Waits(c) \/ call[c].state = "cancelling"

(* The runs form a forest, and only a run that has started calls others. *)
TreeInv ==
    \A r \in RunIds :
        /\ ~Exists(r) => run[r] = NoRun
        /\ IsRoot(r) => run[r].up = {}
        /\ ~IsRoot(r) => run[r].up = Chain(run[r].parent)
        /\ r \notin run[r].up
        /\ \A a \in run[r].up :
              /\ Exists(a) /\ run[a].state # "pending"
              /\ run[a].up \subseteq run[r].up

(* A called run has its call, and outlives it only to be cancelled. *)
CallInv ==
    \A c \in RunIds :
        /\ call[c].state # "none" <=> Exists(c) /\ ~IsRoot(c)
        /\ call[c].state = "finished" => run[c].state \in {"cancelling", "finished"}
        /\ c \in hook \cup lost => call[c].state # "none"

(* A run whose end waits for its callback stays as it was, and its call open. *)
EndInv ==
    \A r \in RunIds : ~Free(r) =>
        /\ run[r].state \in Unfinished /\ IsOpen(r)
        /\ run[r].state = "cancelling" => ending[r] = "cancelled"
        /\ run[r].state = "pending" => ending[r] = "failed"

(* Only started and cancelling runs have open work, until they end, ... *)
IdleInv ==
    \A r \in RunIds :
        run[r].state \in {"none", "pending", "finished"} \/ ~Free(r) => ~HasOpenWork(r)

(* ... and only finished ones a result. *)
ResultAtEnd ==
    \A r \in RunIds : run[r].state # "finished" => run[r].result = ""

CallSide == CallInv /\ NoMissedCallback /\ CallReportsRun /\ NoRunLeftBehind
RunSide  == EndInv /\ IdleInv /\ ResultAtEnd

SubRunsInv == TypeOK /\ TreeInv /\ ChainsEnd /\ CallSide /\ RunSide

(* A step that creates no run: the runs only change their states and work. *)
RunMoves(r) ==
    /\ run'[r].parent = run[r].parent /\ run'[r].up = run[r].up
    /\ run'[r].entry = run[r].entry
    /\ run[r].state = "none" => run'[r] = run[r]
    /\ run[r].state # "none" => run'[r].state # "none"
    /\ run'[r].state = "pending" => run[r].state = "pending"

(* A run that stays in its state. *)
Kept(q) == run'[q].state = run[q].state /\ run'[q].result = run[q].result

(* All runs do, at most their own work ends, and calls start to be cancelled. *)
RunsStay ==
    \A q \in RunIds : /\ RunMoves(q) /\ Kept(q)
                      /\ run'[q].work = "open" => run[q].work = "open"
CallsStay ==
    \A q \in RunIds : /\ call'[q].channel = call[q].channel
                      /\ \/ call'[q].state = call[q].state
                         \/ Waits(q) /\ call'[q].state = "cancelling"
Quiet == RunsStay /\ CallsStay /\ lost' = lost /\ \A c \in hook' : c \in hook \/ Waits(c)

-----------------------------------------------------------------------------
\* Zero names no run.
LEMMA NoParentIsNoRun == NoParent \notin RunIds
  BY SubRunsAssumption

(* A row of a run with fields changed: its type, and what is in it. *)
LEMMA RowUpdates ==
    ASSUME NEW x \in RunRows
    PROVE  /\ [x EXCEPT !.state = "cancelling"] \in RunRows
           /\ [x EXCEPT !.work = "open"] \in RunRows
           /\ [x EXCEPT !.work = "done"] \in RunRows
           /\ [x EXCEPT !.state = "started", !.work = "open"] \in RunRows
           /\ \A f \in Results : [x EXCEPT !.state = "finished", !.result = f] \in RunRows
  BY DEF RunRows, Unfinished

\* Fields that an update leaves alone.
LEMMA RowFields ==
    ASSUME NEW x \in RunRows, NEW f
    PROVE  \A y \in {[x EXCEPT !.state = "cancelling"], [x EXCEPT !.work = "open"],
                     [x EXCEPT !.work = "done"],
                     [x EXCEPT !.state = "started", !.work = "open"],
                     [x EXCEPT !.state = "finished", !.result = f]} :
              y.parent = x.parent /\ y.up = x.up /\ y.entry = x.entry
  BY DEF RunRows

\* What a write of one field leaves of a row.
LEMMA RowStates ==
    ASSUME NEW x \in RunRows, NEW f
    PROVE  /\ [x EXCEPT !.state = "cancelling"].state = "cancelling"
           /\ [x EXCEPT !.state = "cancelling"].result = x.result
           /\ [x EXCEPT !.state = "cancelling"].work = x.work
           /\ [x EXCEPT !.work = "open"].state = x.state
           /\ [x EXCEPT !.work = "open"].result = x.result
           /\ [x EXCEPT !.work = "done"].state = x.state
           /\ [x EXCEPT !.work = "done"].result = x.result
           /\ [x EXCEPT !.work = "done"].work = "done"
           /\ [x EXCEPT !.state = "started", !.work = "open"].state = "started"
           /\ [x EXCEPT !.state = "started", !.work = "open"].work = "open"
           /\ [x EXCEPT !.state = "started", !.work = "open"].result = x.result
           /\ [x EXCEPT !.state = "finished", !.result = f].state = "finished"
           /\ [x EXCEPT !.state = "finished", !.result = f].result = f
           /\ [x EXCEPT !.state = "finished", !.result = f].work = x.work
  BY DEF RunRows

(* A row of a call with fields changed. *)
LEMMA CallUpdates ==
    ASSUME NEW x \in CallRows
    PROVE  /\ [x EXCEPT !.timer = FALSE] \in CallRows
           /\ [x EXCEPT !.timer = FALSE].state = x.state
           /\ [x EXCEPT !.timer = FALSE].channel = x.channel
           /\ \A s \in {"started", "cancelling", "finished"} :
                \A y \in {[x EXCEPT !.state = s], [x EXCEPT !.state = s, !.timer = FALSE]} :
                   y \in CallRows /\ y.state = s /\ y.channel = x.channel
  BY DEF CallRows

\* The parent of a called run is another run, which exists and is not pending.
LEMMA ParentIsOther ==
    ASSUME TreeInv, TypeOK, NEW c \in RunIds, ~IsRoot(c)
    PROVE  /\ run[c].parent \in RunIds /\ run[c].parent # c
           /\ Exists(run[c].parent) /\ run[run[c].parent].state # "pending"
<1>1. run[c] \in RunRows
  BY DEF TypeOK
<1>2. run[c].parent \in run[c].up
  BY DEF TreeInv, Chain
<1> QED  BY <1>1, <1>2 DEF TreeInv, IsRoot, RunRows

(* The initial state has no run. *)
LEMMA InitInv == Init => SubRunsInv
<1> SUFFICES ASSUME Init PROVE SubRunsInv
  OBVIOUS
<1>1. /\ run = [r \in RunIds |-> NoRun] /\ \A r \in RunIds : run[r] = NoRun
      /\ call = [r \in RunIds |-> NoCall] /\ \A r \in RunIds : call[r] = NoCall
      /\ hook = {} /\ lost = {} /\ \A r \in RunIds : Free(r)
  BY DEF Init, Free
<1>2. TypeOK
  <2>1. NoRun \in RunRows /\ NoCall \in CallRows
    BY DEF NoRun, NoCall, RunRows, CallRows, Unfinished, Results
  <2> QED  BY <1>1, <2>1 DEF Init, TypeOK
<1>3. \A r \in RunIds : /\ ~Exists(r) /\ IsRoot(r) /\ run[r].up = {}
                        /\ run[r].result = "" /\ run[r].work = "done"
                        /\ call[r].state = "none" /\ call[r].channel = ""
  BY <1>1 DEF Exists, IsRoot, NoRun, NoCall
<1>4. TreeInv /\ ChainsEnd /\ CallInv
  BY <1>1, <1>3 DEF TreeInv, ChainsEnd, CallInv
<1>5. NoMissedCallback /\ CallReportsRun /\ NoRunLeftBehind
  BY <1>3 DEF NoMissedCallback, CallReportsRun, NoRunLeftBehind, Waits, Exists
<1>6. RunSide
  <2>1. \A r \in RunIds : ~HasOpenWork(r)
    BY <1>3 DEF HasOpenWork, CallsOf, Exists
  <2> QED  BY <1>1, <1>3, <2>1 DEF RunSide, EndInv, IdleInv, ResultAtEnd
<1> QED  BY <1>2, <1>4, <1>5, <1>6 DEF SubRunsInv, CallSide

-----------------------------------------------------------------------------
(* Types, and the rows each action writes. *)

(* What a cancellation writes to the calls of a run. *)
LEMMA DrainedRows ==
    ASSUME TypeOK, NEW r \in RunIds
    PROVE  /\ Drained(r) \in [RunIds -> CallRows]
           /\ \A c \in RunIds :
                /\ Drained(r)[c].channel = call[c].channel
                /\ Drained(r)[c].state = IF run[c].state # "none" /\ run[c].parent = r /\ Waits(c)
                                         THEN "cancelling" ELSE call[c].state
<1>1. ASSUME NEW c \in RunIds
      PROVE /\ call[c] \in CallRows
            /\ [call[c] EXCEPT !.state = "cancelling"] \in CallRows
            /\ [call[c] EXCEPT !.state = "cancelling"].state = "cancelling"
            /\ [call[c] EXCEPT !.state = "cancelling"].channel = call[c].channel
  <2>1. call[c] \in CallRows
    BY DEF TypeOK
  <2> QED  BY <2>1 DEF CallRows
<1>2. ASSUME NEW c \in RunIds
      PROVE Drained(r)[c] = IF run[c].state # "none" /\ run[c].parent = r /\ Waits(c)
                            THEN [call[c] EXCEPT !.state = "cancelling"] ELSE call[c]
  BY DEF Drained, CallsOf
<1>3. Drained(r) = [c \in RunIds |-> Drained(r)[c]]
  BY DEF Drained
<1> HIDE DEF Drained
<1> QED  BY <1>1, <1>2, <1>3

(* The rows after the call of c, and perhaps its run, were cancelled. *)
LEMMA ChildRows ==
    ASSUME TypeOK, NEW c \in RunIds
    PROVE  /\ ChildCancelled(c) \in [RunIds -> RunRows]
           /\ ChildDrained(c) \in [RunIds -> CallRows]
           /\ \A q \in RunIds :
                /\ ChildCancelled(c)[q] = IF q = c /\ run[c].state \in Unfinished
                                          THEN [run[q] EXCEPT !.state = "cancelling"] ELSE run[q]
                /\ ChildDrained(c)[q].channel = call[q].channel
                /\ ChildDrained(c)[q].state =
                     IF /\ run[c].state \in Unfinished
                        /\ run[q].state # "none" /\ run[q].parent = c /\ Waits(q)
                     THEN "cancelling" ELSE call[q].state
<1>1. \A q \in RunIds : run[q] \in RunRows
  BY DEF TypeOK
<1>2. Cancelling(c) = [run EXCEPT ![c] = [run[c] EXCEPT !.state = "cancelling"]]
  BY DEF Cancelling
<1>3. [run[c] EXCEPT !.state = "cancelling"] \in RunRows
  BY <1>1, RowUpdates
<1>4. /\ Cancelling(c) \in [RunIds -> RunRows]
      /\ \A q \in RunIds : Cancelling(c)[q] =
            IF q = c THEN [run[q] EXCEPT !.state = "cancelling"] ELSE run[q]
  BY <1>2, <1>3 DEF TypeOK
<1> QED  BY <1>4, DrainedRows DEF ChildCancelled, ChildDrained, TypeOK

(* The end of a run, if its call does not wait: the run is finished at once. *)
LEMMA EndRows ==
    ASSUME TypeOK, NEW r \in RunIds, NEW result \in Results, EndsWith(r, result)
    PROVE  /\ TypeOK' /\ Free(r) /\ UNCHANGED <<call, hook, lost>>
           /\ Waits(r) => run' = run /\ ending' = [ending EXCEPT ![r] = result]
           /\ ~Waits(r) =>
                /\ ending' = ending /\ \A q \in RunIds \ {r} : run'[q] = run[q]
                /\ run'[r] = [run[r] EXCEPT !.state = "finished", !.result = result]
<1>1. /\ Free(r) /\ UNCHANGED <<call, node, entry, hook, lost>>
      /\ Waits(r) => run' = run /\ ending' = [ending EXCEPT ![r] = result]
      /\ ~Waits(r) =>
           /\ ending' = ending
           /\ run' = [run EXCEPT ![r] = [run[r] EXCEPT !.state = "finished", !.result = result]]
  BY DEF EndsWith, appVars
<1>2. /\ [run[r] EXCEPT !.state = "finished", !.result = result] \in RunRows
      /\ run \in [RunIds -> RunRows] /\ ending \in [RunIds -> Results \cup {""}]
  BY RowUpdates DEF TypeOK
<1>3. run' \in [RunIds -> RunRows] /\ ending' \in [RunIds -> Results \cup {""}]
  BY <1>1, <1>2
<1>4. TypeOK'
  BY <1>1, <1>3 DEF TypeOK
<1> QED  BY <1>1, <1>2, <1>4

(* The callback at the end of a run writes the run, its parent and its call. *)
LEMMA FinishRows ==
    ASSUME TypeOK, NEW r \in RunIds, FinishWith(r)
    PROVE  /\ TypeOK' /\ ending[r] \in Results /\ ending' = [ending EXCEPT ![r] = ""]
           /\ hook' = hook /\ \A c \in RunIds \ {r} : c \in lost' <=> c \in lost
           /\ run'[r] = [run[r] EXCEPT !.state = "finished", !.result = ending[r]]
           /\ \A q \in RunIds \ {r} :
                \/ q \in Resumed(r) /\ run'[q] = [run[q] EXCEPT !.work = "open"]
                \/ run'[q] = run[q]
           /\ \A c \in RunIds \ {r} : call'[c] = call[c]
           /\ Waits(r) => /\ call'[r].state = "finished" /\ r \notin lost'
                          /\ call'[r].channel = IF ending[r] = "passed" THEN "passed" ELSE "failed"
           /\ ~Waits(r) => /\ call'[r].state = "started" /\ r \in lost'
                           /\ call'[r].channel = call[r].channel
<1>1. \A q \in RunIds : run[q] \in RunRows /\ call[q] \in CallRows
  BY DEF TypeOK
<1>2. ending[r] \in Results
  BY DEF FinishWith, Free, TypeOK
<1>3. /\ run'[r] = [run[r] EXCEPT !.state = "finished", !.result = ending[r]]
      /\ \A q \in RunIds \ {r} :
           \/ q \in Resumed(r) /\ run'[q] = [run[q] EXCEPT !.work = "open"]
           \/ run'[q] = run[q]
  BY DEF FinishWith
<1>4. ASSUME NEW q \in RunIds PROVE run'[q] \in RunRows
  <2>1. /\ run[q] \in RunRows
        /\ [run[q] EXCEPT !.state = "finished", !.result = ending[r]] \in RunRows
        /\ [run[q] EXCEPT !.work = "open"] \in RunRows
    BY <1>1, <1>2, RowUpdates
  <2> QED  BY <1>3, <2>1
<1>5. run' \in [RunIds -> RunRows]
  <2>1. run' = [q \in RunIds |-> run'[q]]
    BY DEF FinishWith
  <2> QED  BY <1>4, <2>1
<1> DEFINE told == [NoCall EXCEPT !.state = "finished", !.channel = ChannelOf(ending[r])]
           saved == [call[r] EXCEPT !.state = "started"]
<1>6. /\ told \in CallRows /\ told.state = "finished"
      /\ told.channel = IF ending[r] = "passed" THEN "passed" ELSE "failed"
  BY DEF CallRows, NoCall, ChannelOf
<1>7. saved \in CallRows /\ saved.state = "started" /\ saved.channel = call[r].channel
  BY <1>1, CallUpdates
<1>8. /\ call' = [call EXCEPT ![r] = IF Waits(r) THEN told ELSE saved]
      /\ lost' = IF Waits(r) THEN lost \ {r} ELSE lost \cup {r}
      /\ ending' = [ending EXCEPT ![r] = ""] /\ UNCHANGED <<node, entry, hook>>
  BY DEF FinishWith, appVars
<1> HIDE DEF told, saved
<1>9. call' \in [RunIds -> CallRows] /\ ending' \in [RunIds -> Results \cup {""}]
      /\ lost' \subseteq RunIds
  BY <1>6, <1>7, <1>8 DEF TypeOK
<1>10. TypeOK'
  BY <1>5, <1>8, <1>9 DEF TypeOK
<1>11. call'[r] = (IF Waits(r) THEN told ELSE saved) /\ \A c \in RunIds \ {r} : call'[c] = call[c]
  BY <1>8 DEF TypeOK
<1> QED  BY <1>2, <1>3, <1>6, <1>7, <1>8, <1>10, <1>11

(* A run that FailRun or FinalizeRun ends has one of the results. *)
LEMMA EndHasResult ==
    ASSUME NEW r \in RunIds, FailRun(r) \/ FinalizeRun(r)
    PROVE  \E result \in Results :
              /\ EndsWith(r, result) /\ run[r].state \in Unfinished
              /\ run[r].state = "cancelling" => result = "cancelled"
              /\ run[r].state = "pending" => result = "failed"
              /\ run[r].state = "pending" \/ ~HasOpenWork(r)
<1>1. CASE FailRun(r)
  BY <1>1 DEF FailRun, Results, Unfinished
<1>2. CASE FinalizeRun(r)
  <2>1. PICK result \in PossibleResults(r) : EndsWith(r, result)
    BY <1>2 DEF FinalizeRun
  <2> QED  BY <1>2, <2>1 DEF FinalizeRun, PossibleResults, Results, Unfinished
<1> QED  BY <1>1, <1>2

(* What the termination of a call writes ... *)
LEMMA TerminateRows ==
    ASSUME TypeOK, NEW c \in RunIds, Terminate(c)
    PROVE  /\ TypeOK' /\ run' = ChildCancelled(c) /\ lost' = lost \ {c}
           /\ UNCHANGED <<hook, ending>>
           /\ \A q \in RunIds :
                /\ call'[q].channel = call[q].channel
                /\ call'[q].state = IF q = c THEN "finished" ELSE ChildDrained(c)[q].state
<1> DEFINE D == ChildDrained(c)
<1>1. D \in [RunIds -> CallRows] /\ \A q \in RunIds : D[q].channel = call[q].channel
  BY ChildRows
<1>2. /\ call' = [D EXCEPT ![c].state = "finished", ![c].timer = FALSE]
      /\ run' = ChildCancelled(c) /\ lost' = lost \ {c} /\ UNCHANGED <<node, entry, hook, ending>>
  BY DEF Terminate, appVars
<1> HIDE DEF D
<1>3. call' = [D EXCEPT ![c] = [D[c] EXCEPT !.state = "finished", !.timer = FALSE]]
  BY <1>1, <1>2
<1>4. LET x == [D[c] EXCEPT !.state = "finished", !.timer = FALSE] IN
      x \in CallRows /\ x.state = "finished" /\ x.channel = D[c].channel
  BY <1>1, CallUpdates
<1>5. call' \in [RunIds -> CallRows]
  BY <1>1, <1>3, <1>4
<1>6. \A q \in RunIds :
        /\ call'[q].channel = call[q].channel
        /\ call'[q].state = IF q = c THEN "finished" ELSE D[q].state
  BY <1>1, <1>3, <1>4
<1>7. TypeOK'
  BY <1>2, <1>5, ChildRows DEF TypeOK
<1> QED  BY <1>2, <1>6, <1>7 DEF D

\* ... its timeout ...
LEMMA TimeoutRows ==
    ASSUME TypeOK, NEW c \in RunIds, Timeout(c)
    PROVE  /\ TypeOK' /\ run' = ChildCancelled(c)
           /\ lost' = IF call[c].state = "cancelling" THEN lost \cup {c} ELSE lost
           /\ hook' = hook \ {c} /\ ending' = ending
           /\ \A q \in RunIds :
                /\ call'[q].channel = call[q].channel
                /\ call'[q].state = IF q = c /\ call[c].state # "finished" THEN "started"
                                    ELSE ChildDrained(c)[q].state
<1> DEFINE D == ChildDrained(c)
<1>1. D \in [RunIds -> CallRows] /\ \A q \in RunIds : D[q].channel = call[q].channel
  BY ChildRows
<1>2. /\ call' = IF call[c].state = "finished" THEN D ELSE [D EXCEPT ![c].state = "started"]
      /\ run' = ChildCancelled(c) /\ hook' = hook \ {c} /\ UNCHANGED <<node, entry, ending>>
      /\ lost' = IF call[c].state = "cancelling" THEN lost \cup {c} ELSE lost
  BY DEF Timeout, appVars
<1> HIDE DEF D
<1>3. call' = IF call[c].state = "finished" THEN D
              ELSE [D EXCEPT ![c] = [D[c] EXCEPT !.state = "started"]]
  BY <1>1, <1>2
<1>4. LET x == [D[c] EXCEPT !.state = "started"] IN
      x \in CallRows /\ x.state = "started" /\ x.channel = D[c].channel
  BY <1>1, CallUpdates
<1>5. call' \in [RunIds -> CallRows]
  BY <1>1, <1>3, <1>4
<1>6. \A q \in RunIds :
        /\ call'[q].channel = call[q].channel
        /\ call'[q].state = IF q = c /\ call[c].state # "finished" THEN "started" ELSE D[q].state
  BY <1>1, <1>3, <1>4
<1>7. TypeOK'
  BY <1>2, <1>5, ChildRows DEF TypeOK
<1> QED  BY <1>2, <1>6, <1>7 DEF D

\* ... the initializer ...
LEMMA InitializeRows ==
    ASSUME TypeOK, NEW r \in RunIds, InitializeRun(r)
    PROVE  /\ TypeOK' /\ UNCHANGED <<call, hook, ending, lost>>
           /\ \A q \in RunIds \ {r} : run'[q] = run[q]
           /\ run'[r] = [run[r] EXCEPT !.state = "started", !.work = "open"]
<1>1. run[r] \in RunRows
  BY DEF TypeOK
<1>2. run' = [run EXCEPT ![r] = [run[r] EXCEPT !.state = "started", !.work = "open"]]
  BY DEF InitializeRun
<1>3. [run[r] EXCEPT !.state = "started", !.work = "open"] \in RunRows
  BY <1>1, RowUpdates
<1>4. UNCHANGED <<call, node, entry, hook, ending, lost>>
  BY DEF InitializeRun, appVars, saveVars
<1>5. TypeOK'
  BY <1>2, <1>3, <1>4 DEF TypeOK
<1> QED  BY <1>2, <1>4, <1>5 DEF TypeOK

\* ... a cancelled run ...
LEMMA CancelRunRows ==
    ASSUME TypeOK, NEW r \in RunIds, CancelRun(r)
    PROVE  /\ TypeOK' /\ call' = Drained(r) /\ UNCHANGED <<hook, ending, lost>>
           /\ \A q \in RunIds \ {r} : run'[q] = run[q]
           /\ run'[r] = [run[r] EXCEPT !.state = "cancelling"]
<1>1. run[r] \in RunRows
  BY DEF TypeOK
<1>2. run' = [run EXCEPT ![r] = [run[r] EXCEPT !.state = "cancelling"]]
  BY DEF CancelRun, Cancelling
<1>3. [run[r] EXCEPT !.state = "cancelling"] \in RunRows
  BY <1>1, RowUpdates
<1> QED  BY <1>2, <1>3, DrainedRows DEF CancelRun, TypeOK, appVars, saveVars

\* ... the end of a run's own work ...
LEMMA WorkRows ==
    ASSUME TypeOK, NEW r \in RunIds, FinishWork(r)
    PROVE  TypeOK' /\ Quiet /\ ending' = ending
<1>1. run[r] \in RunRows /\ run[r].state # "none"
  BY DEF TypeOK, FinishWork, Unfinished
<1>2. run' = [run EXCEPT ![r] = [run[r] EXCEPT !.work = "done"]]
      /\ UNCHANGED <<call, node, entry, hook, ending, lost>>
  BY DEF FinishWork, appVars, saveVars
<1>3. [run[r] EXCEPT !.work = "done"] \in RunRows
  BY <1>1, RowUpdates
<1>4. TypeOK'
  BY <1>2, <1>3 DEF TypeOK
<1>5. run'[r] = [run[r] EXCEPT !.work = "done"] /\ \A q \in RunIds \ {r} : run'[q] = run[q]
  BY <1>2 DEF TypeOK
<1>6. RunsStay
  <2>1. RunMoves(r) /\ Kept(r) /\ run'[r].work = "done"
    BY <1>1, <1>5, RowFields, RowStates DEF RunMoves, Kept
  <2>2. \A q \in RunIds \ {r} : RunMoves(q) /\ Kept(q)
    BY <1>5 DEF RunMoves, Kept
  <2> QED  BY <1>5, <2>1, <2>2 DEF RunsStay
<1> QED  BY <1>2, <1>4, <1>6 DEF Quiet, CallsStay

\* ... and the actions that leave runs alone.
LEMMA CallRowsOnly ==
    ASSUME TypeOK, run' = run, lost' = lost, UNCHANGED <<ending, entry>>,
           hook' \subseteq RunIds, \A c \in hook' : c \in hook \/ Waits(c),
           node' \in [Apps -> {"live", "deleted"}],
           call' = [q \in RunIds |-> call'[q]],
           \A q \in RunIds :
              \/ call'[q] = call[q]
              \/ call'[q] = [call[q] EXCEPT !.timer = FALSE]
              \/ Waits(q) /\ call'[q] = [call[q] EXCEPT !.state = "cancelling"]
              \/ Waits(q) /\ call'[q] = [call[q] EXCEPT !.state = "cancelling", !.timer = FALSE]
    PROVE  TypeOK' /\ Quiet
<1>1. RunsStay
  BY DEF RunsStay, RunMoves, Kept
<1>2. ASSUME NEW q \in RunIds
      PROVE /\ call'[q] \in CallRows /\ call'[q].channel = call[q].channel
            /\ \/ call'[q].state = call[q].state
               \/ Waits(q) /\ call'[q].state = "cancelling"
  <2>1. call[q] \in CallRows
    BY DEF TypeOK
  <2>2. LET y == [call[q] EXCEPT !.timer = FALSE] IN
        y \in CallRows /\ y.state = call[q].state /\ y.channel = call[q].channel
    BY <2>1, CallUpdates
  <2>3. \A y \in {[call[q] EXCEPT !.state = "cancelling"],
                   [call[q] EXCEPT !.state = "cancelling", !.timer = FALSE]} :
           y \in CallRows /\ y.state = "cancelling" /\ y.channel = call[q].channel
    BY <2>1, CallUpdates
  <2> QED  BY <2>1, <2>2, <2>3
<1>3. call' \in [RunIds -> CallRows]
  BY <1>2
<1> QED  BY <1>1, <1>2, <1>3 DEF TypeOK, Quiet, CallsStay

\* A drained run, again.
LEMMA DrainAgainRows ==
    ASSUME TypeOK, NEW r \in RunIds, DrainAgain(r)
    PROVE  TypeOK' /\ Quiet /\ ending' = ending
<1>1. /\ call' = [q \in RunIds |-> call'[q]]
      /\ \A q \in RunIds : \/ call'[q] = call[q]
                           \/ Waits(q) /\ call'[q] = [call[q] EXCEPT !.state = "cancelling"]
  BY DEF DrainAgain, Drained
<1> QED  BY <1>1, CallRowsOnly DEF DrainAgain, appVars, saveVars, TypeOK

\* A cancelled call.
LEMMA CancelCallRows ==
    ASSUME TypeOK, NEW c \in RunIds, CancelCall(c)
    PROVE  TypeOK' /\ Quiet /\ ending' = ending
<1>1. /\ call' = [q \in RunIds |-> call'[q]]
      /\ \A q \in RunIds : \/ call'[q] = call[q]
                           \/ Waits(q) /\ call'[q] = [call[q] EXCEPT !.state = "cancelling"]
  BY DEF CancelCall, TypeOK
<1> QED  BY <1>1, CallRowsOnly DEF CancelCall, appVars, saveVars, TypeOK

\* A call whose timeout is read.
LEMMA ReadRows ==
    ASSUME TypeOK, NEW c \in RunIds, ReadForTimeout(c)
    PROVE  TypeOK' /\ Quiet /\ ending' = ending
<1>1. /\ call' = [q \in RunIds |-> call'[q]]
      /\ \A q \in RunIds : call'[q] = call[q] \/ call'[q] = [call[q] EXCEPT !.timer = FALSE]
  BY DEF ReadForTimeout, TypeOK
<1>2. hook' \subseteq RunIds /\ \A q \in hook' : q \in hook \/ Waits(q)
  BY DEF ReadForTimeout, TypeOK
<1> QED  BY <1>1, <1>2, CallRowsOnly DEF ReadForTimeout, appVars, TypeOK

\* A deleted node.
LEMMA DeleteRows ==
    ASSUME TypeOK, NEW a \in Apps, DeleteNode(a)
    PROVE  TypeOK' /\ Quiet /\ ending' = ending
<1>1. ASSUME NEW q \in RunIds
      PROVE  \/ call'[q] = call[q]
             \/ call'[q] = [call[q] EXCEPT !.timer = FALSE]
             \/ Waits(q) /\ call'[q] = [call[q] EXCEPT !.state = "cancelling", !.timer = FALSE]
  <2>1. call'[q] = IF call[q].state # "none" /\ AppOf(run[q].parent) = a
                   THEN [call[q] EXCEPT !.state = IF Waits(q) THEN "cancelling" ELSE @,
                                        !.timer = FALSE]
                   ELSE call[q]
    BY DEF DeleteNode
  <2>2. call[q] \in CallRows
    BY DEF TypeOK
  <2>3. [call[q] EXCEPT !.state = @, !.timer = FALSE] = [call[q] EXCEPT !.timer = FALSE]
    BY <2>2 DEF CallRows
  <2> QED  BY <2>1, <2>3
<1>2. call' = [q \in RunIds |-> call'[q]] /\ node' \in [Apps -> {"live", "deleted"}]
  BY DEF DeleteNode, TypeOK
<1> QED  BY <1>1, <1>2, CallRowsOnly DEF DeleteNode, saveVars, TypeOK

\* An edited entry, or nothing.
LEMMA EditRows ==
    ASSUME TypeOK, (\E e \in Entries : EditEntry(e)) \/ UNCHANGED vars
    PROVE  TypeOK' /\ Quiet /\ ending' = ending
<1>1. UNCHANGED <<run, call, node, hook, ending, lost>>
      /\ entry' \in [Entries -> {"live", "refusing", "removed"}]
  BY DEF EditEntry, TypeOK, vars, saveVars
<1>2. RunsStay /\ CallsStay
  BY <1>1 DEF RunsStay, CallsStay, RunMoves, Kept
<1> QED  BY <1>1, <1>2 DEF TypeOK, Quiet

(* A new root. *)
LEMMA StartRows ==
    ASSUME TypeOK, NEW r \in RunIds, StartRoot(r)
    PROVE  /\ TypeOK' /\ UNCHANGED <<call, hook, ending, lost>>
           /\ \A q \in RunIds \ {r} : run'[q] = run[q]
           /\ run'[r].state = "started" /\ run'[r].parent = NoParent /\ run'[r].up = {}
<1> DEFINE new == [NoRun EXCEPT !.state = "started", !.work = "open",
                                !.entry = RootEntry[r]]
<1>1. RootEntry[r] \in Entries
  BY SubRunsAssumption DEF StartRoot
<1>2. /\ new \in RunRows /\ new.state = "started"
      /\ new.parent = NoParent /\ new.up = {}
  BY <1>1 DEF NoRun, RunRows, Unfinished, Results
<1>3. run' = [run EXCEPT ![r] = new]
  BY DEF StartRoot
<1> HIDE DEF new
<1>4. UNCHANGED <<call, node, entry, hook, ending, lost>>
  BY DEF StartRoot, appVars, saveVars
<1>5. run' \in [RunIds -> RunRows] /\ run'[r] = new /\ \A q \in RunIds \ {r} : run'[q] = run[q]
  BY <1>2, <1>3 DEF TypeOK
<1>6. TypeOK'
  BY <1>4, <1>5 DEF TypeOK
<1> QED  BY <1>2, <1>4, <1>5, <1>6

(* A new called run. *)
Created(p, c, e) ==
    /\ \A q \in RunIds \ {c} : run'[q] = run[q] /\ call'[q] = call[q]
    /\ run'[c].state = "pending" /\ run'[c].parent = p
    /\ run'[c].up = Chain(p) /\ run'[c].entry = e
    /\ call'[c].state = "started" /\ call'[c].channel = ""

\* ... and the creation of a child run.
LEMMA CreateRows ==
    ASSUME TypeOK, NEW p \in RunIds, NEW c \in RunIds, NEW e \in Entries, CreateRun(p, c, e)
    PROVE  TypeOK' /\ Created(p, c, e) /\ UNCHANGED <<hook, ending, lost>>
<1> DEFINE new == [NoRun EXCEPT !.state = "pending", !.entry = e,
                                !.parent = p, !.up = Chain(p)]
           called == [NoCall EXCEPT !.state = "started", !.timer = TRUE]
<1>1. Chain(p) \in SUBSET RunIds
  <2>1. run[p] \in RunRows
    BY DEF TypeOK
  <2> QED  BY <2>1 DEF Chain, RunRows
<1>2. /\ new \in RunRows /\ new.state = "pending" /\ new.entry = e
      /\ new.parent = p /\ new.up = Chain(p)
  BY <1>1 DEF NoRun, RunRows, Unfinished, Results
<1>3. called \in CallRows /\ called.state = "started" /\ called.channel = ""
  BY DEF NoCall, CallRows
<1>4. run' = [run EXCEPT ![c] = new] /\ call' = [call EXCEPT ![c] = called]
  BY DEF CreateRun
<1> HIDE DEF new, called
<1>5. \A q \in RunIds \ {c} : run'[q] = run[q] /\ call'[q] = call[q]
  BY <1>4 DEF TypeOK
<1>6. run'[c] = new /\ call'[c] = called
  BY <1>4 DEF TypeOK
<1>7. run' \in [RunIds -> RunRows] /\ call' \in [RunIds -> CallRows]
  BY <1>2, <1>3, <1>4 DEF TypeOK
<1>8. UNCHANGED <<node, entry, hook, ending, lost>>
  BY DEF CreateRun, appVars, saveVars
<1>9. TypeOK'
  BY <1>7, <1>8 DEF TypeOK
<1> QED  BY <1>2, <1>3, <1>5, <1>6, <1>8, <1>9 DEF Created

-----------------------------------------------------------------------------
(* The tree of runs. *)

(* How the actions take the runs along: the initializer ... *)
LEMMA InitializeMoves ==
    ASSUME TypeOK, NEW r \in RunIds, InitializeRun(r)
    PROVE  /\ \A q \in RunIds : RunMoves(q)
           /\ \A q \in RunIds \ {r} : Kept(q)
           /\ run[r].state = "pending" /\ run'[r].state = "started" /\ run'[r].work = "open"
           /\ run'[r].result = run[r].result
<1>1. run[r] \in RunRows /\ run[r].state = "pending"
  BY DEF TypeOK, InitializeRun
<1>2. run'[r] = [run[r] EXCEPT !.state = "started", !.work = "open"]
  BY InitializeRows
<1>3. RunMoves(r) /\ run'[r].state = "started"
  BY <1>1, <1>2, RowFields, RowStates DEF RunMoves
<1>4. \A q \in RunIds \ {r} : RunMoves(q) /\ Kept(q)
  BY InitializeRows DEF RunMoves, Kept
<1> QED  BY <1>1, <1>2, <1>3, <1>4, RowStates

\* ... a cancelled run ...
LEMMA CancelRunMoves ==
    ASSUME TypeOK, NEW r \in RunIds, CancelRun(r)
    PROVE  /\ \A q \in RunIds : RunMoves(q)
           /\ \A q \in RunIds \ {r} : Kept(q)
           /\ run[r].state \in Unfinished /\ run'[r].state = "cancelling"
           /\ run'[r].result = run[r].result /\ run'[r].work = run[r].work
<1>1. run[r] \in RunRows /\ run[r].state \in Unfinished
  BY DEF TypeOK, CancelRun
<1>2. run'[r] = [run[r] EXCEPT !.state = "cancelling"]
  BY CancelRunRows
<1>3. RunMoves(r) /\ run'[r].state = "cancelling"
  BY <1>1, <1>2, RowFields, RowStates DEF RunMoves, Unfinished
<1>4. \A q \in RunIds \ {r} : RunMoves(q) /\ Kept(q)
  BY CancelRunRows DEF RunMoves, Kept
<1> QED  BY <1>1, <1>2, <1>3, <1>4, RowStates

\* ... a run that ends, and the run its callback resumes ...
LEMMA FinishMoves ==
    ASSUME TypeOK, TreeInv, CallInv, NEW r \in RunIds, run[r].state \in Unfinished,
           NEW result \in Results,
           run'[r] = [run[r] EXCEPT !.state = "finished", !.result = result],
           \A q \in RunIds \ {r} : \/ q \in Resumed(r) /\ run'[q] = [run[q] EXCEPT !.work = "open"]
                                   \/ run'[q] = run[q]
    PROVE  /\ \A q \in RunIds : RunMoves(q)
           /\ \A q \in RunIds \ {r} : Kept(q)
           /\ run'[r].state = "finished" /\ run'[r].result = result /\ run'[r].work = run[r].work
<1>1. \A q \in RunIds : run[q] \in RunRows
  BY DEF TypeOK
<1>2. /\ run'[r].state = "finished" /\ run'[r].result = result /\ run'[r].work = run[r].work
      /\ RunMoves(r)
  BY <1>1, RowFields, RowStates DEF RunMoves, Unfinished
<1>3. ASSUME NEW q \in RunIds \ {r} PROVE RunMoves(q) /\ Kept(q)
  <2>1. CASE run'[q] = run[q]
    BY <2>1 DEF RunMoves, Kept
  <2>2. CASE q \in Resumed(r) /\ run'[q] = [run[q] EXCEPT !.work = "open"]
    <3>1. q = run[r].parent /\ ~IsRoot(r)
      BY <2>2 DEF Resumed, CallInv, Waits
    <3>2. run[q].state # "none"
      BY <3>1, ParentIsOther DEF Exists
    <3> QED  BY <1>1, <2>2, <3>2, RowFields, RowStates DEF RunMoves, Kept
  <2> QED  BY <2>1, <2>2
<1> QED  BY <1>2, <1>3

\* ... and a call that is terminated or has timed out.
LEMMA ChildMoves ==
    ASSUME TypeOK, NEW c \in RunIds, run' = ChildCancelled(c)
    PROVE  \A q \in RunIds :
             /\ RunMoves(q) /\ run'[q].result = run[q].result /\ run'[q].work = run[q].work
             /\ run'[q].state = IF q = c /\ run[c].state \in Unfinished
                                THEN "cancelling" ELSE run[q].state
<1> SUFFICES ASSUME NEW q \in RunIds
             PROVE  /\ RunMoves(q) /\ run'[q].result = run[q].result /\ run'[q].work = run[q].work
                    /\ run'[q].state = IF q = c /\ run[c].state \in Unfinished
                                       THEN "cancelling" ELSE run[q].state
  OBVIOUS
<1>1. run[q] \in RunRows
  BY DEF TypeOK
<1>2. run'[q] = IF q = c /\ run[c].state \in Unfinished
                THEN [run[q] EXCEPT !.state = "cancelling"] ELSE run[q]
  BY ChildRows
<1>3. CASE q = c /\ run[c].state \in Unfinished
  <2>1. run[q].state # "none"
    BY <1>3 DEF Unfinished
  <2> QED  BY <1>1, <1>2, <1>3, <2>1, RowFields, RowStates DEF RunMoves
<1>4. CASE ~(q = c /\ run[c].state \in Unfinished)
  BY <1>2, <1>4 DEF RunMoves
<1> QED  BY <1>3, <1>4

-----------------------------------------------------------------------------
(* The tree of runs. *)

(* The tree is kept by a step in which every run moves. *)
LEMMA MovesKeepTree ==
    ASSUME TypeOK, TypeOK', TreeInv, ChainsEnd, \A q \in RunIds : RunMoves(q)
    PROVE  TreeInv' /\ ChainsEnd'
<1> USE DEF RunMoves
<1>0. \A q \in RunIds : run[q] \in RunRows
  BY DEF TypeOK
<1>1. \A q \in RunIds : run[q].up \subseteq RunIds /\ run[q].parent \in RunIds \cup {NoParent}
  BY <1>0 DEF RunRows
<1>2. \A q \in RunIds : /\ IsRoot(q)' = IsRoot(q) /\ AppOf(q)' = AppOf(q)
                        /\ Chain(q)' = Chain(q) /\ Exists(q)' = Exists(q)
  BY DEF IsRoot, AppOf, Chain, Exists
<1>3. TreeInv'
  BY <1>1, <1>2 DEF TreeInv, IsRoot, Exists
<1>4. \A q \in RunIds : Crossings(q)' = Crossings(q)
  BY <1>1, <1>2 DEF Crossings, IsRoot, Chain
<1>5. ChainsEnd'
  BY <1>1, <1>2, <1>4 DEF ChainsEnd
<1> QED  BY <1>3, <1>5

(* A new root has no parent and no chain. *)
LEMMA StartKeepsTree ==
    ASSUME TypeOK, TypeOK', TreeInv, ChainsEnd, NEW r \in RunIds, StartRoot(r)
    PROVE  TreeInv' /\ ChainsEnd'
<1>0. \A q \in RunIds : run[q] \in RunRows
  BY DEF TypeOK
<1>1. /\ run[r].state = "none" /\ \A q \in RunIds \ {r} : run'[q] = run[q]
      /\ run'[r].state = "started" /\ run'[r].parent = NoParent /\ run'[r].up = {}
  BY StartRows DEF StartRoot
<1>2. \A q \in RunIds : /\ run[q].up \subseteq RunIds \ {r}
                        /\ q # r => run[q].parent \in (RunIds \cup {NoParent}) \ {r}
  <2>1. \A q \in RunIds : run[q].up \subseteq RunIds \ {r}
    <3>1. \A q \in RunIds : run[q].up \subseteq RunIds
      BY <1>0 DEF RunRows
    <3>2. \A q \in RunIds : r \notin run[q].up
      BY <1>1 DEF TreeInv, Exists
    <3> QED  BY <3>1, <3>2
  <2>2. \A q \in RunIds : run[q].parent \in RunIds => run[q].parent \in run[q].up
    BY NoParentIsNoRun DEF TreeInv, IsRoot, Chain
  <2> QED  BY <1>0, <2>1, <2>2 DEF RunRows
<1>3. TreeInv'
  <2>1. ASSUME NEW q \in RunIds \ {r}
        PROVE /\ ~Exists(q)' => run'[q] = NoRun
              /\ IsRoot(q)' => run'[q].up = {}
              /\ ~IsRoot(q)' => run'[q].up = Chain(run[q].parent)'
              /\ q \notin run'[q].up
              /\ \A a \in run'[q].up : /\ Exists(a)' /\ run'[a].state # "pending"
                                       /\ run'[a].up \subseteq run'[q].up
    BY <1>1, <1>2 DEF TreeInv, Exists, IsRoot, Chain
  <2>2. Exists(r)' /\ IsRoot(r)' /\ run'[r].up = {}
    BY <1>1 DEF Exists, IsRoot
  <2> QED  BY <1>1, <2>1, <2>2 DEF TreeInv
<1>4. ChainsEnd'
  <2>1. ASSUME NEW q \in RunIds \ {r} PROVE Crossings(q)' = Crossings(q)
    BY <1>1, <1>2 DEF Crossings, Chain, IsRoot, AppOf
  <2>2. IsRoot(r)'
    BY <1>1 DEF IsRoot
  <2> QED  BY <1>1, <1>2, <2>1, <2>2 DEF ChainsEnd, IsRoot, AppOf
<1> QED  BY <1>3, <1>4

(* A new called run goes below its caller. *)
LEMMA CreateKeepsTree ==
    ASSUME TypeOK, TypeOK', TreeInv, ChainsEnd, NEW p \in RunIds, NEW c \in RunIds,
           NEW e \in Entries, CreateRun(p, c, e)
    PROVE  TreeInv' /\ ChainsEnd'
<1>0. \A q \in RunIds : run[q] \in RunRows
  BY DEF TypeOK
<1>1. /\ run[c].state = "none" /\ run[p].state = "started" /\ p # c
      /\ \A q \in RunIds \ {c} : run'[q] = run[q]
      /\ run'[c].state = "pending" /\ run'[c].parent = p
      /\ run'[c].up = Chain(p) /\ run'[c].entry = e
  <2>1. run[c].state = "none" /\ run[p].state = "started" /\ p # c
    BY DEF CreateRun, IsFresh, Executes
  <2>2. Created(p, c, e)
    BY CreateRows
  <2> QED  BY <2>1, <2>2 DEF Created
<1>2. \A q \in RunIds : /\ run[q].up \subseteq RunIds \ {c}
                        /\ run[q].parent \in (RunIds \cup {NoParent}) \ {c}
  <2>1. \A q \in RunIds : run[q].up \subseteq RunIds
    BY <1>0 DEF RunRows
  <2>2. \A q \in RunIds : c \notin run[q].up
    BY <1>1 DEF TreeInv, Exists
  <2>3. \A q \in RunIds : run[q].parent \in RunIds => run[q].parent \in run[q].up
    BY NoParentIsNoRun DEF TreeInv, IsRoot, Chain
  <2>4. \A q \in RunIds : run[q].parent \in RunIds \cup {NoParent}
    BY <1>0 DEF RunRows
  <2> QED  BY <2>1, <2>2, <2>3, <2>4, NoParentIsNoRun
<1>3. /\ Chain(p) \subseteq RunIds \ {c}
      /\ p \notin run[p].up
      /\ \A a \in Chain(p) : /\ Exists(a) /\ run[a].state # "pending"
                             /\ run[a].up \subseteq run[p].up
  BY <1>1, <1>2 DEF Chain, TreeInv, Exists
<1>4. TreeInv'
  <2>1. ASSUME NEW q \in RunIds \ {c}
        PROVE /\ ~Exists(q)' => run'[q] = NoRun
              /\ IsRoot(q)' => run'[q].up = {}
              /\ ~IsRoot(q)' => run'[q].up = Chain(run[q].parent)'
              /\ q \notin run'[q].up
              /\ \A a \in run'[q].up : /\ Exists(a)' /\ run'[a].state # "pending"
                                       /\ run'[a].up \subseteq run'[q].up
    BY <1>1, <1>2 DEF TreeInv, Exists, IsRoot, Chain
  <2>2. /\ Exists(c)' /\ ~IsRoot(c)' /\ run'[c].up = Chain(p)' /\ c \notin run'[c].up
        /\ \A a \in run'[c].up : /\ Exists(a)' /\ run'[a].state # "pending"
                                 /\ run'[a].up \subseteq run'[c].up
    <3>1. Chain(p)' = Chain(p) /\ run[p].up \subseteq Chain(p)
      BY <1>1 DEF Chain
    <3>2. \A a \in Chain(p) : run'[a] = run[a]
      BY <1>1, <1>3
    <3> QED  BY <1>1, <1>3, <3>1, <3>2, NoParentIsNoRun DEF Exists, IsRoot
  <2> QED  BY <1>1, <2>1, <2>2 DEF TreeInv
<1>5. ValidateSubRunCreation(p, e)
  BY DEF CreateRun, CanCreate
<1>6. \A q \in RunIds \ {c} : /\ Crossings(q)' = Crossings(q) /\ AppOf(q)' = AppOf(q)
                              /\ IsRoot(q)' = IsRoot(q)
  BY <1>1, <1>2 DEF Crossings, Chain, IsRoot, AppOf
<1>7. Cardinality(Crossings(c)') < MaxDepth
  <2>1. Crossings(c)' = Crossings(p) \cup (IF AppOf(p) # e.app THEN {c} ELSE {})
    <3>1. \A a \in Chain(p) : /\ IsRoot(a)' = IsRoot(a) /\ AppOf(a)' = AppOf(a)
                              /\ ~IsRoot(a) => AppOf(run[a].parent)' = AppOf(run[a].parent)
      <4>1. ASSUME NEW a \in Chain(p) PROVE run'[a] = run[a] /\ a \in RunIds
        BY <1>1, <1>3, <4>1
      <4>2. ASSUME NEW a \in Chain(p), ~IsRoot(a)
            PROVE  run'[run[a].parent] = run[run[a].parent]
        BY <1>1, <1>2, <4>1, <4>2 DEF IsRoot
      <4> QED  BY <4>1, <4>2 DEF IsRoot, AppOf
    <3>2. Chain(c)' = Chain(p) \cup {c} /\ c \notin Chain(p)
      BY <1>1, <1>3 DEF Chain
    <3>3. ~IsRoot(c)' /\ AppOf(c)' = e.app /\ AppOf(run[c].parent)' = AppOf(p)
      BY <1>1, NoParentIsNoRun DEF IsRoot, AppOf
    <3>4. \A a \in Chain(p) :
             (~IsRoot(a)' /\ AppOf(run[a].parent)' # AppOf(a)') <=> a \in Crossings(p)
      BY <3>1 DEF Crossings
    <3>5. Crossings(p) \subseteq Chain(p)
      BY DEF Crossings
    <3>6. Crossings(c)' = {a \in Chain(c)' : ~IsRoot(a)' /\ AppOf(run[a].parent)' # AppOf(a)'}
      BY DEF Crossings, IsRoot, AppOf
    <3> QED  BY <3>2, <3>3, <3>4, <3>5, <3>6
  <2>2. IsFiniteSet(Crossings(p)) /\ c \notin Crossings(p)
    <3>1. Crossings(p) \in SUBSET RunIds /\ c \notin Crossings(p)
      BY <1>3 DEF Crossings
    <3> QED  BY <3>1, SubRunsAssumption, FS_Subset
  <2>3. Cardinality(Crossings(p) \cup {c}) = Cardinality(Crossings(p)) + 1
    BY <2>2, FS_AddElement
  <2>4. CrossWorkflowDepth(p, e) < MaxDepth
    BY <1>5 DEF ValidateSubRunCreation
  <2>5. Cardinality(Crossings(p)) \in Nat
    BY <2>2, FS_CardinalityType
  <2>6. CASE AppOf(p) # e.app
    BY <2>1, <2>3, <2>4, <2>6 DEF CrossWorkflowDepth
  <2>7. CASE AppOf(p) = e.app
    <3>1. Cardinality(Crossings(p)) + 0 < MaxDepth
      BY <2>4, <2>7 DEF CrossWorkflowDepth
    <3>2. Crossings(c)' = Crossings(p)
      BY <2>1, <2>7
    <3> QED  BY <2>5, <3>1, <3>2
  <2> QED  BY <2>6, <2>7
<1>8. /\ \A a \in Chain(p) : run[a].entry # e
      /\ AppOf(p) # e.app => \A a \in Chain(p) : AppOf(a) # e.app
  BY <1>5 DEF ValidateSubRunCreation, EntrypointCycle, WorkflowCycle, Chain
<1>9. ASSUME NEW a \in Chain(p), AppOf(a) = e.app, NEW b \in Chain(p), a \in run[b].up
      PROVE  AppOf(b) = e.app
  <2>1. AppOf(p) = e.app
    BY <1>8, <1>9
  <2>2. CASE b = p
    BY <2>1, <2>2
  <2>3. CASE b \in run[p].up
    <3>1. a \in run[p].up
      BY <1>3, <1>9
    <3> QED  BY <1>9, <2>1, <2>3, <3>1 DEF ChainsEnd
  <2> QED  BY <2>2, <2>3 DEF Chain
<1>10. ChainsEnd'
  <2>1. ASSUME NEW q \in RunIds \ {c}
        PROVE /\ \A a \in run'[q].up :
                   /\ run'[a].entry # run'[q].entry
                   /\ AppOf(a)' = AppOf(q)' =>
                        \A b \in run'[q].up : a \in run'[b].up => AppOf(b)' = AppOf(q)'
              /\ ~IsRoot(q)' => Cardinality(Crossings(q)') < MaxDepth
    BY <1>1, <1>2, <1>6 DEF ChainsEnd
  <2>2. \A a \in run'[c].up :
           /\ run'[a].entry # run'[c].entry
           /\ AppOf(a)' = AppOf(c)' =>
                \A b \in run'[c].up : a \in run'[b].up => AppOf(b)' = AppOf(c)'
    <3>1. \A a \in Chain(p) : run'[a] = run[a] /\ AppOf(a)' = AppOf(a)
      BY <1>1, <1>3 DEF AppOf
    <3>2. AppOf(c)' = e.app
      BY <1>1 DEF AppOf
    <3> QED  BY <1>1, <1>8, <1>9, <3>1, <3>2
  <2> QED  BY <1>7, <2>1, <2>2 DEF ChainsEnd
<1> QED  BY <1>4, <1>10

-----------------------------------------------------------------------------
(* The end of a run: by the finalizer at once, or once the callback is told. *)

(* A run r that may end with the result. *)
CanEnd(r, result) ==
    /\ run[r].state \in Unfinished /\ ~HasOpenWork(r)
    /\ run[r].state = "cancelling" => result = "cancelled"
    /\ run[r].state = "pending" => result = "failed"

(* Its end: a call that waits is told, or saved as if it had not been cancelled. *)
Ends(r, result) ==
    /\ run'[r] = [run[r] EXCEPT !.state = "finished", !.result = result]
    /\ \A q \in RunIds \ {r} : \/ q \in Resumed(r) /\ run'[q] = [run[q] EXCEPT !.work = "open"]
                               \/ run'[q] = run[q]
    /\ \A c \in RunIds \ {r} : call'[c] = call[c] /\ (c \in lost' <=> c \in lost)
    /\ \/ /\ Waits(r) /\ call'[r].state = "finished" /\ r \notin lost'
          /\ call'[r].channel = IF result = "passed" THEN "passed" ELSE "failed"
       \/ /\ ~Waits(r) /\ IsOpen(r) /\ call'[r].state = "started" /\ r \in lost'
          /\ call'[r].channel = call[r].channel
       \/ ~Waits(r) /\ call'[r] = call[r] /\ (r \in lost' <=> r \in lost)
    /\ hook' = hook

\* The callback finds the run as its end left it.
LEMMA CallbackEnds ==
    ASSUME SubRunsInv, NEW r \in RunIds, FinishWith(r)
    PROVE  ending[r] \in Results /\ CanEnd(r, ending[r]) /\ Ends(r, ending[r])
<1>1. ~Free(r)
  BY DEF FinishWith
<1>2. CanEnd(r, ending[r]) /\ IsOpen(r)
  BY <1>1 DEF SubRunsInv, RunSide, EndInv, IdleInv, CanEnd
<1>3. TypeOK
  BY DEF SubRunsInv
<1> QED  BY <1>2, <1>3, FinishRows DEF Ends

\* A pending run has called nobody and has no work.
LEMMA EndIsPossible ==
    ASSUME SubRunsInv, NEW r \in RunIds, FailRun(r) \/ FinalizeRun(r)
    PROVE  \E result \in Results : EndsWith(r, result) /\ CanEnd(r, result)
<1>1. run[r].state = "pending" => ~HasOpenWork(r)
  BY DEF SubRunsInv, RunSide, IdleInv
<1> QED  BY <1>1, EndHasResult DEF CanEnd

\* Without a call that waits a run ends at once.
LEMMA EndsAtOnce ==
    ASSUME TypeOK, NEW r \in RunIds, NEW result \in Results, EndsWith(r, result), ~Waits(r)
    PROVE  Ends(r, result)
  BY EndRows DEF Ends

-----------------------------------------------------------------------------
(* The life cycle of every run, under the mapping of SubRuns. *)

(* What the life cycle lets one run do in a step. *)
LifeStep(r) ==
    \/ Lifecycle!Create(r) \/ Lifecycle!Initialize(r) \/ Lifecycle!Work(r)
    \/ Lifecycle!Cancel(r) \/ Lifecycle!Finish(r) \/ Lifecycle!Same(r)

(* The row of run r stays in its state, and an idle run gets no work. *)
Steady(r) ==
    /\ run'[r].state = run[r].state /\ run'[r].result = run[r].result
    /\ HasOpenWork(r)' => HasOpenWork(r)

\* A run that is steady works on, or nothing of it changes.
LEMMA SteadyIsLifeStep ==
    ASSUME SubRunsInv, NEW r \in RunIds, Steady(r)
    PROVE  LifeStep(r)
<1>1. CASE HasOpenWork(r)
  <2>1. run[r] \in RunRows
    BY DEF SubRunsInv, TypeOK
  <2>2. run[r].state \in {"started", "cancelling"}
    BY <1>1, <2>1 DEF SubRunsInv, RunSide, IdleInv, RunRows, Unfinished
  <2>3. Lifecycle!Work(r)
    BY <1>1, <2>2 DEF Steady, Lifecycle!Work
  <2> QED  BY <2>3 DEF LifeStep
<1>2. CASE ~HasOpenWork(r)
  <2>1. ~HasOpenWork(r)'
    BY <1>2 DEF Steady
  <2>2. HasOpenWork(r) = HasOpenWork(r)'
    BY <1>2, <2>1 DEF HasOpenWork
  <2>3. Lifecycle!Same(r)
    BY <2>2 DEF Steady, Lifecycle!Same
  <2> QED  BY <2>3 DEF LifeStep
<1> QED  BY <1>1, <1>2

(* Nobody is called, and no call is opened again. *)
NoCallAdded ==
    \A c \in RunIds : Exists(c)' /\ IsOpen(c)' =>
        Exists(c) /\ IsOpen(c) /\ run'[c].parent = run[c].parent

\* Then a run has work left only if it had some, or is given some itself.
LEMMA WorkIsOld ==
    ASSUME NoCallAdded, NEW r \in RunIds, run'[r].work = "open" => HasOpenWork(r)
    PROVE  HasOpenWork(r)' => HasOpenWork(r)
  BY DEF NoCallAdded, HasOpenWork, CallsOf, Exists, IsOpen

\* A run whose state, result and own work stay is steady.
LEMMA RowStaysSteady ==
    ASSUME NoCallAdded, NEW r \in RunIds,
           run'[r].state = run[r].state, run'[r].result = run[r].result,
           run'[r].work = "open" => HasOpenWork(r)
    PROVE  Steady(r)
  BY WorkIsOld DEF Steady

\* A run that is cancelled, perhaps again, takes a step of the life cycle.
LEMMA CancelIsLifeStep ==
    ASSUME SubRunsInv, NEW r \in RunIds, run[r].state \in Unfinished,
           run'[r].state = "cancelling", run'[r].result = run[r].result,
           HasOpenWork(r)' => HasOpenWork(r)
    PROVE  LifeStep(r)
<1>1. CASE run[r].state = "cancelling"
  BY <1>1, SteadyIsLifeStep DEF Steady
<1>2. CASE run[r].state \in {"pending", "started"}
  <2>1. Lifecycle!Cancel(r)
    BY <1>2 DEF Lifecycle!Cancel
  <2> QED  BY <2>1 DEF LifeStep
<1> QED  BY <1>1, <1>2 DEF Unfinished

\* A run that a trigger starts is busy with its event.
LEMMA StartRootSteps ==
    ASSUME SubRunsInv, NEW r \in RunIds, StartRoot(r)
    PROVE  \A q \in RunIds : LifeStep(q)
<1> DEFINE new == [NoRun EXCEPT !.state = "started", !.work = "open",
                                !.entry = RootEntry[r]]
<1>1. run' = [run EXCEPT ![r] = new] /\ call' = call /\ run[r].state = "none"
  BY DEF StartRoot
<1>2. /\ new.state = "started" /\ new.work = "open" /\ new.result = ""
      /\ new.parent = NoParent
  BY DEF NoRun
<1> HIDE DEF new
<1>3. run'[r] = new /\ \A q \in RunIds \ {r} : run'[q] = run[q]
  BY <1>1 DEF SubRunsInv, TypeOK
<1>4. run[r].result = ""
  BY <1>1 DEF SubRunsInv, RunSide, ResultAtEnd
<1>5. LifeStep(r)
  <2>1. HasOpenWork(r)'
    BY <1>2, <1>3 DEF HasOpenWork
  <2>2. Lifecycle!Create(r)
    BY <1>1, <1>2, <1>3, <2>1 DEF Lifecycle!Create
  <2> QED  BY <2>2 DEF LifeStep
<1>6. ASSUME NEW q \in RunIds \ {r} PROVE LifeStep(q)
  <2>1. HasOpenWork(q)' => HasOpenWork(q)
    BY <1>1, <1>2, <1>3, NoParentIsNoRun DEF HasOpenWork, CallsOf, Waits
  <2> QED  BY <1>3, <2>1, SteadyIsLifeStep DEF Steady
<1> QED  BY <1>5, <1>6

\* A called run is created pending and idle; the run that calls it is at work.
LEMMA CreateRunSteps ==
    ASSUME SubRunsInv, NEW p \in RunIds, NEW c \in RunIds, NEW e \in Entries,
           CreateRun(p, c, e)
    PROVE  \A q \in RunIds : LifeStep(q)
<1> DEFINE new == [NoRun EXCEPT !.state = "pending", !.entry = e,
                                !.parent = p, !.up = Chain(p)]
<1>1. run' = [run EXCEPT ![c] = new] /\ \A q \in RunIds \ {c} : call'[q] = call[q]
  BY DEF CreateRun, SubRunsInv, TypeOK
<1>2. /\ new.state = "pending" /\ new.work = "done" /\ new.result = ""
      /\ new.parent = p
  BY DEF NoRun
<1> HIDE DEF new
<1>3. run'[c] = new /\ \A q \in RunIds \ {c} : run'[q] = run[q]
  BY <1>1 DEF SubRunsInv, TypeOK
<1>4. /\ run[c].state = "none" /\ run[p].state = "started" /\ run[p].work = "open"
      /\ HasOpenWork(p) /\ ~HasOpenWork(c) /\ run[c].result = ""
  BY DEF CreateRun, Executes, IsFresh, HasOpenWork, SubRunsInv, RunSide, IdleInv, ResultAtEnd
<1>5. ASSUME NEW q \in RunIds, HasOpenWork(q)' PROVE HasOpenWork(q)
  <2>1. CASE q = p
    BY <1>4, <2>1
  <2>2. CASE q # p
    <3>1. run'[q].work = "open" => HasOpenWork(q)
      BY <1>2, <1>3 DEF HasOpenWork
    <3>2. ASSUME NEW x \in RunIds, x \in CallsOf(q)', IsOpen(x)'
          PROVE  x \in CallsOf(q) /\ IsOpen(x)
      <4>1. x # c
        BY <1>2, <1>3, <2>2, <3>2 DEF CallsOf
      <4> QED  BY <1>1, <1>3, <3>2, <4>1 DEF CallsOf, IsOpen, Waits
    <3> QED  BY <1>5, <3>1, <3>2 DEF HasOpenWork, CallsOf, IsOpen
  <2> QED  BY <2>1, <2>2
<1>6. LifeStep(c)
  <2>1. ~HasOpenWork(c)'
    BY <1>4, <1>5
  <2>2. Lifecycle!Create(c)
    BY <1>2, <1>3, <1>4, <2>1 DEF Lifecycle!Create
  <2> QED  BY <2>2 DEF LifeStep
<1>7. ASSUME NEW q \in RunIds \ {c} PROVE LifeStep(q)
  BY <1>3, <1>5, SteadyIsLifeStep DEF Steady
<1> QED  BY <1>6, <1>7

\* A pending run starts with an event at its entry.
LEMMA InitializeRunSteps ==
    ASSUME SubRunsInv, NEW r \in RunIds, InitializeRun(r)
    PROVE  \A q \in RunIds : LifeStep(q)
<1>1. run[r] \in RunRows /\ run[r].state = "pending" /\ run[r].result = ""
  BY DEF InitializeRun, SubRunsInv, TypeOK, RunSide, ResultAtEnd
<1>2. /\ call' = call /\ \A q \in RunIds \ {r} : run'[q] = run[q]
      /\ run'[r] = [run[r] EXCEPT !.state = "started", !.work = "open"]
  BY InitializeRows DEF SubRunsInv
<1>3. /\ run'[r].state = "started" /\ run'[r].work = "open" /\ run'[r].result = ""
      /\ run'[r].parent = run[r].parent
  BY <1>1, <1>2 DEF RunRows
<1>4. LifeStep(r)
  <2>1. HasOpenWork(r)'
    BY <1>3 DEF HasOpenWork
  <2>2. Lifecycle!Initialize(r)
    BY <1>1, <1>3, <2>1 DEF Lifecycle!Initialize
  <2> QED  BY <2>2 DEF LifeStep
<1>5. NoCallAdded
  BY <1>1, <1>2, <1>3 DEF NoCallAdded, Exists, IsOpen, Waits
<1>6. ASSUME NEW q \in RunIds \ {r} PROVE LifeStep(q)
  <2>1. run'[q].work = "open" => HasOpenWork(q)
    BY <1>2 DEF HasOpenWork
  <2> QED  BY <1>2, <1>5, <2>1, RowStaysSteady, SteadyIsLifeStep
<1> QED  BY <1>4, <1>6

\* A run ends idle, and its callback resumes a run that was waiting for it.
LEMMA EndSteps ==
    ASSUME SubRunsInv, NEW r \in RunIds, NEW result \in Results, CanEnd(r, result), Ends(r, result)
    PROVE  \A q \in RunIds : LifeStep(q)
<1>0. TypeOK /\ TreeInv /\ CallInv /\ run[r] \in RunRows
  BY DEF SubRunsInv, CallSide, TypeOK
<1>1. /\ run[r].state \in Unfinished /\ ~HasOpenWork(r)
      /\ \/ run[r].state = "pending" /\ result = "failed"
         \/ /\ run[r].state \in {"started", "cancelling"}
            /\ run[r].state = "cancelling" => result = "cancelled"
  BY DEF CanEnd, Unfinished
<1>2. /\ \A q \in RunIds \ {r} : run'[q].state = run[q].state /\ run'[q].result = run[q].result
      /\ \A q \in RunIds : RunMoves(q)
      /\ run'[r].state = "finished" /\ run'[r].result = result /\ run'[r].work = run[r].work
  BY <1>0, <1>1, FinishMoves DEF Ends, Kept
<1>3. NoCallAdded
  <2>1. ASSUME NEW c \in RunIds, IsOpen(c)' PROVE IsOpen(c)
    <3>1. CASE c = r
      BY <2>1, <3>1 DEF Ends, IsOpen, Waits
    <3>2. CASE c # r
      BY <2>1, <3>2 DEF Ends, IsOpen, Waits
    <3> QED  BY <3>1, <3>2
  <2>2. ASSUME NEW c \in RunIds, Exists(c)'
        PROVE  Exists(c) /\ run'[c].parent = run[c].parent
    BY <1>2, <2>2 DEF RunMoves, Exists
  <2> QED  BY <2>1, <2>2 DEF NoCallAdded
<1>4. ASSUME NEW q \in RunIds, run'[q].work = "open" PROVE HasOpenWork(q)
  <2>1. CASE q \in Resumed(r) /\ q # r
    <3>1. r \in CallsOf(q) /\ Waits(r)
      BY <1>1, <2>1 DEF Resumed, CallsOf, Unfinished
    <3> QED  BY <3>1 DEF HasOpenWork, CallsOf
  <2>2. CASE q = r
    BY <1>2, <1>4, <2>2 DEF HasOpenWork
  <2>3. CASE q \notin Resumed(r) /\ q # r
    <3>1. run'[q] = run[q]
      BY <2>3 DEF Ends
    <3> QED  BY <1>4, <3>1 DEF HasOpenWork
  <2> QED  BY <2>1, <2>2, <2>3
<1>5. ~HasOpenWork(r)'
  BY <1>1, <1>3, <1>4, WorkIsOld
<1>6. LifeStep(r)
  <2>1. result # "" /\ result \in {"passed", "failed", "cancelled"}
    BY DEF Results
  <2>2. CASE run[r].state = "pending"
    <3>1. Lifecycle!Initialize(r)
      BY <1>1, <1>2, <1>5, <2>1, <2>2 DEF Lifecycle!Initialize
    <3> QED  BY <3>1 DEF LifeStep
  <2>3. CASE run[r].state # "pending"
    <3>1. Lifecycle!Finish(r)
      BY <1>1, <1>2, <1>5, <2>1, <2>3 DEF Lifecycle!Finish
    <3> QED  BY <3>1 DEF LifeStep
  <2> QED  BY <2>2, <2>3
<1>7. ASSUME NEW q \in RunIds \ {r} PROVE LifeStep(q)
  BY <1>2, <1>3, <1>4, RowStaysSteady, SteadyIsLifeStep
<1> QED  BY <1>6, <1>7

\* Cancelling a run closes none of its calls and opens none.
LEMMA CancelRunSteps ==
    ASSUME SubRunsInv, NEW r \in RunIds, CancelRun(r)
    PROVE  \A q \in RunIds : LifeStep(q)
<1>0. TypeOK
  BY DEF SubRunsInv
<1>1. /\ call' = Drained(r) /\ \A q \in RunIds \ {r} : run'[q] = run[q]
  BY <1>0, CancelRunRows
<1>2. /\ run'[r].state = "cancelling" /\ run'[r].result = run[r].result
      /\ run'[r].work = run[r].work /\ run'[r].parent = run[r].parent
      /\ run[r].state \in Unfinished
  BY <1>0, CancelRunMoves DEF RunMoves
<1>3. NoCallAdded
  <2>1. \A c \in RunIds : call'[c].state = call[c].state \/ Waits(c)
    BY <1>0, <1>1, DrainedRows
  <2> QED  BY <1>0, <1>1, <1>2, <2>1 DEF NoCallAdded, Exists, IsOpen, Waits, Unfinished
<1>4. \A q \in RunIds : run'[q].work = "open" => HasOpenWork(q)
  BY <1>1, <1>2 DEF HasOpenWork
<1>5. LifeStep(r)
  BY <1>2, <1>3, <1>4, WorkIsOld, CancelIsLifeStep
<1>6. ASSUME NEW q \in RunIds \ {r} PROVE LifeStep(q)
  BY <1>1, <1>3, <1>4, RowStaysSteady, SteadyIsLifeStep
<1> QED  BY <1>5, <1>6

(* The states of the calls after a call is terminated, or has timed out. *)
LEMMA ChildCallStates ==
    ASSUME TypeOK, NEW c \in RunIds, Terminate(c) \/ Timeout(c)
    PROVE  /\ run' = ChildCancelled(c) /\ ending' = ending
           /\ \A q \in RunIds : call'[q].channel = call[q].channel
           /\ \A q \in RunIds \ {c} :
                /\ call'[q].state = IF /\ run[c].state \in Unfinished
                                       /\ run[q].state # "none" /\ run[q].parent = c /\ Waits(q)
                                    THEN "cancelling" ELSE call[q].state
                /\ q \in lost' <=> q \in lost
           /\ \A q \in hook' : q \in hook
           /\ \/ call[c].state = "cancelling" /\ call'[c].state = "finished" /\ c \notin lost'
              \/ /\ c \in hook /\ call[c].state = "finished" /\ call'[c].state = "finished"
                 /\ c \in lost' <=> c \in lost
              \/ /\ c \in hook /\ call[c].state # "finished" /\ call'[c].state = "started"
                 /\ call[c].state # "cancelling" => (c \in lost' <=> c \in lost)
                 /\ call[c].state = "cancelling" => c \in lost'
<1>1. \A q \in RunIds : ChildDrained(c)[q].state =
                           IF /\ run[c].state \in Unfinished
                              /\ run[q].state # "none" /\ run[q].parent = c /\ Waits(q)
                           THEN "cancelling" ELSE call[q].state
  BY ChildRows
<1>2. CASE Terminate(c)
  <2>1. call[c].state = "cancelling"
    BY <1>2 DEF Terminate
  <2>2. /\ run' = ChildCancelled(c) /\ lost' = lost \ {c} /\ UNCHANGED <<hook, ending>>
        /\ \A q \in RunIds :
             /\ call'[q].channel = call[q].channel
             /\ call'[q].state = IF q = c THEN "finished" ELSE ChildDrained(c)[q].state
    BY <1>2, TerminateRows
  <2> QED  BY <1>1, <2>1, <2>2
<1>3. CASE Timeout(c)
  <2>1. c \in hook
    BY <1>3 DEF Timeout
  <2>2. /\ run' = ChildCancelled(c)
        /\ lost' = IF call[c].state = "cancelling" THEN lost \cup {c} ELSE lost
        /\ hook' = hook \ {c} /\ ending' = ending
        /\ \A q \in RunIds :
             /\ call'[q].channel = call[q].channel
             /\ call'[q].state = IF q = c /\ call[c].state # "finished" THEN "started"
                                 ELSE ChildDrained(c)[q].state
    BY <1>3, TimeoutRows
  <2>3. call[c].state = "finished" => call'[c].state = "finished"
    BY <1>1, <2>2 DEF Waits
  <2> QED  BY <1>1, <2>1, <2>2, <2>3
<1> QED  BY <1>2, <1>3

\* A call that ends or times out cancels its run, and its caller was busy with it.
LEMMA ChildSteps ==
    ASSUME SubRunsInv, NEW c \in RunIds, Terminate(c) \/ Timeout(c)
    PROVE  \A q \in RunIds : LifeStep(q)
<1>0. TypeOK /\ CallInv /\ call[c] \in CallRows
  BY DEF SubRunsInv, CallSide, TypeOK
<1>1. \A q \in RunIds :
         /\ RunMoves(q) /\ run'[q].result = run[q].result /\ run'[q].work = run[q].work
         /\ run'[q].state = IF q = c /\ run[c].state \in Unfinished
                            THEN "cancelling" ELSE run[q].state
  BY <1>0, ChildCallStates, ChildMoves
<1>2. NoCallAdded
  <2>1. ASSUME NEW q \in RunIds \ {c} PROVE IsOpen(q)' => IsOpen(q)
    <3>1. call'[q].state = call[q].state \/ Waits(q)
      BY <1>0, ChildCallStates
    <3> QED  BY <3>1 DEF IsOpen, Waits
  <2>2. IsOpen(c)' => IsOpen(c)
    <3>1. \/ call'[c].state = "finished"
          \/ c \in hook /\ call[c].state # "finished"
      BY <1>0, ChildCallStates
    <3>2. c \in hook => call[c].state # "none"
      BY <1>0 DEF CallInv
    <3> QED  BY <1>0, <3>1, <3>2 DEF IsOpen, Waits, CallRows
  <2> QED  BY <1>1, <2>1, <2>2 DEF NoCallAdded, RunMoves, Exists
<1>3. \A q \in RunIds : run'[q].work = "open" => HasOpenWork(q)
  BY <1>1 DEF HasOpenWork
<1>4. ASSUME NEW q \in RunIds PROVE LifeStep(q)
  <2>1. CASE q = c /\ run[c].state \in Unfinished
    BY <1>1, <1>2, <1>3, <2>1, WorkIsOld, CancelIsLifeStep
  <2>2. CASE ~(q = c /\ run[c].state \in Unfinished)
    BY <1>1, <1>2, <1>3, <2>2, RowStaysSteady, SteadyIsLifeStep
  <2> QED  BY <2>1, <2>2
<1> QED  BY <1>4

\* The other actions leave states and results alone and open nothing.
LEMMA QuietSteps ==
    ASSUME SubRunsInv, RunsStay, CallsStay
    PROVE  \A q \in RunIds : LifeStep(q)
<1>1. NoCallAdded
  <2>1. ASSUME NEW c \in RunIds, IsOpen(c)' PROVE IsOpen(c)
    BY <2>1 DEF CallsStay, IsOpen, Waits
  <2>2. ASSUME NEW c \in RunIds, Exists(c)'
        PROVE  Exists(c) /\ run'[c].parent = run[c].parent
    BY <2>2 DEF RunsStay, RunMoves, Exists
  <2> QED  BY <2>1, <2>2 DEF NoCallAdded
<1>2. \A q \in RunIds : run'[q].work = "open" => HasOpenWork(q)
  BY DEF RunsStay, HasOpenWork
<1>3. \A q \in RunIds : run'[q].state = run[q].state /\ run'[q].result = run[q].result
  BY DEF RunsStay, Kept
<1> QED  BY <1>1, <1>2, <1>3, RowStaysSteady, SteadyIsLifeStep

(***************************************************************************)
(* A step in which all runs live on, and which leaves every end under way  *)
(* as it was, or begins one of a run that can end.                         *)
(***************************************************************************)
LEMMA LifeKeepsRuns ==
    ASSUME SubRunsInv, TypeOK', \A q \in RunIds : LifeStep(q),
           \A q \in RunIds : ~Free(q)' =>
               /\ run'[q].state = run[q].state /\ IsOpen(q)'
               /\ \/ ~Free(q) /\ ending'[q] = ending[q]
                  \/ CanEnd(q, ending'[q])
    PROVE  RunSide'
<1>0. \A q \in RunIds : run[q].result \in Results \cup {""} /\ run'[q].result \in Results \cup {""}
  BY DEF SubRunsInv, TypeOK, RunRows
<1>1. RunSide
  BY DEF SubRunsInv
<1>2. ResultAtEnd'
  <2> SUFFICES ASSUME NEW q \in RunIds, run'[q].state # "finished" PROVE run'[q].result = ""
    BY DEF ResultAtEnd
  <2>1. CASE Lifecycle!Same(q) \/ Lifecycle!Work(q) \/ Lifecycle!Cancel(q)
    BY <1>0, <1>1, <2>1 DEF RunSide, ResultAtEnd, Results, Lifecycle!Same, Lifecycle!Work,
                            Lifecycle!Cancel
  <2>2. CASE Lifecycle!Create(q) \/ Lifecycle!Initialize(q) \/ Lifecycle!Finish(q)
    BY <1>0, <2>2 DEF Results, Lifecycle!Create, Lifecycle!Initialize, Lifecycle!Finish
  <2> QED  BY <2>1, <2>2 DEF LifeStep
<1>3. EndInv'
  BY <1>1 DEF RunSide, EndInv, CanEnd
<1>4. IdleInv'
  <2> SUFFICES ASSUME NEW q \in RunIds,
                      run'[q].state \in {"none", "pending", "finished"} \/ ~Free(q)'
               PROVE  ~HasOpenWork(q)'
    BY DEF IdleInv
  <2>1. CASE Lifecycle!Same(q)
    <3>1. ~HasOpenWork(q)
      BY <1>1, <2>1 DEF RunSide, IdleInv, CanEnd, Lifecycle!Same
    <3> QED  BY <2>1, <3>1 DEF Lifecycle!Same
  <2>2. CASE ~Free(q)' /\ ~Lifecycle!Same(q)
    <3>1. ~HasOpenWork(q) /\ run'[q].state = run[q].state
      BY <1>1, <2>2 DEF RunSide, IdleInv, CanEnd
    <3> QED  BY <2>2, <3>1 DEF LifeStep, Lifecycle!Create, Lifecycle!Initialize,
                      Lifecycle!Work, Lifecycle!Cancel, Lifecycle!Finish
  <2>3. CASE run'[q].state \in {"none", "pending", "finished"} /\ ~Lifecycle!Same(q)
    BY <2>3 DEF LifeStep, Lifecycle!Create, Lifecycle!Initialize,
                Lifecycle!Work, Lifecycle!Cancel, Lifecycle!Finish
  <2> QED  BY <2>1, <2>2, <2>3
<1> QED  BY <1>2, <1>3, <1>4 DEF RunSide

-----------------------------------------------------------------------------
(* Calls. *)

(* A call that is read by a hook, or lost, is one that was made. *)
LEMMA CallIsMade ==
    ASSUME TypeOK, TreeInv, CallInv, NEW c \in RunIds, call[c].state # "none"
    PROVE  /\ Exists(c) /\ ~IsRoot(c)
           /\ run[c].parent \in RunIds /\ run[c].parent # c
  BY ParentIsOther DEF CallInv

(***************************************************************************)
(* Cancelling a run, by a user or as a child: the calls it waits for are   *)
(* cancelled with it.                                                      *)
(***************************************************************************)
CancelsRun(r) ==
    /\ \A q \in RunIds : /\ run'[q].parent = run[q].parent
                         /\ run'[q].result = run[q].result
                         /\ run'[q].state = IF q = r THEN "cancelling" ELSE run[q].state
    /\ run[r].state \in Unfinished
    /\ \A q \in RunIds : run[q].state # "none" /\ run[q].parent = r => ~Waits(q)'

(* What such a step, or one that no run takes part in, may do to a call. *)
CallMoves(q) ==
    /\ call'[q].channel = call[q].channel
    /\ Waits(q)' => \/ Waits(q) /\ (q \in lost' <=> q \in lost)
                    \/ q \in lost' /\ run'[q].state \in {"cancelling", "finished"}
    /\ call'[q].state = "none" <=> call[q].state = "none"
    /\ call'[q].state = "finished" =>
         call[q].state = "finished" \/ run'[q].state \in {"cancelling", "finished"}
    /\ q \in hook' \cup lost' => call[q].state # "none"

\* A cancelled call keeps what is known of the others.
LEMMA CancelKeepsCalls ==
    ASSUME TypeOK, TreeInv, CallSide, NEW r \in RunIds,
           \/ CancelsRun(r)
           \/ \A q \in RunIds : /\ run'[q].parent = run[q].parent
                                /\ run'[q].state = run[q].state /\ run'[q].result = run[q].result,
           \A q \in RunIds : CallMoves(q)
    PROVE  CallSide'
<1>0. /\ CallInv /\ NoMissedCallback /\ CallReportsRun /\ NoRunLeftBehind
  BY DEF CallSide
<1>1. \A q \in RunIds :
        /\ run'[q].parent = run[q].parent /\ run'[q].result = run[q].result
        /\ \/ run'[q].state = run[q].state
           \/ q = r /\ run'[q].state = "cancelling" /\ run[q].state \in Unfinished
  BY DEF CancelsRun
<1>2. \A q \in RunIds : (run'[q].state = "none" <=> run[q].state = "none")
                        /\ (run'[q].state = "finished" <=> run[q].state = "finished")
  BY <1>1 DEF Unfinished
<1>3. CallInv'
  <2>1. ASSUME NEW c \in RunIds PROVE (call'[c].state # "none" <=> Exists(c)' /\ ~IsRoot(c)')
    BY <1>0, <1>1, <1>2 DEF CallInv, Exists, IsRoot, CallMoves
  <2>2. ASSUME NEW c \in RunIds, call'[c].state = "finished"
        PROVE  run'[c].state \in {"cancelling", "finished"}
    BY <1>0, <1>1, <2>2 DEF CallInv, CallMoves
  <2>3. ASSUME NEW c \in RunIds PROVE c \in hook' \cup lost' => call'[c].state # "none"
    BY DEF CallMoves
  <2> QED  BY <2>1, <2>2, <2>3 DEF CallInv
<1>4. NoMissedCallback'
  <2> SUFFICES ASSUME NEW c \in RunIds, Waits(c)'
               PROVE  IF c \in lost'
                      THEN run'[c].state \in {"cancelling", "finished"}
                      ELSE run'[c].state \in Unfinished /\ run'[run'[c].parent].state = "started"
    BY DEF NoMissedCallback
  <2>1. CASE c \in lost' /\ run'[c].state \in {"cancelling", "finished"}
    BY <2>1
  <2>2. CASE Waits(c) /\ c \in lost /\ c \in lost'
    BY <1>0, <1>1, <2>2 DEF NoMissedCallback
  <2>3. CASE Waits(c) /\ c \notin lost /\ c \notin lost'
    <3>1. run[c].state \in Unfinished /\ run[run[c].parent].state = "started"
      BY <1>0, <2>3 DEF NoMissedCallback
    <3>2. run[c].parent \in RunIds
      BY <1>0, <2>3, CallIsMade DEF Waits
    <3>3. run'[c].state \in Unfinished
      <4>1. run'[c].state = run[c].state \/ run'[c].state = "cancelling"
        BY <1>1
      <4> QED  BY <3>1, <4>1 DEF Unfinished
    <3>4. run'[run[c].parent].state = "started"
      <4>1. CASE CancelsRun(r)
        <5>1. run[c].state # "none"
          BY <3>1 DEF Unfinished
        <5>2. run[c].parent # r
          BY <4>1, <5>1 DEF CancelsRun
        <5> QED  BY <3>1, <3>2, <4>1, <5>2 DEF CancelsRun
      <4>2. CASE \A q \in RunIds : run'[q].state = run[q].state
        BY <3>1, <3>2, <4>2
      <4> QED  BY <4>1, <4>2
    <3> QED  BY <1>1, <2>3, <3>3, <3>4
  <2> QED  BY <2>1, <2>2, <2>3 DEF CallMoves
<1>5. CallReportsRun'
  <2>1. ASSUME NEW c \in RunIds, call'[c].channel # ""
        PROVE  run'[c].state = "finished" /\ (call'[c].channel = "passed" <=> run'[c].result = "passed")
    <3>1. /\ call'[c].channel = call[c].channel /\ run'[c].result = run[c].result
          /\ run[c].state = "finished" => run'[c].state = "finished"
      BY <1>1, <1>2 DEF CallMoves
    <3>2. run[c].state = "finished" /\ (call[c].channel = "passed" <=> run[c].result = "passed")
      BY <1>0, <2>1, <3>1 DEF CallReportsRun
    <3> QED  BY <3>1, <3>2
  <2> QED  BY <2>1 DEF CallReportsRun
<1>6. NoRunLeftBehind'
  <2>1. ASSUME NEW q \in RunIds, run'[q].state = "finished", NEW c \in RunIds,
               run'[c].state # "none", run'[c].parent = q
        PROVE  run'[c].state \in {"cancelling", "finished"}
    <3>1. run[q].state = "finished" /\ run[c].state # "none" /\ run[c].parent = q
      BY <1>1, <1>2, <2>1
    <3>2. run[c].state \in {"cancelling", "finished"}
      BY <1>0, <3>1 DEF NoRunLeftBehind, CallsOf
    <3> QED  BY <1>1, <3>2
  <2> QED  BY <2>1 DEF NoRunLeftBehind, CallsOf
<1> QED  BY <1>3, <1>4, <1>5, <1>6 DEF CallSide

\* Steps that leave the states of runs alone: calls may start to be cancelled.
LEMMA QuietKeepsCalls ==
    ASSUME TypeOK, TreeInv, CallSide, Quiet
    PROVE  CallSide'
<1>1. \A q \in RunIds : /\ run'[q].parent = run[q].parent
                        /\ run'[q].state = run[q].state /\ run'[q].result = run[q].result
  BY DEF Quiet, RunsStay, RunMoves, Kept
<1>2. ASSUME NEW q \in RunIds PROVE CallMoves(q)
  <2>1. q \in hook' \cup lost' => call[q].state # "none"
    BY DEF Quiet, CallSide, CallInv, Waits
  <2> QED  BY <2>1 DEF Quiet, CallsStay, CallMoves, Waits
<1>3. CASE RunIds = {}
  BY <1>3 DEF CallSide, CallInv, NoMissedCallback, CallReportsRun, NoRunLeftBehind
<1>4. CASE RunIds # {}
  <2>1. PICK r \in RunIds : TRUE
    BY <1>4
  <2> QED  BY <1>1, <1>2, CancelKeepsCalls
<1> QED  BY <1>3, <1>4

\* A run that a user cancels.
LEMMA CancelRunKeepsCalls ==
    ASSUME TypeOK, TreeInv, CallSide, NEW r \in RunIds, CancelRun(r)
    PROVE  CallSide'
<1>1. /\ \A q \in RunIds : RunMoves(q)
      /\ \A q \in RunIds \ {r} : Kept(q)
      /\ run[r].state \in Unfinished /\ run'[r].state = "cancelling"
      /\ run'[r].result = run[r].result
  BY CancelRunMoves
<1>2. /\ UNCHANGED <<hook, lost>>
      /\ \A c \in RunIds :
         /\ call'[c].channel = call[c].channel
         /\ call'[c].state = IF run[c].state # "none" /\ run[c].parent = r /\ Waits(c)
                             THEN "cancelling" ELSE call[c].state
  <2>1. call' = Drained(r) /\ UNCHANGED <<hook, lost>>
    BY CancelRunRows
  <2> QED  BY <2>1, DrainedRows
<1>3. CancelsRun(r)
  BY <1>1, <1>2 DEF CancelsRun, RunMoves, Kept, Waits
<1>4. \A q \in RunIds : CallMoves(q)
  BY <1>2 DEF CallMoves, Waits, CallSide, CallInv
<1> QED  BY <1>3, <1>4, CancelKeepsCalls

(* Terminate and Timeout end or keep the call itself, and cancel its run. *)
LEMMA ChildKeepsCalls ==
    ASSUME TypeOK, TreeInv, CallSide, NEW c \in RunIds, Terminate(c) \/ Timeout(c)
    PROVE  CallSide'
<1>0. CallInv
  BY DEF CallSide
<1>1. \A q \in RunIds :
         /\ run'[q].parent = run[q].parent /\ run'[q].result = run[q].result
         /\ run'[q].state = IF q = c /\ run[c].state \in Unfinished
                            THEN "cancelling" ELSE run[q].state
  BY ChildCallStates, ChildMoves DEF RunMoves
<1>2. call[c].state # "none"
  BY <1>0, ChildCallStates DEF CallInv
<1>3. Exists(c) /\ run[c].parent # c
  BY <1>0, <1>2, CallIsMade
<1>4. run'[c].state \in {"cancelling", "finished"}
  <2>1. run[c] \in RunRows
    BY DEF TypeOK
  <2> QED  BY <1>1, <1>3, <2>1 DEF RunRows, Exists
<1>5. CallMoves(c)
  <2>1. \A q \in hook' : q \in hook
    BY ChildCallStates
  <2>2. CASE call[c].state = "cancelling" /\ call'[c].state = "finished" /\ c \notin lost'
    BY <1>2, <1>4, <2>2, ChildCallStates DEF CallMoves, Waits
  <2>3. CASE /\ call[c].state = "finished" /\ call'[c].state = "finished"
             /\ c \in lost' <=> c \in lost
    BY <1>2, <1>4, <2>3, ChildCallStates DEF CallMoves, Waits
  <2>4. CASE /\ call[c].state # "finished" /\ call'[c].state = "started"
             /\ call[c].state # "cancelling" => (c \in lost' <=> c \in lost)
             /\ call[c].state = "cancelling" => c \in lost'
    <3>1. call[c] \in CallRows
      BY DEF TypeOK
    <3>2. Waits(c) \/ call[c].state = "cancelling"
      BY <1>2, <2>4, <3>1 DEF CallRows, Waits
    <3>3. call'[c].channel = call[c].channel
      BY ChildCallStates
    <3> QED  BY <1>2, <1>4, <2>4, <3>2, <3>3 DEF CallMoves, Waits
  <2> QED  BY <2>2, <2>3, <2>4, ChildCallStates
<1>6. ASSUME NEW q \in RunIds \ {c} PROVE CallMoves(q)
  <2>1. /\ call'[q].channel = call[q].channel
        /\ call'[q].state = call[q].state \/ (Waits(q) /\ call'[q].state = "cancelling")
        /\ (q \in lost' <=> q \in lost) /\ (q \in hook' => q \in hook)
    <3>1. /\ call'[q].channel = call[q].channel
          /\ call'[q].state = IF /\ run[c].state \in Unfinished
                                 /\ run[q].state # "none" /\ run[q].parent = c /\ Waits(q)
                              THEN "cancelling" ELSE call[q].state
      BY ChildCallStates
    <3>2. q \in lost' <=> q \in lost
      BY ChildCallStates
    <3>3. q \in hook' => q \in hook
      BY ChildCallStates
    <3> QED  BY <3>1, <3>2, <3>3
  <2>2. q \in hook' \cup lost' => call[q].state # "none"
    BY <1>0, <2>1 DEF CallInv
  <2> QED  BY <2>1, <2>2 DEF CallMoves, Waits
<1>7. CASE run[c].state \in Unfinished
  <2>1. ASSUME NEW q \in RunIds, run[q].state # "none", run[q].parent = c PROVE ~Waits(q)'
    <3>1. q # c
      BY <1>3, <2>1
    <3>2. call'[q].state = IF Waits(q) THEN "cancelling" ELSE call[q].state
      BY <1>7, <2>1, <3>1, ChildCallStates
    <3> QED  BY <3>2 DEF Waits
  <2>2. CancelsRun(c)
    BY <1>1, <1>7, <2>1 DEF CancelsRun
  <2> QED  BY <1>5, <1>6, <2>2, CancelKeepsCalls
<1>8. CASE run[c].state \notin Unfinished
  <2>1. \A q \in RunIds : /\ run'[q].parent = run[q].parent
                          /\ run'[q].state = run[q].state /\ run'[q].result = run[q].result
    BY <1>1, <1>8
  <2> QED  BY <1>5, <1>6, <2>1, CancelKeepsCalls
<1> QED  BY <1>7, <1>8

\* A run that starts was pending: nobody waits for it to go on, and it calls nobody.
LEMMA InitializeKeepsCalls ==
    ASSUME TypeOK, TreeInv, CallSide, NEW r \in RunIds, InitializeRun(r)
    PROVE  CallSide'
<1>0. /\ CallInv /\ NoMissedCallback /\ CallReportsRun /\ NoRunLeftBehind
  BY DEF CallSide
<1>1. call' = call /\ UNCHANGED <<hook, lost>>
  BY InitializeRows
<1>2. /\ \A q \in RunIds : RunMoves(q)
      /\ \A q \in RunIds \ {r} : Kept(q)
      /\ run[r].state = "pending" /\ run'[r].state = "started"
  BY InitializeMoves
<1>3. /\ \A q \in RunIds : run'[q].parent = run[q].parent
      /\ \A q \in RunIds \ {r} : run'[q].state = run[q].state /\ run'[q].result = run[q].result
  BY <1>2 DEF RunMoves, Kept
<1>4. CallInv'
  BY <1>0, <1>1, <1>2, <1>3 DEF CallInv, Exists, IsRoot
<1>5. NoMissedCallback'
  <2>1. ASSUME NEW c \in RunIds, Waits(c)'
        PROVE  IF c \in lost'
               THEN run'[c].state \in {"cancelling", "finished"}
               ELSE run'[c].state \in Unfinished /\ run'[run'[c].parent].state = "started"
    <3>1. /\ Waits(c)
          /\ IF c \in lost
             THEN run[c].state \in {"cancelling", "finished"}
             ELSE run[c].state \in Unfinished /\ run[run[c].parent].state = "started"
      BY <1>0, <1>1, <2>1 DEF NoMissedCallback, Waits
    <3>2. run[c].parent \in RunIds
      BY <1>0, <3>1, CallIsMade DEF Waits
    <3> QED  BY <1>1, <1>2, <1>3, <3>1, <3>2 DEF Unfinished
  <2> QED  BY <2>1 DEF NoMissedCallback
<1>6. CallReportsRun'
  BY <1>0, <1>1, <1>2, <1>3 DEF CallReportsRun
<1>7. NoRunLeftBehind'
  BY <1>0, <1>1, <1>2, <1>3 DEF NoRunLeftBehind, CallsOf
<1> QED  BY <1>4, <1>5, <1>6, <1>7 DEF CallSide

(***************************************************************************)
(* A run that ends leaves no call that waits, but for one that was         *)
(* cancelled since: the calls it made have ended, and its own is told.     *)
(***************************************************************************)
LEMMA EndKeepsCalls ==
    ASSUME TypeOK, TreeInv, CallSide, NEW r \in RunIds, NEW result \in Results,
           CanEnd(r, result), Ends(r, result)
    PROVE  CallSide'
<1>0. /\ CallInv /\ NoMissedCallback /\ CallReportsRun /\ NoRunLeftBehind
  BY DEF CallSide
<1>1. /\ run[r].state \in Unfinished /\ run[r].state # "none" /\ run[r].state # "finished"
      /\ call[r].channel = ""
  BY <1>0 DEF CanEnd, Unfinished, CallReportsRun
<1>2. /\ \A q \in RunIds : RunMoves(q)
      /\ \A q \in RunIds \ {r} : Kept(q)
      /\ run'[r].state = "finished" /\ run'[r].result = result
  BY <1>0, <1>1, FinishMoves DEF Ends
<1>3. /\ \A q \in RunIds : run'[q].parent = run[q].parent
      /\ \A q \in RunIds \ {r} : run'[q].state = run[q].state /\ run'[q].result = run[q].result
  BY <1>2 DEF RunMoves, Kept
<1>4. /\ hook' = hook
      /\ \A c \in RunIds \ {r} : call'[c] = call[c] /\ (c \in lost' <=> c \in lost)
      /\ \/ /\ call'[r].state = "finished" /\ r \notin lost'
            /\ call'[r].channel = IF result = "passed" THEN "passed" ELSE "failed"
         \/ call'[r].state = "started" /\ r \in lost' /\ call'[r].channel = ""
         \/ ~Waits(r) /\ call'[r] = call[r] /\ (r \in lost' <=> r \in lost)
      /\ call'[r] = call[r] \/ IsOpen(r)
  BY <1>1 DEF Ends, IsOpen
<1>5. ASSUME NEW c \in RunIds, run[c].state # "none", run[c].parent = r
      PROVE  ~Waits(c) /\ call[c].state = "finished" /\ c # r
  <2>1. ~IsRoot(c)
    BY <1>5, NoParentIsNoRun DEF IsRoot
  <2>2. call[c].state # "none" /\ call[c] \in CallRows /\ c # r
    BY <1>0, <1>5, <2>1, ParentIsOther DEF CallInv, Exists, TypeOK
  <2>3. ~Waits(c) /\ call[c].state # "cancelling"
    BY <1>5 DEF CanEnd, HasOpenWork, CallsOf
  <2> QED  BY <2>2, <2>3 DEF CallRows, Waits
<1>6. CallInv'
  <2>1. ASSUME NEW c \in RunIds \ {r}
        PROVE /\ call'[c].state # "none" <=> Exists(c)' /\ ~IsRoot(c)'
              /\ call'[c].state = "finished" => run'[c].state \in {"cancelling", "finished"}
              /\ c \in hook' \cup lost' => call'[c].state # "none"
    BY <1>0, <1>3, <1>4 DEF CallInv, Exists, IsRoot
  <2>2. call'[r].state # "none" <=> call[r].state # "none"
    BY <1>4 DEF IsOpen, Waits
  <2>3. /\ call'[r].state # "none" <=> Exists(r)' /\ ~IsRoot(r)'
        /\ call'[r].state = "finished" => run'[r].state \in {"cancelling", "finished"}
        /\ r \in hook' \cup lost' => call'[r].state # "none"
    BY <1>0, <1>1, <1>2, <1>3, <1>4, <2>2 DEF CallInv, Exists, IsRoot
  <2> QED  BY <2>1, <2>3 DEF CallInv
<1>7. NoMissedCallback'
  <2> SUFFICES ASSUME NEW c \in RunIds, Waits(c)'
               PROVE  IF c \in lost'
                      THEN run'[c].state \in {"cancelling", "finished"}
                      ELSE run'[c].state \in Unfinished /\ run'[run'[c].parent].state = "started"
    BY DEF NoMissedCallback
  <2>1. CASE c = r
    BY <1>2, <1>4, <2>1 DEF Waits
  <2>2. CASE c # r
    <3>1. Waits(c) /\ (c \in lost' <=> c \in lost)
      BY <1>4, <2>2 DEF Waits
    <3>2. run[c].parent \in RunIds /\ run[c].state # "none" /\ run[c].parent # r
      BY <1>0, <1>5, <3>1, CallIsMade DEF Waits, Exists
    <3> QED  BY <1>0, <1>3, <2>2, <3>1, <3>2 DEF NoMissedCallback
  <2> QED  BY <2>1, <2>2
<1>8. CallReportsRun'
  <2>1. ASSUME NEW c \in RunIds \ {r}, call'[c].channel # ""
        PROVE  run'[c].state = "finished" /\ (call'[c].channel = "passed" <=> run'[c].result = "passed")
    BY <1>0, <1>3, <1>4, <2>1 DEF CallReportsRun
  <2>2. call'[r].channel # "" =>
           run'[r].state = "finished" /\ (call'[r].channel = "passed" <=> run'[r].result = "passed")
    BY <1>1, <1>2, <1>4
  <2> QED  BY <2>1, <2>2 DEF CallReportsRun
<1>9. NoRunLeftBehind'
  <2>1. ASSUME NEW q \in RunIds, run'[q].state = "finished", NEW c \in RunIds,
               run'[c].state # "none", run'[c].parent = q
        PROVE  run'[c].state \in {"cancelling", "finished"}
    <3>1. CASE c = r
      BY <1>2, <3>1
    <3>2. CASE c # r /\ q = r
      <4>1. call[c].state = "finished"
        BY <1>3, <1>5, <2>1, <3>2
      <4> QED  BY <1>0, <1>3, <3>2, <4>1 DEF CallInv
    <3>3. CASE c # r /\ q # r
      BY <1>0, <1>3, <2>1, <3>3 DEF NoRunLeftBehind, CallsOf
    <3> QED  BY <3>1, <3>2, <3>3
  <2> QED  BY <2>1 DEF NoRunLeftBehind, CallsOf
<1> QED  BY <1>6, <1>7, <1>8, <1>9 DEF CallSide

(* A new root changes nothing for calls; it was nobody's child or parent. *)
LEMMA StartKeepsCalls ==
    ASSUME TypeOK, TreeInv, CallSide, NEW r \in RunIds, StartRoot(r)
    PROVE  CallSide'
<1>0. /\ CallInv /\ NoMissedCallback /\ CallReportsRun /\ NoRunLeftBehind
  BY DEF CallSide
<1>1. /\ UNCHANGED <<call, hook, lost>> /\ \A q \in RunIds \ {r} : run'[q] = run[q]
      /\ run'[r].state = "started" /\ run'[r].parent = NoParent
  BY StartRows
<1>2. run[r].state = "none" /\ call[r].state = "none" /\ call[r].channel = ""
  BY <1>0 DEF StartRoot, CallInv, Exists, CallReportsRun
<1>3. CallInv'
  BY <1>0, <1>1, <1>2 DEF CallInv, Exists, IsRoot
<1>4. NoMissedCallback'
  <2>1. ASSUME NEW c \in RunIds, Waits(c)'
        PROVE  IF c \in lost'
               THEN run'[c].state \in {"cancelling", "finished"}
               ELSE run'[c].state \in Unfinished /\ run'[run'[c].parent].state = "started"
    <3>1. Waits(c) /\ c # r
      BY <1>1, <1>2, <2>1 DEF Waits
    <3>2. run[c].parent \in RunIds /\ run[c].parent # r
      <4>1. ~IsRoot(c)
        BY <1>0, <3>1, CallIsMade DEF Waits
      <4> QED  BY <1>2, <4>1, ParentIsOther DEF Exists
    <3> QED  BY <1>0, <1>1, <3>1, <3>2 DEF NoMissedCallback
  <2> QED  BY <2>1 DEF NoMissedCallback
<1>5. CallReportsRun'
  BY <1>0, <1>1, <1>2 DEF CallReportsRun
<1>6. NoRunLeftBehind'
  <2>1. ASSUME NEW q \in RunIds, run'[q].state = "finished", NEW c \in RunIds,
               run'[c].state # "none", run'[c].parent = q
        PROVE  run'[c].state \in {"cancelling", "finished"}
    <3>1. c # r /\ q # r
      BY <1>1, <2>1, NoParentIsNoRun
    <3> QED  BY <1>0, <1>1, <2>1, <3>1 DEF NoRunLeftBehind, CallsOf
  <2> QED  BY <2>1 DEF NoRunLeftBehind, CallsOf
<1> QED  BY <1>3, <1>4, <1>5, <1>6 DEF CallSide

(* A new call waits for a run that has not finished, in a run that has started. *)
LEMMA CreateKeepsCalls ==
    ASSUME TypeOK, TreeInv, CallSide, NEW p \in RunIds, NEW c \in RunIds,
           NEW e \in Entries, CreateRun(p, c, e)
    PROVE  CallSide'
<1>0. /\ CallInv /\ NoMissedCallback /\ CallReportsRun /\ NoRunLeftBehind
  BY DEF CallSide
<1>1. run[c].state = "none" /\ run[p].state = "started" /\ p # c
  BY DEF CreateRun, IsFresh, Executes
<1>2. Created(p, c, e) /\ UNCHANGED <<hook, lost>>
  BY CreateRows
<1>3. c \notin lost /\ c \notin hook
  BY <1>0, <1>1 DEF CallInv, Exists
<1>4. CallInv'
  BY <1>0, <1>2, NoParentIsNoRun DEF CallInv, Exists, IsRoot, Created
<1>5. NoMissedCallback'
  <2>1. ASSUME NEW q \in RunIds \ {c}, Waits(q)'
        PROVE  IF q \in lost'
               THEN run'[q].state \in {"cancelling", "finished"}
               ELSE run'[q].state \in Unfinished /\ run'[run'[q].parent].state = "started"
    <3>1. Waits(q)
      BY <1>2, <2>1 DEF Waits, Created
    <3>2. run[q].parent \in RunIds \ {c}
      <4>1. ~IsRoot(q)
        BY <1>0, <3>1, CallIsMade DEF Waits
      <4> QED  BY <1>1, <4>1, ParentIsOther DEF Exists
    <3> QED  BY <1>0, <1>2, <3>1, <3>2 DEF NoMissedCallback, Created
  <2>2. c \notin lost' /\ run'[c].state \in Unfinished /\ run'[run'[c].parent].state = "started"
    BY <1>1, <1>2, <1>3 DEF Created, Unfinished
  <2> QED  BY <2>1, <2>2 DEF NoMissedCallback
<1>6. CallReportsRun'
  BY <1>0, <1>2 DEF CallReportsRun, Created
<1>7. NoRunLeftBehind'
  <2>1. ASSUME NEW q \in RunIds, run'[q].state = "finished", NEW x \in RunIds,
               run'[x].state # "none", run'[x].parent = q
        PROVE  run'[x].state \in {"cancelling", "finished"}
    <3>1. q # c /\ x # c
      BY <1>1, <1>2, <2>1 DEF Created
    <3>2. run'[q] = run[q] /\ run'[x] = run[x]
      BY <1>2, <3>1 DEF Created
    <3> QED  BY <1>0, <2>1, <3>2 DEF NoRunLeftBehind, CallsOf
  <2> QED  BY <2>1 DEF NoRunLeftBehind, CallsOf
<1> QED  BY <1>4, <1>5, <1>6, <1>7 DEF CallSide

-----------------------------------------------------------------------------
(* The invariant. *)

\* Quiet steps keep it: they end nothing and begin no end.
LEMMA QuietInv ==
    ASSUME SubRunsInv, TypeOK', Quiet, ending' = ending
    PROVE  SubRunsInv'
<1>1. TypeOK /\ TreeInv /\ ChainsEnd /\ CallSide
  BY DEF SubRunsInv
<1>2. TreeInv' /\ ChainsEnd'
  <2>1. \A q \in RunIds : RunMoves(q)
    BY DEF Quiet, RunsStay
  <2> QED  BY <1>1, <2>1, MovesKeepTree
<1>3. CallSide'
  BY <1>1, QuietKeepsCalls
<1>4. RunSide'
  <2>1. \A q \in RunIds : LifeStep(q)
    BY QuietSteps DEF Quiet
  <2>2. ASSUME NEW q \in RunIds, ~Free(q)' PROVE ~Free(q) /\ run'[q].state = run[q].state /\ IsOpen(q)'
    <3>1. ~Free(q)
      BY <2>2 DEF Free
    <3>2. IsOpen(q)
      BY <3>1 DEF SubRunsInv, RunSide, EndInv
    <3> QED  BY <3>1, <3>2 DEF Quiet, RunsStay, CallsStay, Kept, IsOpen, Waits
  <2> QED  BY <2>1, <2>2, LifeKeepsRuns
<1> QED  BY <1>2, <1>3, <1>4 DEF SubRunsInv

\* A step that begins no end and leaves the runs that end, and their calls.
LEMMA RunSideKept ==
    ASSUME SubRunsInv, TypeOK', \A q \in RunIds : LifeStep(q), ending' = ending,
           \A q \in RunIds : ~Free(q) => /\ run'[q].state = run[q].state
                                         /\ IsOpen(q) => IsOpen(q)'
    PROVE  RunSide'
<1>1. ASSUME NEW q \in RunIds, ~Free(q)' PROVE ~Free(q) /\ run'[q].state = run[q].state /\ IsOpen(q)'
  <2>1. ~Free(q)
    BY <1>1 DEF Free
  <2>2. IsOpen(q)
    BY <2>1 DEF SubRunsInv, RunSide, EndInv
  <2> QED  BY <2>1, <2>2
<1> QED  BY <1>1, LifeKeepsRuns

\* A run that ends, with its callback or without one.
LEMMA EndsInv ==
    ASSUME SubRunsInv, TypeOK', NEW r \in RunIds, NEW result \in Results,
           CanEnd(r, result), Ends(r, result), Free(r)',
           \A q \in RunIds \ {r} : ending'[q] = ending[q]
    PROVE  SubRunsInv' /\ \A q \in RunIds : LifeStep(q)
<1>1. TypeOK /\ TreeInv /\ ChainsEnd /\ CallSide /\ CallInv
  BY DEF SubRunsInv, CallSide
<1>2. /\ \A q \in RunIds : RunMoves(q)
      /\ \A q \in RunIds \ {r} : Kept(q)
  BY <1>1, FinishMoves DEF CanEnd, Ends
<1>3. TreeInv' /\ ChainsEnd'
  BY <1>1, <1>2, MovesKeepTree
<1>4. CallSide'
  BY <1>1, EndKeepsCalls
<1>5. \A q \in RunIds : LifeStep(q)
  BY EndSteps
<1>6. RunSide'
  <2>1. ASSUME NEW q \in RunIds, ~Free(q)'
        PROVE  ~Free(q) /\ ending'[q] = ending[q] /\ run'[q].state = run[q].state /\ IsOpen(q)'
    <3>1. q # r /\ ~Free(q) /\ ending'[q] = ending[q]
      BY <2>1 DEF Free
    <3>2. IsOpen(q) /\ call'[q] = call[q]
      BY <3>1 DEF SubRunsInv, RunSide, EndInv, Ends
    <3> QED  BY <1>2, <3>1, <3>2 DEF Kept, IsOpen, Waits
  <2> QED  BY <1>5, <2>1, LifeKeepsRuns
<1> QED  BY <1>3, <1>4, <1>5, <1>6 DEF SubRunsInv

\* A run that begins to end, while its callback reads the call, is as it was.
LEMMA EndBeginsInv ==
    ASSUME SubRunsInv, TypeOK', NEW r \in RunIds, NEW result \in Results, CanEnd(r, result),
           UNCHANGED <<run, call, hook, lost>>, ending' = [ending EXCEPT ![r] = result], Waits(r)
    PROVE  SubRunsInv' /\ \A q \in RunIds : LifeStep(q)
<1>1. TypeOK /\ TreeInv /\ ChainsEnd /\ CallSide
  BY DEF SubRunsInv
<1>2. RunsStay /\ CallsStay /\ Quiet
  BY DEF RunsStay, CallsStay, Quiet, RunMoves, Kept
<1>3. TreeInv' /\ ChainsEnd' /\ CallSide'
  BY <1>1, <1>2, MovesKeepTree, QuietKeepsCalls DEF RunsStay
<1>4. \A q \in RunIds : LifeStep(q)
  BY <1>2, QuietSteps
<1>5. RunSide'
  <2>1. ending'[r] = result /\ \A q \in RunIds \ {r} : ending'[q] = ending[q]
    BY <1>1 DEF TypeOK
  <2>2. ASSUME NEW q \in RunIds, ~Free(q)'
        PROVE  /\ run'[q].state = run[q].state /\ IsOpen(q)'
               /\ \/ ~Free(q) /\ ending'[q] = ending[q]
                  \/ CanEnd(q, ending'[q])
    <3>1. CASE q = r
      BY <2>1, <3>1 DEF IsOpen, Waits
    <3>2. CASE q # r
      <4>1. ~Free(q) /\ ending'[q] = ending[q]
        BY <2>1, <2>2, <3>2 DEF Free
      <4> QED  BY <4>1 DEF SubRunsInv, RunSide, EndInv, IsOpen, Waits
    <3> QED  BY <3>1, <3>2
  <2> QED  BY <1>4, <2>2, LifeKeepsRuns
<1> QED  BY <1>3, <1>4, <1>5 DEF SubRunsInv

\* Every action keeps the invariant, and takes every run along its life cycle.
LEMMA StepInv == SubRunsInv /\ [Next]_vars => SubRunsInv' /\ \A q \in RunIds : LifeStep(q)
<1> SUFFICES ASSUME SubRunsInv, [Next]_vars
             PROVE  SubRunsInv' /\ \A q \in RunIds : LifeStep(q)
  OBVIOUS
<1> DEFINE Goal == SubRunsInv' /\ \A q \in RunIds : LifeStep(q)
<1>0. TypeOK /\ TreeInv /\ ChainsEnd /\ CallSide /\ RunSide
  BY DEF SubRunsInv
<1>a. ASSUME TypeOK', TreeInv', ChainsEnd', CallSide', RunSide' PROVE SubRunsInv'
  BY <1>a DEF SubRunsInv
<1>b. ASSUME TypeOK', Quiet, ending' = ending PROVE Goal
  BY <1>b, QuietInv, QuietSteps DEF Quiet
<1>1. ASSUME NEW p \in RunIds, NEW e \in Entries, NEW c \in RunIds, CreateRun(p, c, e)
      PROVE  Goal
  <2>1. TypeOK' /\ Created(p, c, e) /\ ending' = ending
    BY <1>0, <1>1, CreateRows
  <2>2. TreeInv' /\ ChainsEnd' /\ CallSide'
    BY <1>0, <1>1, <2>1, CreateKeepsTree, CreateKeepsCalls
  <2>3. \A q \in RunIds : LifeStep(q)
    BY <1>1, CreateRunSteps
  <2>4. Free(c)
    BY <1>0, <1>1 DEF CreateRun, IsFresh, RunSide, EndInv, Unfinished
  <2>5. RunSide'
    BY <2>1, <2>3, <2>4, RunSideKept DEF Created, IsOpen, Waits
  <2> QED  BY <1>a, <2>1, <2>2, <2>3, <2>5
<1>2. ASSUME NEW r \in RunIds, StartRoot(r) PROVE Goal
  <2>1. TypeOK' /\ UNCHANGED <<call, ending>> /\ \A q \in RunIds \ {r} : run'[q] = run[q]
    BY <1>0, <1>2, StartRows
  <2>2. TreeInv' /\ ChainsEnd' /\ CallSide'
    BY <1>0, <1>2, <2>1, StartKeepsTree, StartKeepsCalls
  <2>3. \A q \in RunIds : LifeStep(q)
    BY <1>2, StartRootSteps
  <2>4. Free(r)
    BY <1>0, <1>2 DEF StartRoot, RunSide, EndInv, Unfinished
  <2>5. RunSide'
    BY <2>1, <2>3, <2>4, RunSideKept DEF IsOpen, Waits
  <2> QED  BY <1>a, <2>1, <2>2, <2>3, <2>5
<1>3. ASSUME NEW r \in RunIds, InitializeRun(r) PROVE Goal
  <2>1. TypeOK' /\ UNCHANGED <<call, ending>>
    BY <1>0, <1>3, InitializeRows
  <2>2. (\A q \in RunIds : RunMoves(q)) /\ \A q \in RunIds \ {r} : Kept(q)
    BY <1>0, <1>3, InitializeMoves
  <2>3. TreeInv' /\ ChainsEnd' /\ CallSide'
    BY <1>0, <1>3, <2>1, <2>2, MovesKeepTree, InitializeKeepsCalls
  <2>4. \A q \in RunIds : LifeStep(q)
    BY <1>3, InitializeRunSteps
  <2>5. RunSide'
    BY <1>3, <2>1, <2>2, <2>4, RunSideKept DEF InitializeRun, Kept, IsOpen, Waits
  <2> QED  BY <1>a, <2>1, <2>3, <2>4, <2>5
<1>4. ASSUME NEW r \in RunIds, FailRun(r) \/ FinalizeRun(r) PROVE Goal
  <2>1. PICK result \in Results : EndsWith(r, result) /\ CanEnd(r, result)
    BY <1>4, EndIsPossible
  <2>2. /\ TypeOK' /\ Free(r) /\ UNCHANGED <<call, hook, lost>>
        /\ Waits(r) => run' = run /\ ending' = [ending EXCEPT ![r] = result]
        /\ ~Waits(r) => ending' = ending
    BY <1>0, <2>1, EndRows
  <2>3. CASE Waits(r)
    BY <2>1, <2>2, <2>3, EndBeginsInv
  <2>4. CASE ~Waits(r)
    <3>1. Ends(r, result)
      BY <1>0, <2>1, <2>4, EndsAtOnce
    <3>2. Free(r)' /\ \A q \in RunIds \ {r} : ending'[q] = ending[q]
      BY <2>2, <2>4 DEF Free
    <3> QED  BY <2>1, <2>2, <3>1, <3>2, EndsInv
  <2> QED  BY <2>3, <2>4
<1>5. ASSUME NEW r \in RunIds, FinishWith(r) PROVE Goal
  <2>1. ending[r] \in Results /\ CanEnd(r, ending[r]) /\ Ends(r, ending[r])
    BY <1>5, CallbackEnds
  <2>2. TypeOK' /\ ending' = [ending EXCEPT ![r] = ""]
    BY <1>0, <1>5, FinishRows
  <2>3. Free(r)' /\ \A q \in RunIds \ {r} : ending'[q] = ending[q]
    BY <1>0, <2>2 DEF Free, TypeOK
  <2> QED  BY <2>1, <2>2, <2>3, EndsInv
<1>6. ASSUME NEW r \in RunIds, CancelRun(r) PROVE Goal
  <2>1. TypeOK' /\ ending' = ending /\ call' = Drained(r)
    BY <1>0, <1>6, CancelRunRows
  <2>2. (\A q \in RunIds : RunMoves(q)) /\ \A q \in RunIds \ {r} : Kept(q)
    BY <1>0, <1>6, CancelRunMoves
  <2>3. TreeInv' /\ ChainsEnd' /\ CallSide'
    BY <1>0, <1>6, <2>1, <2>2, MovesKeepTree, CancelRunKeepsCalls
  <2>4. \A q \in RunIds : LifeStep(q)
    BY <1>6, CancelRunSteps
  <2>5. \A q \in RunIds : IsOpen(q) => IsOpen(q)'
    BY <1>0, <2>1, DrainedRows DEF IsOpen, Waits
  <2>6. RunSide'
    BY <1>6, <2>1, <2>2, <2>4, <2>5, RunSideKept DEF CancelRun, Kept
  <2> QED  BY <1>a, <2>1, <2>3, <2>4, <2>6
<1>7. ASSUME NEW c \in RunIds, Terminate(c) \/ Timeout(c) PROVE Goal
  <2>1. TypeOK'
    BY <1>0, <1>7, TerminateRows, TimeoutRows
  <2>2. \A q \in RunIds :
           /\ RunMoves(q)
           /\ run'[q].state = IF q = c /\ run[c].state \in Unfinished
                              THEN "cancelling" ELSE run[q].state
    BY <1>0, <1>7, ChildCallStates, ChildMoves
  <2>3. TreeInv' /\ ChainsEnd' /\ CallSide'
    BY <1>0, <1>7, <2>1, <2>2, MovesKeepTree, ChildKeepsCalls
  <2>4. \A q \in RunIds : LifeStep(q)
    BY <1>7, ChildSteps
  <2>5. Free(c) /\ ending' = ending
    BY <1>0, <1>7, ChildCallStates DEF Terminate, Timeout
  <2>6. ASSUME NEW q \in RunIds, ~Free(q)
        PROVE  run'[q].state = run[q].state /\ (IsOpen(q) => IsOpen(q)')
    <3>1. q # c
      BY <2>5, <2>6
    <3>2. call'[q].state = call[q].state \/ (Waits(q) /\ call'[q].state = "cancelling")
      BY <1>0, <1>7, <3>1, ChildCallStates
    <3> QED  BY <2>2, <3>1, <3>2 DEF IsOpen, Waits
  <2>7. RunSide'
    BY <2>1, <2>4, <2>5, <2>6, RunSideKept
  <2> QED  BY <1>a, <2>1, <2>3, <2>4, <2>7
<1>8. ASSUME NEW r \in RunIds, FinishWork(r) \/ DrainAgain(r) PROVE Goal
  BY <1>0, <1>8, <1>b, WorkRows, DrainAgainRows
<1>9. ASSUME NEW c \in RunIds, CancelCall(c) \/ ReadForTimeout(c) PROVE Goal
  BY <1>0, <1>9, <1>b, CancelCallRows, ReadRows
<1>10. ASSUME NEW a \in Apps, DeleteNode(a) PROVE Goal
  BY <1>0, <1>10, <1>b, DeleteRows
<1>11. ASSUME (\E e \in Entries : EditEntry(e)) \/ UNCHANGED vars PROVE Goal
  BY <1>0, <1>11, <1>b, EditRows
<1> QED
  BY <1>1, <1>2, <1>3, <1>4, <1>5, <1>6, <1>7, <1>8, <1>9, <1>10, <1>11 DEF Next

(* Every reachable state satisfies the invariant. *)
LEMMA Invariant == Spec => []SubRunsInv
<1>1. SubRunsInv /\ [Next]_vars => SubRunsInv'
  BY StepInv
<1> QED  BY <1>1, InitInv, PTL DEF Spec

-----------------------------------------------------------------------------
(* The variables have their types (run, call, node, entry, hook, ending, lost). *)
THEOREM SubRunsTypes == Spec => []TypeOK
<1>1. SubRunsInv => TypeOK
  BY DEF SubRunsInv
<1> QED  BY <1>1, Invariant, PTL

(***************************************************************************)
(* Whatever ends a child run, cancels its parent or edits their apps, no   *)
(* call waits for a callback that will not come, unless a save undid its   *)
(* cancellation; then its run is at its end (DispatchFinished,             *)
(* resolveParent, RunApp.Cancel, handleRunTimeout).                        *)
(***************************************************************************)
THEOREM NoCallbackIsMissed == Spec => []NoMissedCallback
<1>1. SubRunsInv => NoMissedCallback
  BY DEF SubRunsInv, CallSide
<1> QED  BY <1>1, Invariant, PTL

(* A call that is told a result is told that of its run (DispatchFinished). *)
THEOREM CallsReportTheirRuns == Spec => []CallReportsRun
<1>1. SubRunsInv => CallReportsRun
  BY DEF SubRunsInv, CallSide
<1> QED  BY <1>1, Invariant, PTL

(* No finished run leaves a run it called going on (FindOpenWork, Cancel). *)
THEOREM NoChildIsLeftBehind == Spec => []NoRunLeftBehind
<1>1. SubRunsInv => NoRunLeftBehind
  BY DEF SubRunsInv, CallSide
<1> QED  BY <1>1, Invariant, PTL

(***************************************************************************)
(* However apps call each other, no chain of calls repeats an entry or     *)
(* comes back to an app, and its crossings stay below the limit            *)
(* (ValidateSubRunCreation).                                               *)
(***************************************************************************)
THEOREM ChainsAreBounded == Spec => []ChainsEnd
<1>1. SubRunsInv => ChainsEnd
  BY DEF SubRunsInv
<1> QED  BY <1>1, Invariant, PTL

\* At first no run exists.
LEMMA LifeInit == Init => Lifecycle!LifecycleInit
<1> SUFFICES ASSUME Init PROVE Lifecycle!LifecycleInit
  OBVIOUS
<1>1. \A r \in RunIds : run[r].state = "none" /\ run[r].result = "" /\ run[r].work = "done"
  BY DEF Init, NoRun
<1>2. \A r \in RunIds : HasOpenWork(r) = FALSE
  BY <1>1 DEF HasOpenWork, CallsOf
<1> QED  BY <1>1, <1>2 DEF Lifecycle!LifecycleInit

(***************************************************************************)
(* Runs that call each other live as the run engine promises: callbacks,   *)
(* timeouts and failed starts, and the saves that undo a cancellation,     *)
(* never skip a state, end a run that has work or an open call left, or    *)
(* give a finished run work again (FindOpenWork, DispatchFinished,         *)
(* RunApp.Cancel).                                                         *)
(***************************************************************************)
THEOREM SubRunsImplementLifecycle == Spec => ImplementsLifecycle
<1>1. SubRunsInv /\ [Next]_vars => [Lifecycle!LifecycleNext]_(Lifecycle!lifecycleVars)
  BY StepInv DEF LifeStep, Lifecycle!LifecycleNext
<1> QED  BY <1>1, LifeInit, Invariant, PTL DEF Spec, ImplementsLifecycle, Lifecycle!LifecycleSpec
=============================================================================
