------------------------ MODULE FactoryLine_proofs ------------------------
(***************************************************************************)
(* Proofs about factory lines, for every number of orders, dispatches,     *)
(* steps and requests: the types, the order of the steps, that a queue is  *)
(* served, that a traversal is at one place, and that admission respects   *)
(* the limit of the step and the order of its queue.                       *)
(*                                                                         *)
(* Each action is shown to be a GoodStep: it takes every traversal along   *)
(* (it rests, enters, runs, is admitted, is dropped, stops, passes or goes *)
(* on) and keeps the queues in order.  The invariant LineInv and the two   *)
(* action properties follow from that alone.                               *)
(***************************************************************************)
EXTENDS FactoryLine, Queues_proofs

-----------------------------------------------------------------------------
(* The invariant. *)

OnceQueued ==
    \A s \in StepIds : \A i, j \in 1 .. Len(queue[s]) : queue[s][i] = queue[s][j] => i = j

PassedBefore(d, s) == \A t \in StepIds : t < s => exec[d][t] = "passed"

(* What the steps of a traversal, its place and its state have to do with each other. *)
StepsFit(d) ==
    \A s \in StepIds : exec[d][s] # "none" =>
        /\ dispatch[d].state # "none" /\ s <= Len(dispatch[d].steps)
        /\ PassedBefore(d, s)

FlightsFit(d) == \A s \in StepIds : exec[d][s] \in InFlight => dispatch[d].state = "active"

WaitsFit(d) ==
    \A s \in StepIds : d \in Waiting(s) =>
        /\ dispatch[d].state = "active" /\ s <= Len(dispatch[d].steps)
        /\ PassedBefore(d, s)
        /\ \A t \in StepIds : s <= t => exec[d][t] = "none"

PassFits(d) ==
    dispatch[d].state = "passed" =>
        \A s \in StepIds : s <= Len(dispatch[d].steps) => exec[d][s] = "passed"

IsSomewhere(d) ==
    dispatch[d].state = "active" =>
        \E s \in StepIds : exec[d][s] \in InFlight \/ d \in Waiting(s)

Fits(d) == StepsFit(d) /\ FlightsFit(d) /\ WaitsFit(d) /\ PassFits(d) /\ IsSomewhere(d)

(* The finalizer that holds the lock finishes a run that is under way. *)
AdvanceFits == advance # NoAdvance => exec[advance.dispatch][advance.step] = "running"

LineInv ==
    /\ TypeOK /\ OnceQueued /\ AdvanceFits /\ QueueIsServed
    /\ \A d \in DispatchIds : Fits(d)

-----------------------------------------------------------------------------
(* What a step may do to a traversal. *)

ExecStates == {"none"} \cup InFlight \cup Results

\* Its row of executions, with another one at s.
ExecSet(d, s, x) == exec'[d] = [exec[d] EXCEPT ![s] = x]
SameExec(d)      == exec'[d] = exec[d]
SameDispatch(d)  == dispatch'[d] = dispatch[d]
SameWaits(d)     == \A s \in StepIds : d \in Waiting(s)' <=> d \in Waiting(s)
WaitsNowhere(d)  == \A s \in StepIds : d \notin Waiting(s)'
WaitsOnlyAt(d, s) == \A t \in StepIds : d \in Waiting(t)' <=> t = s
Leaves(d, x)     == dispatch[d].state = "active" /\ dispatch'[d] = [dispatch[d] EXCEPT !.state = x]

Rests(d)     == SameExec(d) /\ SameDispatch(d) /\ SameWaits(d)
Enters(d)    == /\ dispatch[d] = NoDispatch /\ dispatch'[d].state = "active"
                /\ 1 <= Len(dispatch'[d].steps)
                /\ \/ ExecSet(d, 1, "pending") /\ WaitsNowhere(d)
                   \/ SameExec(d) /\ WaitsOnlyAt(d, 1)
Runs(d)      == /\ \E s \in StepIds : exec[d][s] = "pending" /\ ExecSet(d, s, "running")
                /\ SameDispatch(d) /\ SameWaits(d)
IsAdmitted(d) == /\ \E s \in StepIds : d \in Waiting(s) /\ ExecSet(d, s, "pending")
                 /\ SameDispatch(d) /\ WaitsNowhere(d)
IsDropped(d) == /\ \E s \in StepIds : d \in Waiting(s)
                /\ SameExec(d) /\ Leaves(d, "stopped") /\ WaitsNowhere(d)
Stops(d)     == /\ \E s \in StepIds, x \in Results : exec[d][s] \in InFlight /\ ExecSet(d, s, x)
                /\ Leaves(d, "stopped") /\ SameWaits(d)
Passes(d)    == /\ \E s \in StepIds : /\ exec[d][s] \in InFlight /\ ExecSet(d, s, "passed")
                                      /\ Len(dispatch[d].steps) <= s
                /\ Leaves(d, "passed") /\ SameWaits(d)
GoesOn(d)    == \E s \in StepIds :
                /\ exec[d][s] \in InFlight /\ s + 1 <= Len(dispatch[d].steps) /\ SameDispatch(d)
                /\ \/ /\ exec'[d] = [[exec[d] EXCEPT ![s] = "passed"] EXCEPT ![s + 1] = "pending"]
                      /\ SameWaits(d)
                   \/ ExecSet(d, s, "passed") /\ WaitsOnlyAt(d, s + 1)

TraversalStep(d) ==
    Rests(d) \/ Enters(d) \/ Runs(d) \/ IsAdmitted(d) \/ IsDropped(d) \/ Stops(d)
        \/ Passes(d) \/ GoesOn(d)

\* What the type of an execution's row says.
LEMMA ExecRow ==
    ASSUME TypeOK, NEW d \in DispatchIds
    PROVE  /\ exec[d] \in [StepIds -> ExecStates]
           /\ dispatch[d] \in DispatchRow \cup {NoDispatch}
  BY DEF TypeOK, ExecStates

\* A traversal with a run in flight has no other run and waits nowhere.
LEMMA InFlightIsThePlace ==
    ASSUME TypeOK, NEW d \in DispatchIds, Fits(d), NEW s \in StepIds, exec[d][s] \in InFlight
    PROVE  /\ dispatch[d].state = "active"
           /\ \A t \in StepIds : d \notin Waiting(t)
           /\ \A t \in StepIds : s < t => exec[d][t] = "none"
<1>0. MaxSteps \in Nat
  BY FactoryAssumption
<1>1. dispatch[d].state = "active"
  BY DEF Fits, FlightsFit
<1>2. ASSUME NEW t \in StepIds, d \in Waiting(t) PROVE FALSE
  <2>1. CASE t <= s
    BY <1>2, <2>1 DEF Fits, WaitsFit, InFlight
  <2>2. CASE s < t
    BY <1>2, <2>2 DEF Fits, WaitsFit, PassedBefore, InFlight
  <2> QED  BY <1>0, <2>1, <2>2 DEF StepIds
<1>3. ASSUME NEW t \in StepIds, s < t PROVE exec[d][t] = "none"
  BY <1>3 DEF Fits, StepsFit, PassedBefore, InFlight
<1> QED  BY <1>1, <1>2, <1>3

\* Steps of these kinds keep a traversal's state, steps and place in line.
LEMMA KeepFits ==
    ASSUME TypeOK, NEW d \in DispatchIds, Fits(d), TraversalStep(d)
    PROVE  Fits(d)'
<1> USE DEF InFlight
<1>0. MaxSteps \in Nat /\ 1 \in StepIds
  BY FactoryAssumption DEF StepIds
<1>a. exec[d] \in [StepIds -> ExecStates] /\ dispatch[d] \in DispatchRow \cup {NoDispatch}
  BY ExecRow
<1>b. StepsFit(d) /\ FlightsFit(d) /\ WaitsFit(d) /\ PassFits(d) /\ IsSomewhere(d)
  BY DEF Fits
<1>1. CASE Rests(d)
  BY <1>1, <1>b DEF Fits, StepsFit, FlightsFit, WaitsFit, PassFits, IsSomewhere, PassedBefore,
       Rests, SameExec, SameDispatch, SameWaits
<1>2. CASE Enters(d)
  <2>1. /\ \A t \in StepIds : exec[d][t] = "none"
        /\ dispatch'[d].state = "active" /\ 1 <= Len(dispatch'[d].steps)
    BY <1>2, <1>b DEF Enters, StepsFit, NoDispatch
  <2>2. CASE ExecSet(d, 1, "pending") /\ WaitsNowhere(d)
    <3>1. \A t \in StepIds : exec'[d][t] = IF t = 1 THEN "pending" ELSE "none"
      BY <1>0, <1>a, <2>1, <2>2 DEF ExecSet
    <3>2. \A t \in StepIds : ~(t < 1)
      BY <1>0 DEF StepIds
    <3> QED  BY <1>0, <2>1, <2>2, <3>1, <3>2
             DEF Fits, StepsFit, FlightsFit, WaitsFit, PassFits, IsSomewhere, PassedBefore, WaitsNowhere
  <2>3. CASE SameExec(d) /\ WaitsOnlyAt(d, 1)
    <3>1. \A t \in StepIds : exec'[d][t] = "none"
      BY <2>1, <2>3 DEF SameExec
    <3>2. \A t \in StepIds : ~(t < 1)
      BY <1>0 DEF StepIds
    <3> QED  BY <1>0, <2>1, <2>3, <3>1, <3>2
             DEF Fits, StepsFit, FlightsFit, WaitsFit, PassFits, IsSomewhere, PassedBefore, WaitsOnlyAt
  <2> QED  BY <1>2, <2>2, <2>3 DEF Enters
<1>3. CASE Runs(d)
  <2>1. PICK s \in StepIds : exec[d][s] = "pending" /\ ExecSet(d, s, "running")
    BY <1>3 DEF Runs
  <2>2. \A t \in StepIds : exec'[d][t] = IF t = s THEN "running" ELSE exec[d][t]
    BY <1>a, <2>1 DEF ExecSet
  <2> QED  BY <1>3, <1>b, <2>1, <2>2
           DEF Fits, StepsFit, FlightsFit, WaitsFit, PassFits, IsSomewhere, PassedBefore,
               Runs, SameDispatch, SameWaits
<1>4. CASE IsAdmitted(d)
  <2>1. PICK s \in StepIds : d \in Waiting(s) /\ ExecSet(d, s, "pending")
    BY <1>4 DEF IsAdmitted
  <2>2. \A t \in StepIds : exec'[d][t] = IF t = s THEN "pending" ELSE exec[d][t]
    BY <1>a, <2>1 DEF ExecSet
  <2>3. /\ dispatch[d].state = "active" /\ s <= Len(dispatch[d].steps)
        /\ PassedBefore(d, s) /\ \A t \in StepIds : s <= t => exec[d][t] = "none"
    BY <1>b, <2>1 DEF WaitsFit
  <2>4. dispatch'[d] = dispatch[d] /\ \A t \in StepIds : d \notin Waiting(t)'
    BY <1>4 DEF IsAdmitted, SameDispatch, WaitsNowhere
  <2>5. \A t \in StepIds : t < s \/ t = s \/ (s <= t /\ ~(t < s))
    BY <1>0 DEF StepIds
  <2>6. StepsFit(d)'
    <3>1. ASSUME NEW t \in StepIds, exec'[d][t] # "none"
          PROVE /\ dispatch'[d].state # "none" /\ t <= Len(dispatch'[d].steps)
                /\ \A u \in StepIds : u < t => exec'[d][u] = "passed"
      <4>1. CASE t = s
        <5>1. \A u \in StepIds : u < s => u # s
          BY <1>0 DEF StepIds
        <5> QED  BY <2>2, <2>3, <2>4, <4>1, <5>1 DEF PassedBefore
      <4>2. CASE t # s
        <5>1. exec[d][t] # "none" /\ t < s
          BY <2>2, <2>3, <2>5, <3>1, <4>2
        <5>2. \A u \in StepIds : u < t => u # s
          BY <1>0, <5>1 DEF StepIds
        <5> QED  BY <1>b, <2>2, <2>4, <5>1, <5>2 DEF StepsFit, PassedBefore
      <4> QED  BY <4>1, <4>2
    <3> QED  BY <3>1 DEF StepsFit, PassedBefore
  <2> QED  BY <2>2, <2>3, <2>4, <2>6 DEF Fits, FlightsFit, WaitsFit, PassFits, IsSomewhere
<1>5. CASE IsDropped(d)
  <2>1. PICK s \in StepIds : d \in Waiting(s)
    BY <1>5 DEF IsDropped
  <2>2. \A t \in StepIds : exec[d][t] \notin InFlight
    BY <2>1, InFlightIsThePlace
  <2>3. /\ exec'[d] = exec[d] /\ \A t \in StepIds : d \notin Waiting(t)'
        /\ dispatch[d].state = "active" /\ dispatch'[d] = [dispatch[d] EXCEPT !.state = "stopped"]
    BY <1>5 DEF IsDropped, SameExec, Leaves, WaitsNowhere
  <2>4. dispatch'[d].state = "stopped" /\ dispatch'[d].steps = dispatch[d].steps
    BY <1>a, <2>3 DEF DispatchRow, NoDispatch
  <2> QED  BY <1>b, <2>2, <2>3, <2>4
           DEF Fits, StepsFit, FlightsFit, WaitsFit, PassFits, IsSomewhere, PassedBefore
<1>6. CASE Stops(d) \/ Passes(d)
  <2>1. PICK s \in StepIds, x \in Results, y \in Results :
           /\ exec[d][s] \in InFlight /\ ExecSet(d, s, x) /\ Leaves(d, y)
           /\ y = "passed" => x = "passed" /\ Len(dispatch[d].steps) <= s
    BY <1>6 DEF Stops, Passes, Results
  <2>2. \A t \in StepIds : exec'[d][t] = IF t = s THEN x ELSE exec[d][t]
    BY <1>a, <2>1 DEF ExecSet
  <2>3. /\ \A t \in StepIds : d \notin Waiting(t)
        /\ \A t \in StepIds : s < t => exec[d][t] = "none"
    BY <2>1, InFlightIsThePlace
  <2>4. dispatch'[d].state = y /\ dispatch'[d].steps = dispatch[d].steps
    BY <1>a, <2>1 DEF Leaves, DispatchRow, NoDispatch
  <2>5. \A t \in StepIds : d \notin Waiting(t)'
    BY <1>6, <2>3 DEF Stops, Passes, SameWaits
  <2>6. \A t \in StepIds : t < s \/ t = s \/ s < t
    BY <1>0 DEF StepIds
  <2>7. x # "none" /\ y # "none" /\ y # "active" /\ x \notin InFlight
    BY <2>1 DEF Results
  <2>8. s <= Len(dispatch[d].steps) /\ \A t \in StepIds : t < s => exec[d][t] = "passed"
    BY <1>b, <2>1 DEF StepsFit, PassedBefore
  <2>9. StepsFit(d)'
    <3>1. ASSUME NEW t \in StepIds, exec'[d][t] # "none"
          PROVE /\ dispatch'[d].state # "none" /\ t <= Len(dispatch'[d].steps)
                /\ \A u \in StepIds : u < t => exec'[d][u] = "passed"
      <4>1. CASE t = s
        BY <2>2, <2>4, <2>6, <2>7, <2>8, <4>1, <1>0 DEF StepIds
      <4>2. CASE t # s
        <5>1. exec[d][t] # "none" /\ t < s
          BY <2>2, <2>3, <2>6, <3>1, <4>2
        <5>2. \A u \in StepIds : u < t => u # s
          BY <1>0, <5>1 DEF StepIds
        <5> QED  BY <1>b, <2>2, <2>4, <2>7, <5>1, <5>2 DEF StepsFit, PassedBefore
      <4> QED  BY <4>1, <4>2
    <3> QED  BY <3>1 DEF StepsFit, PassedBefore
  <2>10. ASSUME y = "passed", NEW t \in StepIds, t <= Len(dispatch'[d].steps)
         PROVE  exec'[d][t] = "passed"
    <3>1. Len(dispatch[d].steps) <= s /\ s <= Len(dispatch[d].steps) /\ x = "passed"
      BY <2>1, <2>8, <2>10
    <3>2. t < s \/ t = s
      <4>1. s \in Int /\ t \in Int
        BY <1>0 DEF StepIds
      <4>2. Len(dispatch[d].steps) \in Int
        <5>1. dispatch[d] \in DispatchRow
          BY <1>a, <2>1 DEF Leaves, NoDispatch
        <5> QED  BY <5>1, FactoryAssumption DEF DispatchRow
      <4> QED  BY <2>4, <2>10, <3>1, <4>1, <4>2
    <3> QED  BY <2>2, <2>8, <3>1, <3>2
  <2>11. FlightsFit(d)'
    <3>1. \A t \in StepIds : exec'[d][t] \notin InFlight
      BY <1>b, <2>2, <2>3, <2>6, <2>7, <2>8
    <3> QED  BY <3>1 DEF FlightsFit
  <2> QED  BY <2>4, <2>5, <2>7, <2>9, <2>10, <2>11 DEF Fits, WaitsFit, PassFits, IsSomewhere
<1>7. CASE GoesOn(d)
  <2>1. PICK s \in StepIds :
           /\ exec[d][s] \in InFlight /\ s + 1 <= Len(dispatch[d].steps) /\ SameDispatch(d)
           /\ \/ /\ exec'[d] = [[exec[d] EXCEPT ![s] = "passed"] EXCEPT ![s + 1] = "pending"]
                 /\ SameWaits(d)
              \/ ExecSet(d, s, "passed") /\ WaitsOnlyAt(d, s + 1)
    BY <1>7 DEF GoesOn
  <2>2. /\ dispatch[d].state = "active"
        /\ \A t \in StepIds : d \notin Waiting(t)
        /\ \A t \in StepIds : s < t => exec[d][t] = "none"
    BY <2>1, InFlightIsThePlace
  <2>3. dispatch[d] \in DispatchRow /\ dispatch'[d] = dispatch[d]
    BY <1>a, <2>1, <2>2 DEF NoDispatch, SameDispatch
  <2>4. s + 1 \in StepIds /\ Len(dispatch[d].steps) \in 1 .. MaxSteps
    <3>1. Len(dispatch[d].steps) \in 1 .. MaxSteps
      BY <2>3, FactoryAssumption DEF DispatchRow
    <3> QED  BY <1>0, <2>1, <3>1 DEF StepIds
  <2>5. s <= Len(dispatch[d].steps) /\ \A t \in StepIds : t < s => exec[d][t] = "passed"
    BY <1>b, <2>1 DEF StepsFit, PassedBefore
  <2>6. CASE /\ exec'[d] = [[exec[d] EXCEPT ![s] = "passed"] EXCEPT ![s + 1] = "pending"]
             /\ SameWaits(d)
    <3>1. \A t \in StepIds : exec'[d][t] =
             IF t <= s THEN "passed" ELSE IF t = s + 1 THEN "pending" ELSE "none"
      <4>1. \A t \in StepIds : exec'[d][t] =
               IF t = s + 1 THEN "pending" ELSE IF t = s THEN "passed" ELSE exec[d][t]
        BY <1>a, <2>4, <2>6
      <4>2. \A t \in StepIds : t < s \/ t = s \/ t = s + 1 \/ (s < t /\ t # s + 1)
        BY <1>0 DEF StepIds
      <4> QED  BY <1>0, <2>2, <2>5, <4>1, <4>2 DEF StepIds
    <3>2. \A t \in StepIds : d \notin Waiting(t)'
      BY <2>2, <2>6 DEF SameWaits
    <3>3. StepsFit(d)'
      <4>1. ASSUME NEW t \in StepIds, exec'[d][t] # "none"
            PROVE  t <= s + 1 /\ \A u \in StepIds : u < t => u <= s
        BY <1>0, <3>1, <4>1 DEF StepIds
      <4>2. ASSUME NEW t \in StepIds, exec'[d][t] # "none"
            PROVE  t <= Len(dispatch'[d].steps)
        BY <1>0, <2>1, <2>3, <2>4, <4>1, <4>2 DEF StepIds
      <4> QED  BY <2>2, <2>3, <3>1, <4>1, <4>2 DEF StepsFit, PassedBefore
    <3>4. exec'[d][s + 1] \in InFlight
      BY <1>0, <2>4, <3>1 DEF StepIds
    <3> QED  BY <2>2, <2>3, <2>4, <3>1, <3>2, <3>3, <3>4
             DEF Fits, FlightsFit, WaitsFit, PassFits, IsSomewhere
  <2>7. CASE ExecSet(d, s, "passed") /\ WaitsOnlyAt(d, s + 1)
    <3>1. \A t \in StepIds : exec'[d][t] = IF t <= s THEN "passed" ELSE "none"
      <4>1. \A t \in StepIds : exec'[d][t] = IF t = s THEN "passed" ELSE exec[d][t]
        BY <1>a, <2>7 DEF ExecSet
      <4>2. \A t \in StepIds : t < s \/ t = s \/ s < t
        BY <1>0 DEF StepIds
      <4> QED  BY <1>0, <2>2, <2>5, <4>1, <4>2 DEF StepIds
    <3>2. \A t \in StepIds : d \in Waiting(t)' <=> t = s + 1
      BY <2>7 DEF WaitsOnlyAt
    <3>3. StepsFit(d)'
      <4>1. ASSUME NEW t \in StepIds, exec'[d][t] # "none"
            PROVE  t <= s /\ \A u \in StepIds : u < t => u <= s
        BY <1>0, <3>1, <4>1 DEF StepIds
      <4>2. ASSUME NEW t \in StepIds, exec'[d][t] # "none"
            PROVE  t <= Len(dispatch'[d].steps)
        BY <1>0, <2>3, <2>4, <2>5, <4>1, <4>2 DEF StepIds
      <4> QED  BY <2>2, <2>3, <3>1, <4>1, <4>2 DEF StepsFit, PassedBefore
    <3>4. WaitsFit(d)'
      <4>1. \A t \in StepIds : (t < s + 1 => t <= s) /\ (s + 1 <= t => ~(t <= s))
        BY <1>0 DEF StepIds
      <4> QED  BY <2>1, <2>2, <2>3, <3>1, <3>2, <4>1 DEF WaitsFit, PassedBefore
    <3> QED  BY <2>2, <2>3, <2>4, <3>1, <3>2, <3>3, <3>4
             DEF Fits, FlightsFit, PassFits, IsSomewhere
  <2> QED  BY <2>1, <2>6, <2>7
<1> QED  BY <1>1, <1>2, <1>3, <1>4, <1>5, <1>6, <1>7 DEF TraversalStep

-----------------------------------------------------------------------------
(* Limits, queues and admission. *)

\* A traversal that waits has its place there and no run.
LEMMA WaitIsThePlace ==
    ASSUME TypeOK, NEW d \in DispatchIds, Fits(d), NEW s \in StepIds, d \in Waiting(s)
    PROVE  /\ dispatch[d].state = "active" /\ dispatch[d] \in DispatchRow
           /\ s <= Len(dispatch[d].steps)
           /\ \A t \in StepIds : exec[d][t] \notin InFlight
           /\ \A t \in StepIds : t # s => d \notin Waiting(t)
<1>1. dispatch[d].state = "active" /\ s <= Len(dispatch[d].steps)
  BY DEF Fits, WaitsFit
<1>2. dispatch[d] \in DispatchRow
  BY <1>1, ExecRow DEF NoDispatch
<1>3. \A t \in StepIds : exec[d][t] \notin InFlight
  BY InFlightIsThePlace
<1>4. ASSUME NEW t \in StepIds, NEW u \in StepIds, t < u, d \in Waiting(t), d \in Waiting(u)
      PROVE FALSE
  <2>1. exec[d][t] = "passed"
    BY <1>4 DEF Fits, WaitsFit, PassedBefore
  <2>2. exec[d][t] = "none"
    <3>1. t <= t
      BY FactoryAssumption DEF StepIds
    <3> QED  BY <1>4, <3>1 DEF Fits, WaitsFit
  <2> QED  BY <2>1, <2>2
<1>5. ASSUME NEW t \in StepIds, t # s PROVE d \notin Waiting(t)
  <2>1. t < s \/ s < t
    BY <1>5, FactoryAssumption DEF StepIds
  <2> QED  BY <1>4, <2>1
<1> QED  BY <1>1, <1>2, <1>3, <1>5

\* Every limit leaves room for one.
LEMMA LimitIsPositive ==
    ASSUME TypeOK, NEW v \in LineVersions, NEW s \in StepIds, s <= Len(v)
    PROVE  Limit(v, s) \in Nat \ {0}
<1>1. line \in LineVersions
  BY DEF TypeOK
<1>2. ASSUME NEW w \in LineVersions, s <= Len(w) PROVE w[s].max \in Nat \ {0}
  <2> DEFINE R == [app : Apps, max : Nat \ {0}]
  <2>1. w \in Seq(R)
    BY FactoryAssumption
  <2>2. s \in 1 .. Len(w)
    <3> HIDE DEF R
    <3>1. Len(w) \in Nat /\ s \in Nat /\ s >= 1
      BY <2>1, FactoryAssumption DEF StepIds
    <3> QED  BY <1>2, <3>1
  <2>3. w[s] \in R
    <3> HIDE DEF R
    <3> QED  BY <2>1, <2>2
  <2> QED  BY <2>3
<1> QED  BY <1>1, <1>2 DEF Limit

\* The dispatches at a step are finitely many, so they can be counted.
LEMMA ActiveIsFinite ==
    ASSUME NEW s \in StepIds
    PROVE  /\ IsFiniteSet(Active(s)) /\ Cardinality(Active(s)) \in Nat
           /\ \A d : /\ IsFiniteSet(Active(s) \ {d}) /\ Cardinality(Active(s) \ {d}) \in Nat
<1>1. Active(s) \in SUBSET DispatchIds
  BY DEF Active
<1>2. IsFiniteSet(Active(s))
  BY <1>1, FiniteDispatches, FS_Subset
<1>3. ASSUME NEW d PROVE IsFiniteSet(Active(s) \ {d})
  BY <1>2, FS_RemoveElement
<1> QED  BY <1>2, <1>3, FS_CardinalityType

\* What an append puts in a queue, in the words of OnceQueued.
LEMMA AppendRows ==
    ASSUME NEW A, NEW q \in Seq(A), NEW x \in A
    PROVE  /\ Append(q, x) \in Seq(A)
           /\ {Append(q, x)[i] : i \in 1 .. Len(Append(q, x))}
                 = {q[i] : i \in 1 .. Len(q)} \cup {x}
           /\ (/\ \A i, j \in 1 .. Len(q) : q[i] = q[j] => i = j
               /\ x \notin {q[i] : i \in 1 .. Len(q)}) =>
                 \A i, j \in 1 .. Len(Append(q, x)) :
                    Append(q, x)[i] = Append(q, x)[j] => i = j
<1> DEFINE w == Append(q, x)
<1>1. /\ w \in Seq(A) /\ ItemsOf(w) = ItemsOf(q) \cup {x}
      /\ Distinct(q) /\ x \notin ItemsOf(q) => Distinct(w)
  BY AppendItems
<1> HIDE DEF w
<1>2. /\ w \in Seq(A)
      /\ {w[i] : i \in 1 .. Len(w)} = {q[i] : i \in 1 .. Len(q)} \cup {x}
      /\ (/\ \A i, j \in 1 .. Len(q) : q[i] = q[j] => i = j
          /\ x \notin {q[i] : i \in 1 .. Len(q)}) =>
            \A i, j \in 1 .. Len(w) : w[i] = w[j] => i = j
  BY <1>1 DEF ItemsOf, Distinct
<1> QED  BY <1>2 DEF w

(***************************************************************************)
(* Admission reaches an initial part of the queue, 1 .. k.  If it stops    *)
(* before the end, the next dispatch found its step at the limit.          *)
(***************************************************************************)
Reaches(d, s, k) ==
    /\ ReachedFor(d, s) = 1 .. k
    /\ Taken(d, s) = {queue[s][i] : i \in 1 .. k}
    /\ QueueLeft(d, s) \in Seq(DispatchIds)
    /\ {QueueLeft(d, s)[i] : i \in 1 .. Len(QueueLeft(d, s))} = Waiting(s) \ Taken(d, s)
    /\ \A i, j \in 1 .. Len(QueueLeft(d, s)) : QueueLeft(d, s)[i] = QueueLeft(d, s)[j] => i = j
    /\ QueueLeft(d, s) # <<>> => k + 1 \in 1 .. Len(queue[s])
    /\ k + 1 \in 1 .. Len(queue[s]) =>
          ~(Cardinality(Active(s) \ {d}) + Cardinality(OpenBefore(s, k + 1))
               < Limit(dispatch[queue[s][k + 1]].steps, s))

\* The loop over the queue takes whom it admits from an initial part of it.
LEMMA AdmissionReaches ==
    ASSUME TypeOK, OnceQueued, NEW d \in DispatchIds, NEW s \in StepIds
    PROVE  \E k \in 0 .. Len(queue[s]) : Reaches(d, s, k)
<1> DEFINE q == queue[s]
           n == Len(q)
           R == ReachedFor(d, s)
           Room(j) == Cardinality(Active(s) \ {d}) + Cardinality(OpenBefore(s, j))
                         < Limit(dispatch[q[j]].steps, s)
           w == QueueLeft(d, s)
<1>1. q \in Seq(DispatchIds) /\ n \in Nat
  BY DEF TypeOK
<1>2. R = {i \in 1 .. n : \A j \in 1 .. i : Room(j)}
  BY DEF ReachedFor
<1> HIDE DEF Room, R
<1>3. \A i \in R : \A j \in 1 .. i : j \in R
  <2>1. SUFFICES ASSUME NEW i \in R, NEW j \in 1 .. i PROVE j \in R
    OBVIOUS
  <2>2. i \in 1 .. n /\ \A m \in 1 .. i : Room(m)
    BY <1>2
  <2>3. j \in 1 .. n /\ \A m \in 1 .. j : m \in 1 .. i
    BY <1>1, <2>2
  <2> QED  BY <1>2, <2>2, <2>3
<1>4. R \subseteq 1 .. n
  BY <1>2
<1>5. PICK k \in 0 .. n : R = 1 .. k /\ Cardinality(R) = k
  BY <1>1, <1>3, <1>4, DownClosed
<1>6. w = SubSeq(q, k + 1, n)
  BY <1>5 DEF QueueLeft, R
<1>7. /\ w \in Seq(DispatchIds) /\ Len(w) = n - k
      /\ \A i \in 1 .. (n - k) : w[i] = q[k + i]
  BY <1>1, <1>5, <1>6
<1>8. \A i \in 1 .. (n - k) : k + i \in 1 .. n /\ ~(k + i \in 1 .. k)
  BY <1>1, <1>5
<1>9. \A i \in 1 .. n : i \in 1 .. k \/ (i - k \in 1 .. (n - k) /\ k + (i - k) = i)
  BY <1>1, <1>5
<1>10. \A i, j \in 1 .. n : q[i] = q[j] => i = j
  BY DEF OnceQueued
<1>11. Taken(d, s) = {q[i] : i \in 1 .. k}
  BY <1>5 DEF Taken, R
<1>12. \A i \in 1 .. k : i \in 1 .. n
  BY <1>1, <1>5
<1> HIDE DEF w
<1>13. {w[i] : i \in 1 .. Len(w)} = Waiting(s) \ Taken(d, s)
  <2>1. ASSUME NEW i \in 1 .. (n - k) PROVE w[i] \in Waiting(s) \ Taken(d, s)
    <3>1. w[i] = q[k + i] /\ k + i \in 1 .. n /\ k + i \notin 1 .. k
      BY <1>7, <1>8
    <3> QED  BY <1>10, <1>11, <1>12, <3>1 DEF Waiting
  <2>2. ASSUME NEW i \in 1 .. n, q[i] \notin Taken(d, s) PROVE \E j \in 1 .. (n - k) : w[j] = q[i]
    <3>1. i - k \in 1 .. (n - k) /\ k + (i - k) = i
      BY <1>9, <1>11, <2>2
    <3> QED  BY <1>7, <3>1
  <2>3. Waiting(s) = {q[i] : i \in 1 .. n} /\ 1 .. Len(w) = 1 .. (n - k)
    BY <1>7 DEF Waiting
  <2> HIDE DEF q, n
  <2> QED  BY <2>1, <2>2, <2>3
<1>14. ASSUME NEW i \in 1 .. Len(w), NEW j \in 1 .. Len(w), w[i] = w[j] PROVE i = j
  <2>1. k + i = k + j
    BY <1>7, <1>8, <1>10, <1>14
  <2> QED  BY <1>5, <2>1
<1>15. w # <<>> => k + 1 \in 1 .. n
  BY <1>1, <1>5, <1>7
<1>16. k + 1 \in 1 .. n => ~Room(k + 1)
  <2>1. SUFFICES ASSUME k + 1 \in 1 .. n, Room(k + 1) PROVE FALSE
    OBVIOUS
  <2>2. ASSUME NEW j \in 1 .. (k + 1) PROVE Room(j)
    <3>1. j \in 1 .. k \/ j = k + 1
      BY <1>5
    <3>2. j \in 1 .. k => j \in 1 .. j
      BY <1>5
    <3> QED  BY <1>2, <1>5, <2>1, <3>1, <3>2
  <2>3. k + 1 \in R
    BY <1>2, <2>1, <2>2
  <2> QED  BY <1>5, <2>3
<1>17. Room(k + 1) = (Cardinality(Active(s) \ {d}) + Cardinality(OpenBefore(s, k + 1))
               < Limit(dispatch[q[k + 1]].steps, s))
  BY DEF Room
<1>18. ReachedFor(d, s) = 1 .. k
  BY <1>5 DEF R
<1>19. Reaches(d, s, k)
  BY <1>7, <1>11, <1>13, <1>14, <1>15, <1>16, <1>17, <1>18 DEF Reaches, w
<1> QED  BY <1>5, <1>19

(***************************************************************************)
(* If admission leaves somebody in the queue then somebody runs: a run     *)
(* that was in flight beside the finished one, or one it has admitted.     *)
(***************************************************************************)
LEMMA SomebodyRuns ==
    ASSUME TypeOK, OnceQueued, NEW d \in DispatchIds, NEW s \in StepIds,
           \A e \in DispatchIds : Fits(e), QueueLeft(d, s) # <<>>
    PROVE  (Active(s) \ {d}) \cup Admitted(d, s) # {}
<1>1. PICK k \in 0 .. Len(queue[s]) : Reaches(d, s, k)
  BY AdmissionReaches
<1> DEFINE e == queue[s][k + 1]
<1>2. /\ k + 1 \in 1 .. Len(queue[s])
      /\ ~(Cardinality(Active(s) \ {d}) + Cardinality(OpenBefore(s, k + 1))
               < Limit(dispatch[e].steps, s))
  BY <1>1 DEF Reaches
<1>3. e \in DispatchIds /\ e \in Waiting(s)
  BY <1>2 DEF TypeOK, Waiting
<1>4. dispatch[e].steps \in LineVersions /\ s <= Len(dispatch[e].steps)
  <2>1. dispatch[e] \in DispatchRow /\ s <= Len(dispatch[e].steps)
    BY <1>3, WaitIsThePlace
  <2> QED  BY <2>1 DEF DispatchRow
<1>5. Limit(dispatch[e].steps, s) \in Nat \ {0}
  BY <1>4, LimitIsPositive
<1>6. ~(Active(s) \ {d} = {} /\ OpenBefore(s, k + 1) = {})
  <2>1. SUFFICES ASSUME Active(s) \ {d} = {}, OpenBefore(s, k + 1) = {} PROVE FALSE
    OBVIOUS
  <2>2. Cardinality(Active(s) \ {d}) = 0 /\ Cardinality(OpenBefore(s, k + 1)) = 0
    BY <2>1, FS_EmptySet
  <2> HIDE DEF e
  <2> QED  BY <1>2, <1>5, <2>2
<1>7. CASE OpenBefore(s, k + 1) # {}
  <2>1. PICK j \in 1 .. (k + 1) - 1 : ForOpenOrder(queue[s][j])
    BY <1>7 DEF OpenBefore
  <2>2. j \in 1 .. k
    BY <1>1, <2>1
  <2>3. queue[s][j] \in Admitted(d, s)
    BY <1>1, <2>1, <2>2 DEF Reaches, Admitted
  <2> QED  BY <2>3
<1> QED  BY <1>6, <1>7

-----------------------------------------------------------------------------
(* What every step does. *)

\* Starts stay within the limit and in the order of the queue: the two action properties.
StartsWithinLimit ==
    \A s \in StepIds : NewlyStarted(s) # {} =>
        \E d \in NewlyStarted(s) : Cardinality(Active(s)') <= Limit(dispatch[d].steps, s)'

StartsInOrder ==
    \A s \in StepIds : \A d \in NewlyStarted(s), j \in 1 .. Len(queue[s]) :
        queue[s][j] \in Waiting(s)' => \E i \in 1 .. j - 1 : queue[s][i] = d

GoodStep ==
    /\ TypeOK' /\ OnceQueued' /\ AdvanceFits' /\ QueueIsServed'
    /\ \A d \in DispatchIds : TraversalStep(d)
    /\ StartsWithinLimit /\ StartsInOrder

\* A deleted app does not come back.
DeletedStay == \A a \in Apps : app[a] = "deleted" => app'[a] = "deleted"

\* Steps that start no run.
LEMMA NobodyStarts ==
    ASSUME \A s \in StepIds : Active(s)' \subseteq Active(s)
    PROVE  StartsWithinLimit /\ StartsInOrder
  BY DEF StartsWithinLimit, StartsInOrder, NewlyStarted

\* Steps beside the line: reads, and edits of the line and the apps.
LEMMA StepBeside ==
    ASSUME LineInv, UNCHANGED <<dispatch, exec, queue>>, TypeOK', AdvanceFits', DeletedStay
    PROVE  GoodStep
<1>1. \A s \in StepIds : Active(s)' = Active(s) /\ Waiting(s)' = Waiting(s)
  BY DEF Active, Waiting
<1>2. \A d \in DispatchIds : TraversalStep(d)
  BY <1>1 DEF TraversalStep, Rests, SameExec, SameDispatch, SameWaits
<1>3. OnceQueued' /\ QueueIsServed'
  BY <1>1 DEF LineInv, OnceQueued, QueueIsServed, DeletedStay
<1>4. StartsWithinLimit /\ StartsInOrder
  BY <1>1, NobodyStarts
<1> QED  BY <1>2, <1>3, <1>4 DEF GoodStep

\* Requests read, orders are moved without queued work, the finalizer takes and leaves the lock.
LEMMA StepReads ==
    ASSUME LineInv,
           \/ \E r \in Requests, o \in Orders : ReadForDispatch(r, o)
           \/ \E r \in Requests, o \in Orders, to \in OrderStates : ReadForStatus(r, o, to)
           \/ \E r \in Requests : AbortRequest(r)
           \/ RollBackAdvance
           \/ \E d \in DispatchIds, s \in StepIds : ReadForAdvance(d, s)
    PROVE  GoodStep
<1>1. TypeOK
  BY DEF LineInv
<1>2. ASSUME NEW r \in Requests, NEW o \in Orders, ReadForDispatch(r, o)
      PROVE  TypeOK' /\ UNCHANGED <<app, dispatch, exec, queue, advance>>
  <2>1. [op |-> "dispatch", order |-> o, seen |-> order[o], steps |-> line] \in RequestRow
    BY <1>1, <1>2 DEF ReadForDispatch, TypeOK, RequestRow
  <2> QED  BY <1>1, <1>2, <2>1 DEF ReadForDispatch, TypeOK
<1>3. ASSUME NEW r \in Requests, NEW o \in Orders, NEW to \in OrderStates, ReadForStatus(r, o, to)
      PROVE  TypeOK' /\ UNCHANGED <<app, dispatch, exec, queue, advance>>
  <2>1. [op |-> "status", order |-> o, seen |-> order[o], to |-> to] \in RequestRow
    BY <1>1, <1>3 DEF ReadForStatus, TypeOK, RequestRow
  <2> QED  BY <1>1, <1>3, <2>1 DEF ReadForStatus, TypeOK
<1>4. ASSUME NEW r \in Requests, AbortRequest(r)
      PROVE  TypeOK' /\ UNCHANGED <<app, dispatch, exec, queue, advance>>
  BY <1>1, <1>4 DEF AbortRequest, TypeOK
<1>5. ASSUME TypeOK', UNCHANGED <<app, dispatch, exec, queue, advance>> PROVE GoodStep
  <2>1. AdvanceFits' /\ DeletedStay
    BY <1>5 DEF LineInv, AdvanceFits, DeletedStay
  <2> QED  BY <1>5, <2>1, StepBeside
<1>6. CASE RollBackAdvance
  <2>1. TypeOK' /\ AdvanceFits' /\ DeletedStay /\ UNCHANGED <<dispatch, exec, queue>>
    BY <1>1, <1>6 DEF RollBackAdvance, TypeOK, AdvanceFits, DeletedStay
  <2> QED  BY <2>1, StepBeside
<1>7. ASSUME NEW d \in DispatchIds, NEW s \in StepIds, ReadForAdvance(d, s) PROVE GoodStep
  <2>1. dispatch[d].state = "active"
    BY <1>1, <1>7, InFlightIsThePlace DEF LineInv, ReadForAdvance, InFlight
  <2>2. order[dispatch[d].order] \in OrderStates
    <3>1. dispatch[d] \in DispatchRow
      BY <1>1, <2>1, ExecRow DEF NoDispatch
    <3> QED  BY <1>1, <3>1 DEF TypeOK, DispatchRow
  <2>3. TypeOK'
    BY <1>1, <1>7, <2>2 DEF ReadForAdvance, TypeOK
  <2>4. AdvanceFits' /\ DeletedStay /\ UNCHANGED <<dispatch, exec, queue>>
    BY <1>7 DEF ReadForAdvance, AdvanceFits, DeletedStay
  <2> QED  BY <2>3, <2>4, StepBeside
<1> QED  BY <1>2, <1>3, <1>4, <1>5, <1>6, <1>7

\* Editing the line or an app leaves every traversal where it is.
LEMMA StepEdits ==
    ASSUME LineInv, (\E v \in LineVersions : UpdateLine(v)) \/ (\E a \in Apps : DeleteEntrypoint(a) \/ SoftDelete(a))
    PROVE  GoodStep
<1>1. TypeOK
  BY DEF LineInv
<1>2. ASSUME NEW v \in LineVersions, UpdateLine(v) PROVE GoodStep
  <2>1. TypeOK' /\ AdvanceFits' /\ DeletedStay /\ UNCHANGED <<dispatch, exec, queue>>
    BY <1>1, <1>2 DEF UpdateLine, TypeOK, LineInv, AdvanceFits, DeletedStay
  <2> QED  BY <2>1, StepBeside
<1>3. ASSUME NEW a \in Apps, DeleteEntrypoint(a) \/ SoftDelete(a) PROVE GoodStep
  <2>1. TypeOK' /\ AdvanceFits' /\ DeletedStay /\ UNCHANGED <<dispatch, exec, queue>>
    BY <1>1, <1>3 DEF DeleteEntrypoint, SoftDelete, TypeOK, LineInv, AdvanceFits, DeletedStay
  <2> QED  BY <2>1, StepBeside
<1> QED  BY <1>2, <1>3

-----------------------------------------------------------------------------
(* Runs that start or are deleted. *)

\* A run that starts keeps its slot.
LEMMA StepStartRun ==
    ASSUME LineInv, NEW d \in DispatchIds, NEW s \in StepIds, StartRun(d, s)
    PROVE  GoodStep
<1>1. TypeOK /\ OnceQueued /\ AdvanceFits /\ QueueIsServed
  BY DEF LineInv
<1>2. /\ exec[d][s] = "pending" /\ exec' = [exec EXCEPT ![d][s] = "running"]
      /\ UNCHANGED <<order, line, app, dispatch, queue, req, advance>>
  BY DEF StartRun
<1>3. /\ exec' \in [DispatchIds -> [StepIds -> ExecStates]]
      /\ exec'[d] = [exec[d] EXCEPT ![s] = "running"]
      /\ \A e \in DispatchIds : e # d => exec'[e] = exec[e]
  <2>1. exec \in [DispatchIds -> [StepIds -> ExecStates]]
    BY <1>1 DEF TypeOK, ExecStates
  <2>2. [exec[d] EXCEPT ![s] = "running"] \in [StepIds -> ExecStates]
    BY <2>1 DEF ExecStates, InFlight
  <2> QED  BY <1>2, <2>1, <2>2
<1>4. \A e \in DispatchIds, t \in StepIds :
         exec'[e][t] = IF e = d /\ t = s THEN "running" ELSE exec[e][t]
  BY <1>1, <1>3, ExecRow
<1>5. TypeOK' /\ OnceQueued'
  BY <1>1, <1>2, <1>3 DEF TypeOK, OnceQueued, ExecStates
<1>6. \A t \in StepIds : Active(t)' = Active(t) /\ Waiting(t)' = Waiting(t)
  BY <1>2, <1>4 DEF Active, Waiting, InFlight
<1>7. AdvanceFits'
  BY <1>1, <1>2, <1>4 DEF AdvanceFits, TypeOK, NoAdvance
<1>8. QueueIsServed'
  BY <1>1, <1>2, <1>6 DEF QueueIsServed
<1>9. \A e \in DispatchIds : Runs(e) \/ Rests(e)
  BY <1>2, <1>3, <1>6 DEF Runs, Rests, ExecSet, SameExec, SameDispatch, SameWaits
<1>10. StartsWithinLimit /\ StartsInOrder
  BY <1>6, NobodyStarts
<1> QED  BY <1>5, <1>7, <1>8, <1>9, <1>10 DEF GoodStep, TraversalStep

\* Finishing a set of active dispatches.
LEMMA FinishedRows ==
    ASSUME TypeOK, NEW ds, NEW x \in Results
    PROVE  /\ Finished(ds, x) \in [DispatchIds -> DispatchRow \cup {NoDispatch}]
           /\ \A e \in DispatchIds : Finished(ds, x)[e] =
                 IF e \in ds /\ dispatch[e].state = "active"
                 THEN [dispatch[e] EXCEPT !.state = x] ELSE dispatch[e]
<1>1. \A e \in DispatchIds : dispatch[e] \in DispatchRow \cup {NoDispatch}
  BY DEF TypeOK
<1>2. ASSUME NEW e \in DispatchIds, dispatch[e].state = "active"
      PROVE  [dispatch[e] EXCEPT !.state = x] \in DispatchRow
  <2>1. dispatch[e] \in DispatchRow
    BY <1>1, <1>2 DEF NoDispatch
  <2> QED  BY <2>1 DEF DispatchRow
<1>3. \A e \in DispatchIds : Finished(ds, x)[e] =
         IF e \in ds /\ dispatch[e].state = "active"
         THEN [dispatch[e] EXCEPT !.state = x] ELSE dispatch[e]
  BY DEF Finished
<1>4. Finished(ds, x) \in [DispatchIds -> DispatchRow \cup {NoDispatch}]
  BY <1>1, <1>2 DEF Finished
<1> QED  BY <1>3, <1>4

\* The deletion of an app takes the runs of its steps with it.
LEMMA StepDeleteRun ==
    ASSUME LineInv, NEW d \in DispatchIds, NEW s \in StepIds, DeleteRun(d, s)
    PROVE  GoodStep
<1>1. TypeOK /\ OnceQueued /\ AdvanceFits /\ QueueIsServed /\ Fits(d)
  BY DEF LineInv
<1>2. /\ exec[d][s] \in InFlight /\ exec' = [exec EXCEPT ![d][s] = "stopped"]
      /\ app[StepApp(d, s)] = "deleted"
      /\ advance # NoAdvance => ~(advance.dispatch = d /\ advance.step = s)
      /\ dispatch' = Finished({d}, "stopped")
      /\ UNCHANGED <<order, line, app, queue, req, advance>>
  BY DEF DeleteRun
<1>3. /\ exec' \in [DispatchIds -> [StepIds -> ExecStates]]
      /\ exec'[d] = [exec[d] EXCEPT ![s] = "stopped"]
      /\ \A e \in DispatchIds : e # d => exec'[e] = exec[e]
  <2>1. exec \in [DispatchIds -> [StepIds -> ExecStates]]
    BY <1>1 DEF TypeOK, ExecStates
  <2>2. [exec[d] EXCEPT ![s] = "stopped"] \in [StepIds -> ExecStates]
    BY <2>1 DEF ExecStates, Results
  <2> QED  BY <1>2, <2>1, <2>2
<1>4. \A e \in DispatchIds, t \in StepIds :
         exec'[e][t] = IF e = d /\ t = s THEN "stopped" ELSE exec[e][t]
  BY <1>1, <1>3, ExecRow
<1>5. dispatch[d].state = "active" /\ dispatch[d] \in DispatchRow
  BY <1>1, <1>2, InFlightIsThePlace, ExecRow DEF NoDispatch
<1>6. /\ dispatch' \in [DispatchIds -> DispatchRow \cup {NoDispatch}]
      /\ dispatch'[d] = [dispatch[d] EXCEPT !.state = "stopped"]
      /\ \A e \in DispatchIds : e # d => dispatch'[e] = dispatch[e]
  <2>1. "stopped" \in Results
    BY DEF Results
  <2>2. /\ dispatch' \in [DispatchIds -> DispatchRow \cup {NoDispatch}]
        /\ \A e \in DispatchIds : dispatch'[e] =
              IF e \in {d} /\ dispatch[e].state = "active"
              THEN [dispatch[e] EXCEPT !.state = "stopped"] ELSE dispatch[e]
    BY <1>1, <1>2, <2>1, FinishedRows
  <2> QED  BY <1>5, <2>2
<1>7. TypeOK' /\ OnceQueued'
  BY <1>1, <1>2, <1>3, <1>6 DEF TypeOK, OnceQueued, ExecStates
<1>8. \A t \in StepIds : Active(t)' \subseteq Active(t) /\ Waiting(t)' = Waiting(t)
  BY <1>2, <1>4 DEF Active, Waiting, InFlight
<1>9. AdvanceFits'
  BY <1>1, <1>2, <1>4 DEF AdvanceFits, TypeOK, NoAdvance
<1>10. QueueIsServed'
  <2>1. StepApp(d, s) \in Apps
    <3> DEFINE R == [app : Apps, max : Nat \ {0}]
               v == dispatch[d].steps
    <3>1. v \in Seq(R) /\ s \in 1 .. Len(v)
      <4>1. v \in Seq(R)
        BY <1>5, FactoryAssumption DEF DispatchRow
      <4>2. s <= Len(v)
        BY <1>1, <1>2 DEF Fits, StepsFit, InFlight
      <4>3. Len(v) \in Nat /\ s \in Nat /\ s >= 1
        <5> HIDE DEF R, v
        <5> QED  BY <4>1, FactoryAssumption DEF StepIds
      <4> HIDE DEF R, v
      <4> QED  BY <4>1, <4>2, <4>3
    <3>2. v[s] \in R
      <4> HIDE DEF R, v
      <4> QED  BY <3>1
    <3> QED  BY <3>2 DEF StepApp
  <2> QED  BY <1>2, <2>1 DEF QueueIsServed
<1>11. \A e \in DispatchIds : Stops(e) \/ Rests(e)
  <2>1. "stopped" \in Results
    BY DEF Results
  <2>2. Stops(d)
    BY <1>2, <1>3, <1>5, <1>6, <1>8, <2>1 DEF Stops, ExecSet, Leaves, SameWaits
  <2>3. \A e \in DispatchIds : e # d => Rests(e)
    BY <1>3, <1>6, <1>8 DEF Rests, SameExec, SameDispatch, SameWaits
  <2> QED  BY <2>2, <2>3
<1>12. StartsWithinLimit /\ StartsInOrder
  BY <1>8, NobodyStarts
<1> QED  BY <1>7, <1>9, <1>10, <1>11, <1>12 DEF GoodStep, TraversalStep

-----------------------------------------------------------------------------
(* Dispatching, and closing an order. *)

\* A queue is empty just when nobody waits.
LEMMA EmptyQueue ==
    ASSUME TypeOK, NEW s \in StepIds PROVE queue[s] # <<>> <=> Waiting(s) # {}
<1>1. queue[s] \in Seq(DispatchIds)
  BY DEF TypeOK
<1>2. queue[s] # <<>> <=> 1 \in 1 .. Len(queue[s])
  BY <1>1
<1>3. \A i \in 1 .. Len(queue[s]) : 1 \in 1 .. Len(queue[s])
  BY <1>1
<1> QED  BY <1>2, <1>3 DEF Waiting

\* Who has to wait for a step waits for a run.
LEMMA WaitingIsServed ==
    ASSUME LineInv, NEW v \in LineVersions, NEW s \in StepIds, s <= Len(v), HasToWait(v, s),
           \A a \in Apps : app[a] # "deleted"
    PROVE  Active(s) # {}
<1>1. CASE queue[s] # <<>>
  BY <1>1 DEF LineInv, QueueIsServed
<1>2. CASE Cardinality(Active(s)) >= Limit(v, s)
  <2>1. Limit(v, s) \in Nat \ {0}
    BY LimitIsPositive DEF LineInv
  <2>2. SUFFICES ASSUME Active(s) = {} PROVE FALSE
    OBVIOUS
  <2>3. Cardinality(Active(s)) = 0
    BY <2>2, FS_EmptySet
  <2> QED  BY <1>2, <2>1, <2>3
<1> QED  BY <1>1, <1>2 DEF HasToWait

\* Who does not have to wait finds a free slot and nobody before him.
LEMMA OneStarts ==
    ASSUME TypeOK, NEW v \in LineVersions, NEW s \in StepIds, s <= Len(v), ~HasToWait(v, s),
           NEW d \in DispatchIds, d \notin Active(s), Active(s)' = Active(s) \cup {d},
           line' = line, dispatch'[d].steps = v
    PROVE  /\ queue[s] = <<>> /\ NewlyStarted(s) = {d}
           /\ Cardinality(Active(s)') <= Limit(dispatch[d].steps, s)'
<1>1. queue[s] = <<>> /\ ~(Cardinality(Active(s)) >= Limit(v, s))
  BY DEF HasToWait
<1>2. Limit(v, s) \in Nat /\ Cardinality(Active(s)) \in Nat /\ IsFiniteSet(Active(s))
  BY LimitIsPositive, ActiveIsFinite
<1>3. Cardinality(Active(s) \cup {d}) = Cardinality(Active(s)) + 1
  BY <1>2, FS_AddElement
<1>4. Limit(dispatch[d].steps, s)' = Limit(v, s)
  BY DEF Limit
<1>5. NewlyStarted(s) = {d}
  BY DEF NewlyStarted
<1> QED  BY <1>1, <1>2, <1>3, <1>4, <1>5

\* A dispatch enters the line at its first step, running or waiting.
LEMMA StepCommitDispatch ==
    ASSUME LineInv, NEW r \in Requests, NEW d \in DispatchIds, CommitDispatch(r, d)
    PROVE  GoodStep
<1> DEFINE rq == req[r]
           row == [state |-> "active", order |-> rq.order, steps |-> rq.steps]
<1>1. TypeOK /\ OnceQueued /\ AdvanceFits /\ QueueIsServed /\ Fits(d) /\ 1 \in StepIds
  BY FactoryAssumption DEF LineInv, StepIds
<1>2. rq.order \in Orders /\ rq.steps \in LineVersions /\ 1 <= Len(rq.steps)
  <2>1. rq.op = "dispatch" /\ rq \in RequestRow \cup {IdleRequest}
    BY <1>1 DEF CommitDispatch, TypeOK
  <2>2. rq.order \in Orders /\ rq.steps \in LineVersions
    BY <2>1 DEF RequestRow, IdleRequest
  <2> QED  BY <2>2, FactoryAssumption
<1>3. /\ dispatch[d] = NoDispatch /\ dispatch' = [dispatch EXCEPT ![d] = row]
      /\ order' = IF rq.seen = "draft" THEN [order EXCEPT ![rq.order] = "open"] ELSE order
      /\ req' = [req EXCEPT ![r] = IdleRequest]
      /\ advance = NoAdvance /\ UNCHANGED <<line, app, advance>>
  BY DEF CommitDispatch, LineUnlocked
<1>4. /\ dispatch' \in [DispatchIds -> DispatchRow \cup {NoDispatch}]
      /\ dispatch'[d] = row /\ \A e \in DispatchIds : e # d => dispatch'[e] = dispatch[e]
  <2>1. row \in DispatchRow
    BY <1>2 DEF DispatchRow
  <2>2. dispatch \in [DispatchIds -> DispatchRow \cup {NoDispatch}]
    BY <1>1 DEF TypeOK
  <2> HIDE DEF row
  <2> QED  BY <1>3, <2>1, <2>2
<1>5. /\ dispatch'[d].state = "active" /\ dispatch'[d].steps = rq.steps
      /\ order' \in [Orders -> OrderStates]
      /\ req' \in [Requests -> RequestRow \cup {IdleRequest}]
  BY <1>1, <1>2, <1>3, <1>4 DEF TypeOK, OrderStates
<1>6. /\ \A t \in StepIds : exec[d][t] = "none"
      /\ \A t \in StepIds : d \notin Waiting(t) /\ d \notin Active(t)
  <2>1. \A t \in StepIds : exec[d][t] = "none"
    BY <1>1, <1>3 DEF Fits, StepsFit, NoDispatch
  <2>2. \A t \in StepIds : d \notin Waiting(t)
    BY <1>1, <1>3 DEF Fits, WaitsFit, NoDispatch
  <2> QED  BY <2>1, <2>2 DEF Active, InFlight
<1>7. AdvanceFits'
  BY <1>3 DEF AdvanceFits
<1> HIDE DEF rq, row
<1>8. CASE /\ HasToWait(rq.steps, 1) /\ exec' = exec
           /\ queue' = [queue EXCEPT ![1] = Append(@, d)]
  <2>1. /\ queue \in [StepIds -> Seq(DispatchIds)]
        /\ queue'[1] = Append(queue[1], d)
        /\ \A t \in StepIds : t # 1 => queue'[t] = queue[t]
    BY <1>1, <1>8 DEF TypeOK
  <2>2. /\ Append(queue[1], d) \in Seq(DispatchIds)
        /\ {Append(queue[1], d)[i] : i \in 1 .. Len(Append(queue[1], d))} = Waiting(1) \cup {d}
    BY <1>1, <2>1, AppendRows DEF Waiting
  <2>3. \A i, j \in 1 .. Len(Append(queue[1], d)) :
           Append(queue[1], d)[i] = Append(queue[1], d)[j] => i = j
    <3>1. \A i, j \in 1 .. Len(queue[1]) : queue[1][i] = queue[1][j] => i = j
      BY <1>1 DEF OnceQueued
    <3>2. d \notin {queue[1][i] : i \in 1 .. Len(queue[1])}
      BY <1>1, <1>6 DEF Waiting
    <3> QED  BY <1>1, <2>1, <3>1, <3>2, AppendRows
  <2>4. queue' \in [StepIds -> Seq(DispatchIds)]
    BY <1>8, <2>1, <2>2
  <2>5. TypeOK'
    BY <1>1, <1>3, <1>4, <1>5, <1>8, <2>4 DEF TypeOK
  <2>6. OnceQueued'
    BY <1>1, <2>1, <2>3 DEF OnceQueued
  <2>7. /\ Waiting(1)' = Waiting(1) \cup {d}
        /\ \A t \in StepIds : t # 1 => Waiting(t)' = Waiting(t)
        /\ \A t \in StepIds : Active(t)' = Active(t)
    BY <1>8, <2>1, <2>2 DEF Waiting, Active
  <2>8. QueueIsServed'
    <3>1. ASSUME \A a \in Apps : app[a] # "deleted" PROVE Active(1) # {}
      BY <1>1, <1>2, <1>8, <3>1, WaitingIsServed
    <3> QED  BY <1>1, <1>3, <2>1, <2>7, <3>1 DEF QueueIsServed
  <2>9. Enters(d)
    BY <1>2, <1>3, <1>5, <1>6, <1>8, <2>7 DEF Enters, SameExec, WaitsOnlyAt
  <2>10. \A e \in DispatchIds : e # d => Rests(e)
    BY <1>4, <1>8, <2>7 DEF Rests, SameExec, SameDispatch, SameWaits
  <2>11. StartsWithinLimit /\ StartsInOrder
    BY <2>7, NobodyStarts
  <2> QED  BY <1>7, <2>5, <2>6, <2>8, <2>9, <2>10, <2>11 DEF GoodStep, TraversalStep
<1>9. CASE /\ ~HasToWait(rq.steps, 1) /\ queue' = queue
           /\ exec' = [exec EXCEPT ![d][1] = "pending"]
  <2>1. exec \in [DispatchIds -> [StepIds -> ExecStates]]
    BY <1>1 DEF TypeOK, ExecStates
  <2>2. [exec[d] EXCEPT ![1] = "pending"] \in [StepIds -> ExecStates]
    BY <2>1 DEF ExecStates, InFlight
  <2>3. /\ exec' \in [DispatchIds -> [StepIds -> ExecStates]]
        /\ exec'[d] = [exec[d] EXCEPT ![1] = "pending"]
        /\ \A e \in DispatchIds : e # d => exec'[e] = exec[e]
    BY <1>9, <2>1, <2>2
  <2>4. \A e \in DispatchIds, t \in StepIds :
           exec'[e][t] = IF e = d /\ t = 1 THEN "pending" ELSE exec[e][t]
    BY <1>1, <2>3, ExecRow
  <2>5. /\ Active(1)' = Active(1) \cup {d}
        /\ \A t \in StepIds : t # 1 => Active(t)' = Active(t)
        /\ \A t \in StepIds : Waiting(t)' = Waiting(t)
    BY <1>1, <1>9, <2>4 DEF Active, Waiting, InFlight
  <2>6. TypeOK' /\ OnceQueued'
    BY <1>1, <1>3, <1>4, <1>5, <1>9, <2>3 DEF TypeOK, OnceQueued, ExecStates
  <2>7. QueueIsServed'
    <3>1. \A t \in StepIds : Active(t) \subseteq Active(t)'
      BY <2>5
    <3> QED  BY <1>1, <1>3, <1>9, <3>1 DEF QueueIsServed
  <2>8. Enters(d)
    BY <1>2, <1>3, <1>5, <1>6, <2>3, <2>5 DEF Enters, ExecSet, WaitsNowhere
  <2>9. \A e \in DispatchIds : e # d => Rests(e)
    BY <1>4, <2>3, <2>5 DEF Rests, SameExec, SameDispatch, SameWaits
  <2>10. /\ queue[1] = <<>> /\ NewlyStarted(1) = {d}
         /\ Cardinality(Active(1)') <= Limit(dispatch[d].steps, 1)'
    BY <1>1, <1>2, <1>3, <1>5, <1>6, <1>9, <2>5, OneStarts
  <2>11. \A t \in StepIds : t # 1 => NewlyStarted(t) = {}
    BY <2>5 DEF NewlyStarted
  <2>12. StartsWithinLimit
    BY <2>10, <2>11 DEF StartsWithinLimit
  <2>13. StartsInOrder
    <3>1. ~(\E j \in 1 .. Len(queue[1]) : TRUE)
      BY <2>10
    <3> QED  BY <2>11, <3>1 DEF StartsInOrder
  <2> QED  BY <1>7, <2>6, <2>7, <2>8, <2>9, <2>12, <2>13 DEF GoodStep, TraversalStep
<1> QED  BY <1>8, <1>9 DEF CommitDispatch, rq

\* A status change drops the traversals that wait and stops the ones that run.
LEMMA StepCommitStatus ==
    ASSUME LineInv, NEW r \in Requests, CommitStatus(r)
    PROVE  GoodStep
<1> DEFINE rq == req[r]
           dropped == IF rq.to = "closed" THEN QueuedFor(rq.order) ELSE {}
<1>1. TypeOK /\ OnceQueued /\ AdvanceFits /\ QueueIsServed
  BY DEF LineInv
<1>2. rq.order \in Orders /\ rq.to \in OrderStates
  <2>1. rq.op = "status" /\ rq \in RequestRow \cup {IdleRequest}
    BY <1>1 DEF CommitStatus, TypeOK
  <2> QED  BY <2>1 DEF RequestRow, IdleRequest
<1>3. /\ order' = [order EXCEPT ![rq.order] = rq.to]
      /\ queue' = [s \in StepIds |-> Without(queue[s], dropped)]
      /\ dispatch' = Finished(dropped, "stopped")
      /\ req' = [req EXCEPT ![r] = IdleRequest]
      /\ UNCHANGED <<line, app, exec, advance>>
  BY DEF CommitStatus
<1>4. order' \in [Orders -> OrderStates] /\ req' \in [Requests -> RequestRow \cup {IdleRequest}]
  BY <1>1, <1>2, <1>3 DEF TypeOK
<1>5. \A e \in dropped : e \in DispatchIds /\ dispatch[e].state = "active"
                         /\ \E s \in StepIds : e \in Waiting(s)
  BY DEF QueuedFor, Traversals
<1> HIDE DEF dropped, rq
<1>6. ASSUME NEW s \in StepIds
      PROVE  /\ queue'[s] \in Seq(DispatchIds)
             /\ Waiting(s)' = Waiting(s) \ dropped
             /\ \A m, n \in 1 .. Len(queue'[s]) : queue'[s][m] = queue'[s][n] => m = n
  <2>1. queue[s] \in Seq(DispatchIds) /\ queue'[s] = Without(queue[s], dropped)
    BY <1>1, <1>3 DEF TypeOK
  <2>2. \A i, j \in 1 .. Len(queue[s]) : queue[s][i] = queue[s][j] => i = j
    BY <1>1 DEF OnceQueued
  <2> DEFINE w == Without(queue[s], dropped)
  <2>3. /\ w \in Seq(DispatchIds)
        /\ {w[n] : n \in 1 .. Len(w)} = {queue[s][i] : i \in 1 .. Len(queue[s])} \ dropped
        /\ (\A i, j \in 1 .. Len(queue[s]) : queue[s][i] = queue[s][j] => i = j) =>
              \A m, n \in 1 .. Len(w) : w[m] = w[n] => m = n
    BY <2>1, WithoutItems, Zenon
  <2> HIDE DEF w
  <2>4. \A m, n \in 1 .. Len(w) : w[m] = w[n] => m = n
    BY <2>2, <2>3
  <2>5. queue'[s] = w
    BY <2>1 DEF w
  <2> QED  BY <2>3, <2>4, <2>5 DEF Waiting
<1>7. /\ dispatch' \in [DispatchIds -> DispatchRow \cup {NoDispatch}]
      /\ \A e \in DispatchIds : dispatch'[e] =
            IF e \in dropped /\ dispatch[e].state = "active"
            THEN [dispatch[e] EXCEPT !.state = "stopped"] ELSE dispatch[e]
  <2>1. "stopped" \in Results
    BY DEF Results
  <2> QED  BY <1>1, <1>3, <2>1, FinishedRows
<1>8. TypeOK'
  <2>1. queue' \in [StepIds -> Seq(DispatchIds)]
    BY <1>3, <1>6
  <2> QED  BY <1>1, <1>3, <1>4, <1>7, <2>1 DEF TypeOK
<1>9. OnceQueued' /\ AdvanceFits'
  BY <1>1, <1>3, <1>6 DEF OnceQueued, AdvanceFits
<1>10. \A s \in StepIds : Active(s)' = Active(s)
  BY <1>3 DEF Active
<1>11. QueueIsServed'
  <2>1. ASSUME NEW s \in StepIds, queue'[s] # <<>> PROVE queue[s] # <<>>
    <3>1. Waiting(s)' # {}
      <4>1. queue'[s] \in Seq(DispatchIds)
        BY <1>6
      <4>2. 1 \in 1 .. Len(queue'[s])
        BY <2>1, <4>1
      <4> QED  BY <4>2 DEF Waiting
    <3> QED  BY <1>1, <1>6, <3>1, EmptyQueue
  <2> QED  BY <1>1, <1>3, <1>10, <2>1 DEF QueueIsServed
<1>12. \A e \in DispatchIds : IsDropped(e) \/ Rests(e)
  <2>1. ASSUME NEW e \in DispatchIds, e \in dropped PROVE IsDropped(e)
    BY <1>3, <1>5, <1>6, <1>7, <2>1 DEF IsDropped, SameExec, Leaves, WaitsNowhere
  <2>2. ASSUME NEW e \in DispatchIds, e \notin dropped PROVE Rests(e)
    BY <1>3, <1>6, <1>7, <2>2 DEF Rests, SameExec, SameDispatch, SameWaits
  <2> QED  BY <2>1, <2>2
<1>13. StartsWithinLimit /\ StartsInOrder
  BY <1>10, NobodyStarts
<1> QED  BY <1>8, <1>9, <1>11, <1>12, <1>13 DEF GoodStep, TraversalStep

-----------------------------------------------------------------------------
(* A run ends and hands its slot to the queue. *)

HandsOver(d, s) ==
    /\ exec[d][s] \in InFlight /\ exec'[d][s] \in Results
    /\ \A e \in DispatchIds : e # d =>
          /\ exec'[e] = IF e \in Admitted(d, s) THEN [exec[e] EXCEPT ![s] = "pending"] ELSE exec[e]
          /\ dispatch'[e] = IF e \in Dropped(d, s)
                            THEN [dispatch[e] EXCEPT !.state = "stopped"] ELSE dispatch[e]
          /\ \A t \in StepIds : t # s => (e \in Waiting(t)' <=> e \in Waiting(t))
    /\ queue'[s] = QueueLeft(d, s)
    /\ line' = line

\* Who is taken from the queue waited there, and nowhere else.
LEMMA TakenWaited ==
    ASSUME LineInv, NEW d \in DispatchIds, NEW s \in StepIds, exec[d][s] \in InFlight
    PROVE  /\ \A e \in Taken(d, s) :
                 /\ e \in DispatchIds /\ e # d /\ e \in Waiting(s) /\ dispatch[e].state = "active"
                 /\ \A t \in StepIds : exec[e][t] \notin InFlight
                 /\ \A t \in StepIds : t # s => e \notin Waiting(t)
           /\ \A t \in StepIds : d \notin Waiting(t)
<1>1. TypeOK /\ \A e \in DispatchIds : Fits(e)
  BY DEF LineInv
<1>2. \A t \in StepIds : d \notin Waiting(t)
  BY <1>1, InFlightIsThePlace
<1>3. Taken(d, s) \subseteq Waiting(s)
  BY DEF Taken, ReachedFor, Waiting
<1>4. Waiting(s) \subseteq DispatchIds
  BY <1>1 DEF Waiting, TypeOK
<1>5. ASSUME NEW e \in Taken(d, s)
      PROVE  /\ e \in DispatchIds /\ e # d /\ e \in Waiting(s) /\ dispatch[e].state = "active"
             /\ \A t \in StepIds : exec[e][t] \notin InFlight
             /\ \A t \in StepIds : t # s => e \notin Waiting(t)
  <2>1. e \in DispatchIds /\ e \in Waiting(s) /\ e # d
    BY <1>2, <1>3, <1>4
  <2> QED  BY <1>1, <2>1, WaitIsThePlace
<1> QED  BY <1>2, <1>5

\* The run that ends hands its slot over to the head of the queue.
LEMMA SlotHandedOver ==
    ASSUME LineInv, NEW d \in DispatchIds, NEW s \in StepIds, HandsOver(d, s)
    PROVE  /\ \A e \in DispatchIds : e # d => TraversalStep(e)
           /\ Waiting(s)' = Waiting(s) \ Taken(d, s)
           /\ Active(s)' = (Active(s) \ {d}) \cup Admitted(d, s)
           /\ NewlyStarted(s) = Admitted(d, s)
           /\ \A t \in StepIds, e \in DispatchIds : t # s /\ e # d => exec'[e][t] = exec[e][t]
<1>1. TypeOK /\ OnceQueued
  BY DEF LineInv
<1>2. /\ \A e \in Taken(d, s) :
            /\ e \in DispatchIds /\ e # d /\ e \in Waiting(s) /\ dispatch[e].state = "active"
            /\ \A t \in StepIds : exec[e][t] \notin InFlight
            /\ \A t \in StepIds : t # s => e \notin Waiting(t)
      /\ \A t \in StepIds : d \notin Waiting(t)
  BY TakenWaited DEF HandsOver
<1>3. Waiting(s)' = Waiting(s) \ Taken(d, s)
  <2>1. PICK k \in 0 .. Len(queue[s]) : Reaches(d, s, k)
    BY <1>1, AdmissionReaches
  <2>2. {QueueLeft(d, s)[i] : i \in 1 .. Len(QueueLeft(d, s))} = Waiting(s) \ Taken(d, s)
    BY <2>1 DEF Reaches
  <2>3. queue'[s] = QueueLeft(d, s)
    BY DEF HandsOver
  <2>4. Waiting(s)' = {queue'[s][i] : i \in 1 .. Len(queue'[s])}
    BY DEF Waiting
  <2> QED  BY <2>2, <2>3, <2>4
<1>4. /\ \A e \in Admitted(d, s) : e \in Taken(d, s) /\ e \notin Dropped(d, s)
      /\ \A e \in Taken(d, s) : e \in Admitted(d, s) \/ e \in Dropped(d, s)
      /\ \A e \in Dropped(d, s) : e \in Taken(d, s) /\ e \notin Admitted(d, s)
  BY DEF Admitted, Dropped
<1>5. ASSUME NEW e \in DispatchIds, NEW t \in StepIds, e # d
      PROVE  exec'[e][t] = IF e \in Admitted(d, s) /\ t = s THEN "pending" ELSE exec[e][t]
  <2>1. exec[e] \in [StepIds -> ExecStates]
    BY <1>1, ExecRow
  <2> QED  BY <1>5, <2>1 DEF HandsOver
<1>6. Active(s)' = (Active(s) \ {d}) \cup Admitted(d, s)
  <2>1. \A e \in DispatchIds : e # d =>
           (exec'[e][s] \in InFlight <=> exec[e][s] \in InFlight \/ e \in Admitted(d, s))
    BY <1>5 DEF InFlight
  <2>2. exec'[d][s] \notin InFlight
    BY DEF HandsOver, Results, InFlight
  <2> QED  BY <1>2, <1>4, <2>1, <2>2 DEF Active
<1>7. NewlyStarted(s) = Admitted(d, s)
  <2>1. \A e \in Admitted(d, s) : e \notin Active(s)
    BY <1>2, <1>4 DEF Active
  <2> QED  BY <1>6, <2>1 DEF NewlyStarted
<1>8. ASSUME NEW e \in DispatchIds, e # d PROVE TraversalStep(e)
  <2>1. /\ exec'[e] = IF e \in Admitted(d, s) THEN [exec[e] EXCEPT ![s] = "pending"] ELSE exec[e]
        /\ dispatch'[e] = IF e \in Dropped(d, s)
                          THEN [dispatch[e] EXCEPT !.state = "stopped"] ELSE dispatch[e]
        /\ \A t \in StepIds : t # s => (e \in Waiting(t)' <=> e \in Waiting(t))
    BY <1>8 DEF HandsOver
  <2>2. CASE e \in Admitted(d, s)
    <3>1. IsAdmitted(e)
      BY <1>2, <1>3, <1>4, <2>1, <2>2 DEF IsAdmitted, ExecSet, SameDispatch, WaitsNowhere
    <3> QED  BY <3>1 DEF TraversalStep
  <2>3. CASE e \in Dropped(d, s)
    <3>1. IsDropped(e)
      BY <1>2, <1>3, <1>4, <2>1, <2>3 DEF IsDropped, SameExec, Leaves, WaitsNowhere
    <3> QED  BY <3>1 DEF TraversalStep
  <2>4. CASE e \notin Taken(d, s)
    <3>1. Rests(e)
      BY <1>3, <1>4, <2>1, <2>4 DEF Rests, SameExec, SameDispatch, SameWaits
    <3> QED  BY <3>1 DEF TraversalStep
  <2> QED  BY <1>4, <2>2, <2>3, <2>4
<1> QED  BY <1>3, <1>5, <1>6, <1>7, <1>8

\* The queue that is left is served.
LEMMA SlotServed ==
    ASSUME LineInv, NEW d \in DispatchIds, NEW s \in StepIds, HandsOver(d, s), queue'[s] # <<>>
    PROVE  Active(s)' # {}
<1>1. QueueLeft(d, s) # <<>>
  BY DEF HandsOver
<1>2. (Active(s) \ {d}) \cup Admitted(d, s) # {}
  BY <1>1, SomebodyRuns DEF LineInv
<1> QED  BY <1>2, SlotHandedOver

\* The last one admitted found a free slot.
LEMMA SlotWithinLimit ==
    ASSUME LineInv, NEW d \in DispatchIds, NEW s \in StepIds, HandsOver(d, s),
           NewlyStarted(s) # {}
    PROVE  \E e \in NewlyStarted(s) : Cardinality(Active(s)') <= Limit(dispatch[e].steps, s)'
<1>1. TypeOK /\ OnceQueued
  BY DEF LineInv
<1> DEFINE q == queue[s]
           A == Active(s) \ {d}
<1>2. PICK k \in 0 .. Len(q) : Reaches(d, s, k)
  BY <1>1, AdmissionReaches
<1> DEFINE Open == {i \in 1 .. k : ForOpenOrder(q[i])}
<1>3. /\ NewlyStarted(s) = Admitted(d, s) /\ Active(s)' = A \cup Admitted(d, s)
  BY SlotHandedOver
<1>4. Admitted(d, s) = {q[i] : i \in Open}
  BY <1>2 DEF Reaches, Admitted
<1>5. PICK m \in Open : \A i \in Open : i <= m
  <2>1. Open \subseteq 1 .. k /\ Open # {} /\ k \in Nat
    BY <1>3, <1>4
  <2> HIDE DEF Open
  <2> QED  BY <2>1, Largest
<1> DEFINE e == q[m]
           B == OpenBefore(s, m)
<1>6. Cardinality(A) + Cardinality(B) < Limit(dispatch[e].steps, s)
  <2>1. m \in ReachedFor(d, s)
    BY <1>2 DEF Reaches
  <2>2. m \in 1 .. m
    BY <1>2
  <2> QED  BY <2>1, <2>2 DEF ReachedFor
<1>7. Open = B \cup {m}
  <2>1. \A i \in Open : i = m \/ i \in 1 .. m - 1
    BY <1>2, <1>5
  <2>2. \A i \in 1 .. m - 1 : i \in 1 .. k
    BY <1>2
  <2> QED  BY <2>1, <2>2 DEF OpenBefore
<1>8. /\ IsFiniteSet(B) /\ Cardinality(B) \in Nat
      /\ IsFiniteSet(Open) /\ Cardinality(Open) <= Cardinality(B) + 1
      /\ Cardinality(Open) \in Nat
  <2>1. B \in SUBSET (1 .. k) /\ m \notin B
    BY <1>2, <1>7 DEF OpenBefore
  <2>2. IsFiniteSet(1 .. k)
    BY FS_Interval
  <2>3. IsFiniteSet(B)
    BY <2>1, <2>2, FS_Subset
  <2> HIDE DEF B, Open
  <2>4. IsFiniteSet(Open) /\ Cardinality(Open) = Cardinality(B) + 1
    BY <1>7, <2>1, <2>3, FS_AddElement
  <2> QED  BY <2>3, <2>4, FS_CardinalityType
<1>9. /\ IsFiniteSet(Admitted(d, s)) /\ Cardinality(Admitted(d, s)) <= Cardinality(Open)
      /\ Cardinality(Admitted(d, s)) \in Nat
  <2> DEFINE f == [i \in Open |-> q[i]]
  <2>1. f \in Surjection(Open, Admitted(d, s))
    <3> HIDE DEF Open
    <3> QED  BY <1>4 DEF Surjection
  <2> HIDE DEF f, Open
  <2>2. IsFiniteSet(Admitted(d, s)) /\ Cardinality(Admitted(d, s)) <= Cardinality(Open)
    BY <1>8, <2>1, FS_Surjection
  <2> QED  BY <2>2, FS_CardinalityType
<1>10. /\ IsFiniteSet(A) /\ Cardinality(A) \in Nat
       /\ Cardinality(A \cup Admitted(d, s)) <= Cardinality(A) + Cardinality(Admitted(d, s))
       /\ Cardinality(A \cup Admitted(d, s)) \in Nat
  <2>1. IsFiniteSet(A) /\ Cardinality(A) \in Nat
    BY ActiveIsFinite
  <2> HIDE DEF A
  <2>2. /\ IsFiniteSet(A \cup Admitted(d, s))
        /\ Cardinality(A \cup Admitted(d, s)) =
             Cardinality(A) + Cardinality(Admitted(d, s)) - Cardinality(A \cap Admitted(d, s))
    BY <1>9, <2>1, FS_Union
  <2>3. Cardinality(A \cap Admitted(d, s)) \in Nat /\ Cardinality(A \cup Admitted(d, s)) \in Nat
    BY <2>1, <2>2, FS_Intersection, FS_CardinalityType
  <2> QED  BY <1>9, <2>1, <2>2, <2>3
<1>11. e \in Admitted(d, s)
  BY <1>4
<1>12. e \in DispatchIds /\ e # d /\ e \notin Dropped(d, s) /\ e \in Waiting(s)
  BY <1>11, TakenWaited DEF HandsOver, Admitted, Dropped
<1>13. PICK c \in Admitted(d, s) : c = e
  BY <1>11
<1>14. Limit(dispatch[c].steps, s)' = Limit(dispatch[e].steps, s)
  <2>1. dispatch'[c] = dispatch[c] /\ line' = line
    BY <1>12, <1>13 DEF HandsOver
  <2> QED  BY <1>13, <2>1 DEF Limit
<1>15. Limit(dispatch[e].steps, s) \in Nat
  <2>1. Fits(e)
    BY <1>12 DEF LineInv
  <2>2. dispatch[e].steps \in LineVersions /\ s <= Len(dispatch[e].steps)
    BY <1>1, <1>12, <2>1, WaitIsThePlace DEF DispatchRow
  <2> QED  BY <1>1, <2>2, LimitIsPositive
<1> HIDE DEF A, B, Open, e
<1>16. Cardinality(A \cup Admitted(d, s)) <= Limit(dispatch[e].steps, s)
  BY <1>6, <1>8, <1>9, <1>10, <1>15
<1> QED  BY <1>3, <1>13, <1>14, <1>16

\* Those admitted stood before those that are left.
LEMMA SlotInOrder ==
    ASSUME LineInv, NEW d \in DispatchIds, NEW s \in StepIds, HandsOver(d, s),
           NEW e \in NewlyStarted(s), NEW j \in 1 .. Len(queue[s]), queue[s][j] \in Waiting(s)'
    PROVE  \E i \in 1 .. j - 1 : queue[s][i] = e
<1>1. PICK k \in 0 .. Len(queue[s]) : Reaches(d, s, k)
  BY AdmissionReaches DEF LineInv
<1>2. e \in Taken(d, s) /\ queue[s][j] \notin Taken(d, s)
  BY SlotHandedOver DEF Admitted
<1>3. Taken(d, s) = {queue[s][i] : i \in 1 .. k}
  BY <1>1 DEF Reaches
<1>4. PICK i \in 1 .. k : queue[s][i] = e
  BY <1>2, <1>3
<1>5. ~(j \in 1 .. k)
  BY <1>2, <1>3
<1>6. i \in 1 .. j - 1
  BY <1>1, <1>4, <1>5
<1> QED  BY <1>4, <1>6

-----------------------------------------------------------------------------
(* The steps that hand a slot over: a run that did not pass, and one that did. *)

\* What ExecsAfter writes, cell by cell.
LEMMA ExecsAfterRows ==
    ASSUME TypeOK, NEW d \in DispatchIds, NEW s \in StepIds, NEW x \in Results, NEW starts
    PROVE  /\ ExecsAfter(d, s, x, starts) \in [DispatchIds -> [StepIds -> ExecStates]]
           /\ \A e \in DispatchIds, t \in StepIds : ExecsAfter(d, s, x, starts)[e][t] =
                 IF e = d /\ t = s THEN x
                 ELSE IF <<e, t>> \in starts THEN "pending" ELSE exec[e][t]
<1>1. \A e \in DispatchIds, t \in StepIds : exec[e][t] \in ExecStates
  BY ExecRow
<1>2. x \in ExecStates /\ "pending" \in ExecStates
  BY DEF ExecStates, InFlight
<1> QED  BY <1>1, <1>2 DEF ExecsAfter

\* A row is what its entries are.
LEMMA RowSame ==
    ASSUME NEW f \in [StepIds -> ExecStates], NEW g \in [StepIds -> ExecStates],
           \A t \in StepIds : f[t] = g[t]
    PROVE  f = g
  OBVIOUS

\* A row that differs from another in one cell is the other one with that cell set.
LEMMA RowSet ==
    ASSUME NEW f \in [StepIds -> ExecStates], NEW g \in [StepIds -> ExecStates],
           NEW s \in StepIds, NEW x,
           \A t \in StepIds : f[t] = IF t = s THEN x ELSE g[t]
    PROVE  f = [g EXCEPT ![s] = x]
<1> DEFINE h == [g EXCEPT ![s] = x]
<1>1. x \in ExecStates
  BY DEF ExecStates
<1>2. h \in [StepIds -> ExecStates] /\ \A t \in StepIds : f[t] = h[t]
  BY <1>1
<1> HIDE DEF h
<1>3. f = h
  BY <1>2, RowSame
<1> QED  BY <1>3 DEF h

\* The rows of the others, from those of all.
RowsAfter(d, s, x) ==
    /\ exec' \in [DispatchIds -> [StepIds -> ExecStates]]
    /\ exec'[d] = [exec[d] EXCEPT ![s] = x] /\ exec'[d][s] = x
    /\ \A e \in DispatchIds : e # d =>
          exec'[e] = IF e \in Admitted(d, s) THEN [exec[e] EXCEPT ![s] = "pending"] ELSE exec[e]

\* The rows when the traversal leaves the step and others are admitted.
LEMMA OthersRows ==
    ASSUME TypeOK, NEW d \in DispatchIds, NEW s \in StepIds, NEW x \in Results,
           exec' = ExecsAfter(d, s, x, Admitted(d, s) \X {s}),
           d \notin Admitted(d, s)
    PROVE  RowsAfter(d, s, x)
<1>1. /\ exec' \in [DispatchIds -> [StepIds -> ExecStates]]
      /\ \A e \in DispatchIds, t \in StepIds : exec'[e][t] =
            IF e = d /\ t = s THEN x
            ELSE IF <<e, t>> \in Admitted(d, s) \X {s} THEN "pending" ELSE exec[e][t]
  BY ExecsAfterRows
<1>2. \A e \in DispatchIds : exec[e] \in [StepIds -> ExecStates]
  BY ExecRow
<1>3. exec'[d] = [exec[d] EXCEPT ![s] = x]
  <2>1. \A t \in StepIds : exec'[d][t] = IF t = s THEN x ELSE exec[d][t]
    BY <1>1
  <2>2. exec'[d] \in [StepIds -> ExecStates]
    BY <1>1
  <2> QED  BY <1>2, <2>1, <2>2, RowSet
<1>4. ASSUME NEW e \in DispatchIds, e # d
      PROVE  exec'[e] = IF e \in Admitted(d, s) THEN [exec[e] EXCEPT ![s] = "pending"] ELSE exec[e]
  <2>1. \A t \in StepIds : exec'[e][t] =
           IF e \in Admitted(d, s) /\ t = s THEN "pending" ELSE exec[e][t]
    BY <1>1, <1>4
  <2>2. exec'[e] \in [StepIds -> ExecStates]
    BY <1>1
  <2>3. CASE e \in Admitted(d, s)
    <3>1. \A t \in StepIds : exec'[e][t] = IF t = s THEN "pending" ELSE exec[e][t]
      BY <2>1, <2>3
    <3>2. exec'[e] = [exec[e] EXCEPT ![s] = "pending"]
      BY <1>2, <2>2, <3>1, RowSet
    <3> QED  BY <2>3, <3>2
  <2>4. CASE e \notin Admitted(d, s)
    BY <1>2, <2>1, <2>2, <2>4, RowSame
  <2> QED  BY <2>3, <2>4
<1> QED  BY <1>1, <1>2, <1>3, <1>4 DEF RowsAfter

\* Dispatches that were dropped from the queue are finished, the others are not touched.
LEMMA DroppedRows ==
    ASSUME LineInv, NEW d \in DispatchIds, NEW s \in StepIds, exec[d][s] \in InFlight
    PROVE  /\ Finished(Dropped(d, s), "stopped") \in [DispatchIds -> DispatchRow \cup {NoDispatch}]
           /\ \A e \in DispatchIds : Finished(Dropped(d, s), "stopped")[e] =
                 IF e \in Dropped(d, s) THEN [dispatch[e] EXCEPT !.state = "stopped"] ELSE dispatch[e]
           /\ \A x \in Results : /\ Finished({d}, x)[d] = [dispatch[d] EXCEPT !.state = x]
                                 /\ [dispatch[d] EXCEPT !.state = x] \in DispatchRow
           /\ d \notin Taken(d, s) /\ dispatch[d].state = "active" /\ dispatch[d] \in DispatchRow
<1>1. TypeOK /\ Fits(d) /\ "stopped" \in Results
  BY DEF LineInv, Results
<1>2. /\ \A e \in Dropped(d, s) : dispatch[e].state = "active" /\ e # d
      /\ d \notin Taken(d, s)
  BY TakenWaited DEF Dropped
<1>3. dispatch[d].state = "active" /\ dispatch[d] \in DispatchRow
  BY <1>1, InFlightIsThePlace, ExecRow DEF NoDispatch
<1>4. /\ Finished(Dropped(d, s), "stopped") \in [DispatchIds -> DispatchRow \cup {NoDispatch}]
      /\ \A e \in DispatchIds : Finished(Dropped(d, s), "stopped")[e] =
            IF e \in Dropped(d, s) /\ dispatch[e].state = "active"
            THEN [dispatch[e] EXCEPT !.state = "stopped"] ELSE dispatch[e]
  BY <1>1, FinishedRows
<1>5. \A e \in DispatchIds : Finished(Dropped(d, s), "stopped")[e] =
         IF e \in Dropped(d, s) THEN [dispatch[e] EXCEPT !.state = "stopped"] ELSE dispatch[e]
  BY <1>2, <1>4
<1>6. ASSUME NEW x \in Results
      PROVE  /\ Finished({d}, x)[d] = [dispatch[d] EXCEPT !.state = x]
             /\ [dispatch[d] EXCEPT !.state = x] \in DispatchRow
  BY <1>3 DEF Finished, DispatchRow
<1> QED  BY <1>2, <1>3, <1>4, <1>5, <1>6

\* What is left of the queue.
LEMMA QueueRows ==
    ASSUME LineInv, NEW d \in DispatchIds, NEW s \in StepIds
    PROVE  /\ QueueLeft(d, s) \in Seq(DispatchIds)
           /\ \A i, j \in 1 .. Len(QueueLeft(d, s)) :
                 QueueLeft(d, s)[i] = QueueLeft(d, s)[j] => i = j
  BY AdmissionReaches DEF LineInv, Reaches

\* The traversal ends with the run.
LEMMA StepEnds ==
    ASSUME LineInv, NEW d \in DispatchIds, NEW s \in StepIds,
           NEW x \in Results, NEW y \in Results, exec[d][s] \in InFlight,
           y = "passed" => x = "passed" /\ Len(dispatch[d].steps) <= s,
           exec' = ExecsAfter(d, s, x, Admitted(d, s) \X {s}),
           queue' = [queue EXCEPT ![s] = QueueLeft(d, s)],
           dispatch' = [Finished(Dropped(d, s), "stopped") EXCEPT ![d] = Finished({d}, y)[d]],
           advance' = NoAdvance, UNCHANGED <<order, line, app, req>>
    PROVE  GoodStep
<1>1. TypeOK /\ OnceQueued /\ AdvanceFits /\ QueueIsServed
  BY DEF LineInv
<1>2. /\ exec[d][s] \in InFlight /\ advance' = NoAdvance
      /\ exec' = ExecsAfter(d, s, x, Admitted(d, s) \X {s})
      /\ queue' = [queue EXCEPT ![s] = QueueLeft(d, s)]
      /\ dispatch' = [Finished(Dropped(d, s), "stopped") EXCEPT ![d] = Finished({d}, y)[d]]
      /\ UNCHANGED <<order, line, app, req>>
  OBVIOUS
<1>3. /\ Finished(Dropped(d, s), "stopped") \in [DispatchIds -> DispatchRow \cup {NoDispatch}]
      /\ \A e \in DispatchIds : Finished(Dropped(d, s), "stopped")[e] =
            IF e \in Dropped(d, s) THEN [dispatch[e] EXCEPT !.state = "stopped"] ELSE dispatch[e]
      /\ Finished({d}, y)[d] = [dispatch[d] EXCEPT !.state = y]
      /\ [dispatch[d] EXCEPT !.state = y] \in DispatchRow
      /\ d \notin Taken(d, s) /\ dispatch[d].state = "active"
  BY <1>1, <1>2, DroppedRows
<1>4. d \notin Admitted(d, s)
  BY <1>3 DEF Admitted
<1>5. /\ exec' \in [DispatchIds -> [StepIds -> ExecStates]]
      /\ exec'[d] = [exec[d] EXCEPT ![s] = x] /\ exec'[d][s] = x
      /\ \A e \in DispatchIds : e # d =>
            exec'[e] = IF e \in Admitted(d, s) THEN [exec[e] EXCEPT ![s] = "pending"] ELSE exec[e]
  <2>1. RowsAfter(d, s, x)
    BY <1>1, <1>4, OthersRows
  <2> QED  BY <2>1 DEF RowsAfter
<1>6. /\ dispatch' \in [DispatchIds -> DispatchRow \cup {NoDispatch}]
      /\ dispatch'[d] = [dispatch[d] EXCEPT !.state = y]
      /\ \A e \in DispatchIds : e # d =>
            dispatch'[e] = IF e \in Dropped(d, s)
                           THEN [dispatch[e] EXCEPT !.state = "stopped"] ELSE dispatch[e]
  <2> DEFINE F == Finished(Dropped(d, s), "stopped")
             c == Finished({d}, y)[d]
  <2>1. F \in [DispatchIds -> DispatchRow \cup {NoDispatch}] /\ c \in DispatchRow
    BY <1>3
  <2>2. dispatch' = [F EXCEPT ![d] = c]
    BY <1>2
  <2> HIDE DEF F, c
  <2>3. /\ dispatch' \in [DispatchIds -> DispatchRow \cup {NoDispatch}]
        /\ dispatch'[d] = c /\ \A e \in DispatchIds : e # d => dispatch'[e] = F[e]
    BY <2>1, <2>2
  <2> QED  BY <1>3, <2>3 DEF F, c
<1>7. /\ queue' \in [StepIds -> Seq(DispatchIds)]
      /\ queue'[s] = QueueLeft(d, s) /\ \A t \in StepIds : t # s => queue'[t] = queue[t]
  BY <1>1, <1>2, QueueRows DEF TypeOK
<1>8. TypeOK'
  BY <1>1, <1>2, <1>5, <1>6, <1>7 DEF TypeOK, ExecStates
<1>9. OnceQueued'
  <2>1. ASSUME NEW t \in StepIds
        PROVE  \A i, j \in 1 .. Len(queue'[t]) : queue'[t][i] = queue'[t][j] => i = j
    <3>1. CASE t = s
      <4>1. queue'[t] = QueueLeft(d, s)
        BY <1>7, <3>1
      <4> QED  BY <4>1, QueueRows
    <3>2. CASE t # s
      BY <1>1, <1>7, <3>2 DEF OnceQueued
    <3> QED  BY <3>1, <3>2
  <2> QED  BY <2>1 DEF OnceQueued
<1>10. AdvanceFits'
  BY <1>2 DEF AdvanceFits
<1>11. \A t \in StepIds : t # s => Waiting(t)' = Waiting(t)
  BY <1>7 DEF Waiting
<1>12. HandsOver(d, s)
  BY <1>1, <1>2, <1>5, <1>6, <1>7, <1>11 DEF HandsOver
<1>13. /\ \A e \in DispatchIds : e # d => TraversalStep(e)
       /\ Waiting(s)' = Waiting(s) \ Taken(d, s)
       /\ \A t \in StepIds, e \in DispatchIds : t # s /\ e # d => exec'[e][t] = exec[e][t]
  BY <1>12, SlotHandedOver
<1>14. \A t \in StepIds : t # s => Active(t)' = Active(t)
  <2>1. exec[d] \in [StepIds -> ExecStates]
    BY <1>1, ExecRow
  <2>2. \A t \in StepIds : t # s => exec'[d][t] = exec[d][t]
    BY <1>5, <2>1
  <2> QED  BY <1>13, <2>2 DEF Active
<1>15. QueueIsServed'
  <2>1. queue'[s] # <<>> => Active(s)' # {}
    BY <1>12, SlotServed
  <2> QED  BY <1>1, <1>2, <1>7, <1>14, <2>1 DEF QueueIsServed
<1>16. Stops(d) \/ Passes(d)
  <2>1. \A t \in StepIds : d \notin Waiting(t)
    BY <1>2, TakenWaited
  <2>2. SameWaits(d)
    BY <1>11, <1>13, <2>1 DEF SameWaits
  <2>3. Leaves(d, y)
    BY <1>3, <1>6 DEF Leaves
  <2>4. ExecSet(d, s, x)
    BY <1>5 DEF ExecSet
  <2>5. y = "passed" => Passes(d)
    BY <1>2, <2>2, <2>3, <2>4 DEF Passes
  <2>6. y = "stopped" => Stops(d)
    BY <1>2, <2>2, <2>3, <2>4 DEF Stops
  <2> QED  BY <2>5, <2>6 DEF Results
<1>17. \A t \in StepIds : t # s => NewlyStarted(t) = {}
  BY <1>14 DEF NewlyStarted
<1>18. StartsWithinLimit
  <2>1. NewlyStarted(s) # {} =>
           \E e \in NewlyStarted(s) : Cardinality(Active(s)') <= Limit(dispatch[e].steps, s)'
    BY <1>12, SlotWithinLimit
  <2> QED  BY <1>17, <2>1 DEF StartsWithinLimit
<1>19. StartsInOrder
  <2>1. \A e \in NewlyStarted(s), j \in 1 .. Len(queue[s]) :
           queue[s][j] \in Waiting(s)' => \E i \in 1 .. j - 1 : queue[s][i] = e
    BY <1>12, SlotInOrder
  <2> QED  BY <1>17, <2>1 DEF StartsInOrder
<1> QED  BY <1>8, <1>9, <1>10, <1>13, <1>15, <1>16, <1>18, <1>19 DEF GoodStep, TraversalStep

\* The end of a run gives its slot to those who wait and passes its traversal on.
LEMMA StepEndRun ==
    ASSUME LineInv, NEW d \in DispatchIds, NEW s \in StepIds, EndRun(d, s)
    PROVE  GoodStep
<1>1. /\ exec[d][s] \in InFlight /\ advance' = NoAdvance
      /\ exec' = ExecsAfter(d, s, "stopped", Admitted(d, s) \X {s})
      /\ queue' = [queue EXCEPT ![s] = QueueLeft(d, s)]
      /\ dispatch' = [e \in DispatchIds |->
                        IF e = d THEN Finished({d}, "stopped")[d]
                        ELSE Finished(Dropped(d, s), "stopped")[e]]
      /\ UNCHANGED <<order, line, app, req>>
  BY DEF EndRun, LineUnlocked
<1>2. dispatch' = [Finished(Dropped(d, s), "stopped") EXCEPT ![d] = Finished({d}, "stopped")[d]]
  BY <1>1 DEF Finished
<1>3. "stopped" \in Results /\ "stopped" # "passed"
  BY DEF Results
<1> QED  BY <1>1, <1>2, <1>3, StepEnds

\* The traversal waits for the next step.
LEMMA StepQueues ==
    ASSUME LineInv, NEW d \in DispatchIds, NEW s \in StepIds, exec[d][s] \in InFlight,
           s < Len(dispatch[d].steps), HasToWait(dispatch[d].steps, s + 1),
           exec' = ExecsAfter(d, s, "passed", Admitted(d, s) \X {s}),
           queue' = [[queue EXCEPT ![s] = QueueLeft(d, s)] EXCEPT ![s + 1] = Append(@, d)],
           dispatch' = Finished(Dropped(d, s), "stopped"),
           advance' = NoAdvance, UNCHANGED <<order, line, app, req>>
    PROVE  GoodStep
<1>1. TypeOK /\ OnceQueued /\ AdvanceFits /\ QueueIsServed /\ "passed" \in Results
  BY DEF LineInv, Results
<1>2. /\ Finished(Dropped(d, s), "stopped") \in [DispatchIds -> DispatchRow \cup {NoDispatch}]
      /\ \A e \in DispatchIds : Finished(Dropped(d, s), "stopped")[e] =
            IF e \in Dropped(d, s) THEN [dispatch[e] EXCEPT !.state = "stopped"] ELSE dispatch[e]
      /\ d \notin Taken(d, s) /\ dispatch[d].state = "active" /\ dispatch[d] \in DispatchRow
  BY DroppedRows
<1>3. d \notin Admitted(d, s) /\ d \notin Dropped(d, s)
  BY <1>2 DEF Admitted, Dropped
<1>4. dispatch[d].steps \in LineVersions /\ s + 1 \in StepIds /\ s + 1 <= Len(dispatch[d].steps)
      /\ s + 1 # s
  <2>1. dispatch[d].steps \in LineVersions
    BY <1>2 DEF DispatchRow
  <2>2. Len(dispatch[d].steps) \in 1 .. MaxSteps /\ MaxSteps \in Nat
    BY <2>1, FactoryAssumption
  <2> QED  BY <2>1, <2>2 DEF StepIds
<1>5. /\ exec' \in [DispatchIds -> [StepIds -> ExecStates]]
      /\ exec'[d] = [exec[d] EXCEPT ![s] = "passed"] /\ exec'[d][s] = "passed"
      /\ \A e \in DispatchIds : e # d =>
            exec'[e] = IF e \in Admitted(d, s) THEN [exec[e] EXCEPT ![s] = "pending"] ELSE exec[e]
  <2>1. RowsAfter(d, s, "passed")
    BY <1>1, <1>3, OthersRows
  <2> QED  BY <2>1 DEF RowsAfter
<1>6. /\ queue' \in [StepIds -> Seq(DispatchIds)]
      /\ queue'[s] = QueueLeft(d, s) /\ queue'[s + 1] = Append(queue[s + 1], d)
      /\ \A t \in StepIds : t # s /\ t # s + 1 => queue'[t] = queue[t]
  <2>1. queue \in [StepIds -> Seq(DispatchIds)] /\ QueueLeft(d, s) \in Seq(DispatchIds)
    BY <1>1, QueueRows DEF TypeOK
  <2>2. Append(queue[s + 1], d) \in Seq(DispatchIds)
    BY <1>4, <2>1
  <2> QED  BY <1>4, <2>1, <2>2
<1>7. TypeOK' /\ AdvanceFits'
  BY <1>1, <1>2, <1>5, <1>6 DEF TypeOK, ExecStates, AdvanceFits
<1>8. \A t \in StepIds : d \notin Waiting(t)
  BY TakenWaited
<1>9. /\ Waiting(s + 1)' = Waiting(s + 1) \cup {d}
      /\ \A i, j \in 1 .. Len(queue'[s + 1]) : queue'[s + 1][i] = queue'[s + 1][j] => i = j
  <2>1. queue[s + 1] \in Seq(DispatchIds)
    BY <1>1, <1>4 DEF TypeOK
  <2>2. \A i, j \in 1 .. Len(queue[s + 1]) : queue[s + 1][i] = queue[s + 1][j] => i = j
    BY <1>1, <1>4 DEF OnceQueued
  <2>3. d \notin {queue[s + 1][i] : i \in 1 .. Len(queue[s + 1])}
    BY <1>4, <1>8 DEF Waiting
  <2>4. {Append(queue[s + 1], d)[i] : i \in 1 .. Len(Append(queue[s + 1], d))}
           = Waiting(s + 1) \cup {d}
    BY <2>1, AppendRows DEF Waiting
  <2>5. \A i, j \in 1 .. Len(Append(queue[s + 1], d)) :
           Append(queue[s + 1], d)[i] = Append(queue[s + 1], d)[j] => i = j
    BY <2>1, <2>2, <2>3, AppendRows
  <2>6. queue'[s + 1] = Append(queue[s + 1], d)
    BY <1>6
  <2>7. Waiting(s + 1)' = {queue'[s + 1][i] : i \in 1 .. Len(queue'[s + 1])}
    BY DEF Waiting
  <2> QED  BY <2>4, <2>5, <2>6, <2>7
<1>10. \A t \in StepIds : t # s /\ t # s + 1 => Waiting(t)' = Waiting(t)
  BY <1>6 DEF Waiting
<1>11. OnceQueued'
  <2>1. ASSUME NEW t \in StepIds
        PROVE  \A i, j \in 1 .. Len(queue'[t]) : queue'[t][i] = queue'[t][j] => i = j
    <3>1. CASE t = s
      <4>1. queue'[t] = QueueLeft(d, s)
        BY <1>6, <3>1
      <4>2. \A i, j \in 1 .. Len(QueueLeft(d, s)) :
               QueueLeft(d, s)[i] = QueueLeft(d, s)[j] => i = j
        BY QueueRows
      <4> QED  BY <4>1, <4>2
    <3>2. CASE t = s + 1
      BY <1>9, <3>2
    <3>3. CASE t # s /\ t # s + 1
      BY <1>1, <1>6, <3>3 DEF OnceQueued
    <3> QED  BY <3>1, <3>2, <3>3
  <2> QED  BY <2>1 DEF OnceQueued
<1>12. HandsOver(d, s)
  <2>1. ASSUME NEW e \in DispatchIds, e # d
        PROVE  /\ exec'[e] = IF e \in Admitted(d, s)
                             THEN [exec[e] EXCEPT ![s] = "pending"] ELSE exec[e]
               /\ dispatch'[e] = IF e \in Dropped(d, s)
                                 THEN [dispatch[e] EXCEPT !.state = "stopped"] ELSE dispatch[e]
               /\ \A t \in StepIds : t # s => (e \in Waiting(t)' <=> e \in Waiting(t))
    BY <1>2, <1>5, <1>9, <1>10, <2>1
  <2> QED  BY <1>1, <1>5, <1>6, <2>1 DEF HandsOver
<1>13. /\ \A e \in DispatchIds : e # d => TraversalStep(e)
       /\ Waiting(s)' = Waiting(s) \ Taken(d, s)
       /\ \A t \in StepIds, e \in DispatchIds : t # s /\ e # d => exec'[e][t] = exec[e][t]
  BY <1>12, SlotHandedOver
<1>14. \A t \in StepIds : t # s => Active(t)' = Active(t)
  <2>1. exec[d] \in [StepIds -> ExecStates]
    BY <1>1, ExecRow
  <2>2. \A t \in StepIds : t # s => exec'[d][t] = exec[d][t]
    BY <1>5, <2>1
  <2> QED  BY <1>13, <2>2 DEF Active
<1>15. QueueIsServed'
  <2>1. queue'[s] # <<>> => Active(s)' # {}
    BY <1>12, SlotServed
  <2>2. ASSUME \A a \in Apps : app[a] # "deleted" PROVE Active(s + 1) # {}
    BY <1>4, <2>2, WaitingIsServed
  <2> QED  BY <1>1, <1>4, <1>6, <1>14, <2>1, <2>2 DEF QueueIsServed
<1>16. GoesOn(d)
  <2>1. WaitsOnlyAt(d, s + 1)
    BY <1>2, <1>4, <1>8, <1>9, <1>10, <1>13 DEF WaitsOnlyAt
  <2>2. SameDispatch(d) /\ ExecSet(d, s, "passed")
    BY <1>2, <1>3, <1>5 DEF SameDispatch, ExecSet
  <2> QED  BY <1>4, <2>1, <2>2 DEF GoesOn
<1>17. \A t \in StepIds : t # s => NewlyStarted(t) = {}
  BY <1>14 DEF NewlyStarted
<1>18. StartsWithinLimit
  <2>1. NewlyStarted(s) # {} =>
           \E e \in NewlyStarted(s) : Cardinality(Active(s)') <= Limit(dispatch[e].steps, s)'
    BY <1>12, SlotWithinLimit
  <2> QED  BY <1>17, <2>1 DEF StartsWithinLimit
<1>19. StartsInOrder
  <2>1. \A e \in NewlyStarted(s), j \in 1 .. Len(queue[s]) :
           queue[s][j] \in Waiting(s)' => \E i \in 1 .. j - 1 : queue[s][i] = e
    BY <1>12, SlotInOrder
  <2> QED  BY <1>17, <2>1 DEF StartsInOrder
<1> QED  BY <1>7, <1>11, <1>13, <1>15, <1>16, <1>18, <1>19 DEF GoodStep, TraversalStep

\* The rows when the traversal goes on at once.
LEMMA StartingRows ==
    ASSUME TypeOK, NEW d \in DispatchIds, NEW s \in StepIds, s + 1 \in StepIds,
           exec' = ExecsAfter(d, s, "passed", (Admitted(d, s) \X {s}) \cup {<<d, s + 1>>}),
           d \notin Admitted(d, s)
    PROVE  /\ exec' \in [DispatchIds -> [StepIds -> ExecStates]]
           /\ exec'[d] = [[exec[d] EXCEPT ![s] = "passed"] EXCEPT ![s + 1] = "pending"]
           /\ \A e \in DispatchIds : e # d =>
                 exec'[e] = IF e \in Admitted(d, s) THEN [exec[e] EXCEPT ![s] = "pending"] ELSE exec[e]
<1>0. "passed" \in Results /\ s + 1 # s
  BY FactoryAssumption DEF Results, StepIds
<1>1. /\ exec' \in [DispatchIds -> [StepIds -> ExecStates]]
      /\ \A e \in DispatchIds, t \in StepIds : exec'[e][t] =
            IF e = d /\ t = s THEN "passed"
            ELSE IF <<e, t>> \in (Admitted(d, s) \X {s}) \cup {<<d, s + 1>>}
                 THEN "pending" ELSE exec[e][t]
  BY <1>0, ExecsAfterRows
<1>2. \A e \in DispatchIds : exec[e] \in [StepIds -> ExecStates]
  BY ExecRow
<1>3. exec'[d] = [[exec[d] EXCEPT ![s] = "passed"] EXCEPT ![s + 1] = "pending"]
  <2> DEFINE g == [exec[d] EXCEPT ![s] = "passed"]
  <2>1. /\ g \in [StepIds -> ExecStates]
        /\ \A t \in StepIds : g[t] = IF t = s THEN "passed" ELSE exec[d][t]
    BY <1>2 DEF ExecStates, Results
  <2>2. \A t \in StepIds : exec'[d][t] = IF t = s + 1 THEN "pending" ELSE g[t]
    BY <1>0, <1>1, <2>1
  <2>3. exec'[d] \in [StepIds -> ExecStates]
    BY <1>1
  <2>4. PICK r : r = exec'[d]
    OBVIOUS
  <2>5. PICK t : t = s + 1
    OBVIOUS
  <2>6. t \in StepIds /\ "pending" \in ExecStates
    BY <2>5 DEF ExecStates, InFlight
  <2>7. /\ r \in [StepIds -> ExecStates]
        /\ \A u \in StepIds : r[u] = IF u = t THEN "pending" ELSE g[u]
    BY <2>2, <2>3, <2>4, <2>5
  <2> HIDE DEF g
  <2>8. r = [g EXCEPT ![t] = "pending"]
    BY <2>1, <2>6, <2>7, RowSet
  <2> QED  BY <2>4, <2>5, <2>8 DEF g
<1>4. ASSUME NEW e \in DispatchIds, e # d
      PROVE  exec'[e] = IF e \in Admitted(d, s) THEN [exec[e] EXCEPT ![s] = "pending"] ELSE exec[e]
  <2>1. \A t \in StepIds : exec'[e][t] =
           IF e \in Admitted(d, s) /\ t = s THEN "pending" ELSE exec[e][t]
    BY <1>1, <1>4
  <2>2. exec'[e] \in [StepIds -> ExecStates]
    BY <1>1
  <2>3. CASE e \in Admitted(d, s)
    <3>1. \A t \in StepIds : exec'[e][t] = IF t = s THEN "pending" ELSE exec[e][t]
      BY <2>1, <2>3
    <3>2. exec'[e] = [exec[e] EXCEPT ![s] = "pending"]
      BY <1>2, <2>2, <3>1, RowSet
    <3> QED  BY <2>3, <3>2
  <2>4. CASE e \notin Admitted(d, s)
    BY <1>2, <2>1, <2>2, <2>4, RowSame
  <2> QED  BY <2>3, <2>4
<1> QED  BY <1>1, <1>3, <1>4

\* The traversal starts the next step.
LEMMA StepStarts ==
    ASSUME LineInv, NEW d \in DispatchIds, NEW s \in StepIds, exec[d][s] \in InFlight,
           s < Len(dispatch[d].steps), ~HasToWait(dispatch[d].steps, s + 1),
           exec' = ExecsAfter(d, s, "passed", (Admitted(d, s) \X {s}) \cup {<<d, s + 1>>}),
           queue' = [queue EXCEPT ![s] = QueueLeft(d, s)],
           dispatch' = Finished(Dropped(d, s), "stopped"),
           advance' = NoAdvance, UNCHANGED <<order, line, app, req>>
    PROVE  GoodStep
<1>1. TypeOK /\ OnceQueued /\ AdvanceFits /\ QueueIsServed /\ "passed" \in Results
  BY DEF LineInv, Results
<1>2. /\ Finished(Dropped(d, s), "stopped") \in [DispatchIds -> DispatchRow \cup {NoDispatch}]
      /\ \A e \in DispatchIds : Finished(Dropped(d, s), "stopped")[e] =
            IF e \in Dropped(d, s) THEN [dispatch[e] EXCEPT !.state = "stopped"] ELSE dispatch[e]
      /\ d \notin Taken(d, s) /\ dispatch[d].state = "active" /\ dispatch[d] \in DispatchRow
  BY DroppedRows
<1>3. d \notin Admitted(d, s) /\ d \notin Dropped(d, s)
  BY <1>2 DEF Admitted, Dropped
<1>4. dispatch[d].steps \in LineVersions /\ s + 1 \in StepIds /\ s + 1 <= Len(dispatch[d].steps)
      /\ s + 1 # s /\ s < s + 1
  <2>1. dispatch[d].steps \in LineVersions
    BY <1>2 DEF DispatchRow
  <2>2. Len(dispatch[d].steps) \in 1 .. MaxSteps /\ MaxSteps \in Nat
    BY <2>1, FactoryAssumption
  <2> QED  BY <2>1, <2>2 DEF StepIds
<1>5. /\ exec' \in [DispatchIds -> [StepIds -> ExecStates]]
      /\ exec'[d] = [[exec[d] EXCEPT ![s] = "passed"] EXCEPT ![s + 1] = "pending"]
      /\ \A e \in DispatchIds : e # d =>
            exec'[e] = IF e \in Admitted(d, s) THEN [exec[e] EXCEPT ![s] = "pending"] ELSE exec[e]
  BY <1>1, <1>3, <1>4, StartingRows
<1>6. \A t \in StepIds : exec'[d][t] =
         IF t = s + 1 THEN "pending" ELSE IF t = s THEN "passed" ELSE exec[d][t]
  <2>1. exec[d] \in [StepIds -> ExecStates]
    BY <1>1, ExecRow
  <2> QED  BY <1>5, <2>1
<1>7. /\ queue' \in [StepIds -> Seq(DispatchIds)]
      /\ queue'[s] = QueueLeft(d, s) /\ \A t \in StepIds : t # s => queue'[t] = queue[t]
  BY <1>1, QueueRows DEF TypeOK
<1>8. TypeOK' /\ AdvanceFits'
  BY <1>1, <1>2, <1>5, <1>7 DEF TypeOK, ExecStates, AdvanceFits
<1>9. OnceQueued'
  <2>1. ASSUME NEW t \in StepIds
        PROVE  \A i, j \in 1 .. Len(queue'[t]) : queue'[t][i] = queue'[t][j] => i = j
    <3>1. CASE t = s
      <4>1. queue'[t] = QueueLeft(d, s)
        BY <1>7, <3>1
      <4>2. \A i, j \in 1 .. Len(QueueLeft(d, s)) :
               QueueLeft(d, s)[i] = QueueLeft(d, s)[j] => i = j
        BY QueueRows
      <4> QED  BY <4>1, <4>2
    <3>2. CASE t # s
      BY <1>1, <1>7, <3>2 DEF OnceQueued
    <3> QED  BY <3>1, <3>2
  <2> QED  BY <2>1 DEF OnceQueued
<1>10. \A t \in StepIds : t # s => Waiting(t)' = Waiting(t)
  BY <1>7 DEF Waiting
<1>11. HandsOver(d, s)
  <2>1. ASSUME NEW e \in DispatchIds, e # d
        PROVE  /\ exec'[e] = IF e \in Admitted(d, s)
                             THEN [exec[e] EXCEPT ![s] = "pending"] ELSE exec[e]
               /\ dispatch'[e] = IF e \in Dropped(d, s)
                                 THEN [dispatch[e] EXCEPT !.state = "stopped"] ELSE dispatch[e]
               /\ \A t \in StepIds : t # s => (e \in Waiting(t)' <=> e \in Waiting(t))
    BY <1>2, <1>5, <1>10, <2>1
  <2>2. exec'[d][s] = "passed"
    BY <1>4, <1>6
  <2> QED  BY <1>1, <1>7, <2>1, <2>2 DEF HandsOver
<1>12. /\ \A e \in DispatchIds : e # d => TraversalStep(e)
       /\ Waiting(s)' = Waiting(s) \ Taken(d, s)
       /\ \A t \in StepIds, e \in DispatchIds : t # s /\ e # d => exec'[e][t] = exec[e][t]
  BY <1>11, SlotHandedOver
<1>13. /\ Active(s + 1)' = Active(s + 1) \cup {d} /\ d \notin Active(s + 1)
       /\ \A t \in StepIds : t # s /\ t # s + 1 => Active(t)' = Active(t)
  <2>1. exec[d][s + 1] = "none"
    <3>1. Fits(d)
      BY DEF LineInv
    <3> QED  BY <1>1, <1>4, <3>1, InFlightIsThePlace
  <2>2. d \notin Active(s + 1)
    BY <2>1 DEF Active, InFlight
  <2>3. Active(s + 1)' = Active(s + 1) \cup {d}
    <3>1. exec'[d][s + 1] \in InFlight
      BY <1>4, <1>6 DEF InFlight
    <3>2. \A e \in DispatchIds : e # d => exec'[e][s + 1] = exec[e][s + 1]
      BY <1>4, <1>12
    <3> QED  BY <3>1, <3>2 DEF Active
  <2>4. ASSUME NEW t \in StepIds, t # s, t # s + 1 PROVE Active(t)' = Active(t)
    <3>1. \A e \in DispatchIds : exec'[e][t] = exec[e][t]
      BY <1>6, <1>12, <2>4
    <3> QED  BY <3>1 DEF Active
  <2> QED  BY <2>2, <2>3, <2>4
<1>14. /\ queue[s + 1] = <<>> /\ NewlyStarted(s + 1) = {d}
       /\ Cardinality(Active(s + 1)') <= Limit(dispatch[d].steps, s + 1)'
  <2>1. dispatch'[d] = dispatch[d]
    BY <1>2, <1>3
  <2>2. dispatch'[d].steps = dispatch[d].steps
    BY <2>1
  <2> DEFINE v == dispatch[d].steps
             u == s + 1
  <2>3. /\ v \in LineVersions /\ u \in StepIds /\ u <= Len(v) /\ ~HasToWait(v, u)
        /\ d \notin Active(u) /\ Active(u)' = Active(u) \cup {d}
        /\ line' = line /\ dispatch'[d].steps = v
    BY <1>4, <1>13, <2>2
  <2> HIDE DEF v
  <2>4. /\ queue[u] = <<>> /\ NewlyStarted(u) = {d}
        /\ Cardinality(Active(u)') <= Limit(dispatch[d].steps, u)'
    BY <1>1, <2>3, OneStarts
  <2> QED  BY <2>4
<1>15. QueueIsServed'
  <2>1. queue'[s] # <<>> => Active(s)' # {}
    BY <1>11, SlotServed
  <2>2. \A t \in StepIds : t # s => Active(t) \subseteq Active(t)'
    BY <1>13
  <2> QED  BY <1>1, <1>7, <2>1, <2>2 DEF QueueIsServed
<1>16. GoesOn(d)
  <2>1. \A t \in StepIds : d \notin Waiting(t)
    BY TakenWaited
  <2>2. SameWaits(d)
    BY <1>10, <1>12, <2>1 DEF SameWaits
  <2>3. SameDispatch(d)
    BY <1>2, <1>3 DEF SameDispatch
  <2> QED  BY <1>4, <1>5, <2>2, <2>3 DEF GoesOn
<1>17. \A t \in StepIds : t # s /\ t # s + 1 => NewlyStarted(t) = {}
  BY <1>13 DEF NewlyStarted
<1>18. StartsWithinLimit
  <2>1. NewlyStarted(s) # {} =>
           \E e \in NewlyStarted(s) : Cardinality(Active(s)') <= Limit(dispatch[e].steps, s)'
    BY <1>11, SlotWithinLimit
  <2>2. \E e \in NewlyStarted(s + 1) :
           Cardinality(Active(s + 1)') <= Limit(dispatch[e].steps, s + 1)'
    BY <1>14
  <2>3. ASSUME NEW t \in StepIds, NewlyStarted(t) # {}
        PROVE  \E e \in NewlyStarted(t) : Cardinality(Active(t)') <= Limit(dispatch[e].steps, t)'
    <3>1. CASE t = s
      BY <2>1, <2>3, <3>1
    <3>2. CASE t = s + 1
      BY <2>2, <3>2
    <3> QED  BY <1>17, <2>3, <3>1, <3>2
  <2> QED  BY <2>3 DEF StartsWithinLimit
<1>19. StartsInOrder
  <2>1. \A e \in NewlyStarted(s), j \in 1 .. Len(queue[s]) :
           queue[s][j] \in Waiting(s)' => \E i \in 1 .. j - 1 : queue[s][i] = e
    BY <1>11, SlotInOrder
  <2>2. ~(\E j \in 1 .. Len(queue[s + 1]) : TRUE)
    BY <1>14
  <2>3. ASSUME NEW t \in StepIds, NEW e \in NewlyStarted(t), NEW j \in 1 .. Len(queue[t]),
               queue[t][j] \in Waiting(t)'
        PROVE  \E i \in 1 .. j - 1 : queue[t][i] = e
    <3>1. CASE t = s
      BY <2>1, <2>3, <3>1
    <3>2. CASE t = s + 1
      BY <2>2, <3>2
    <3> QED  BY <1>17, <3>1, <3>2
  <2> QED  BY <2>3 DEF StartsInOrder
<1> QED  BY <1>8, <1>9, <1>12, <1>15, <1>16, <1>18, <1>19 DEF GoodStep, TraversalStep

\* A passed traversal goes on to its next step, running or waiting.
LEMMA StepAdvance ==
    ASSUME LineInv, Advance PROVE GoodStep
<1>1. PICK d \in DispatchIds, s \in StepIds : d = advance.dispatch /\ s = advance.step
  BY DEF Advance, LineInv, TypeOK
<1>2. exec[d][s] \in InFlight
  BY <1>1 DEF Advance, LineInv, AdvanceFits, InFlight
<1>3. advance' = NoAdvance /\ UNCHANGED <<order, line, app, req>>
  BY DEF Advance
<1>4. Len(dispatch[d].steps) \in Nat /\ s \in Nat
  <2>1. dispatch[d] \in DispatchRow
    BY <1>2, DroppedRows
  <2>2. dispatch[d].steps \in LineVersions
    BY <2>1 DEF DispatchRow
  <2> QED  BY <2>2, FactoryAssumption DEF StepIds
<1>5. CASE /\ ~Continues
           /\ exec' = ExecsAfter(d, s, "passed", Admitted(d, s) \X {s})
           /\ queue' = [queue EXCEPT ![s] = QueueLeft(d, s)]
           /\ dispatch' = [Finished(Dropped(d, s), "stopped") EXCEPT ![d] = Finished({d}, Outcome)[d]]
  <2>1. "passed" \in Results /\ Outcome \in Results
    BY DEF Results, Outcome
  <2>2. Outcome = "passed" => Len(dispatch[d].steps) <= s
    BY <1>1, <1>4, <1>5 DEF Outcome, Continues, LastStep
  <2> QED  BY <1>2, <1>3, <1>5, <2>1, <2>2, StepEnds
<1>6. Continues => s < Len(dispatch[d].steps)
  BY <1>1, <1>4 DEF Continues, LastStep
<1>7. CASE /\ Continues /\ HasToWait(dispatch[d].steps, s + 1)
           /\ exec' = ExecsAfter(d, s, "passed", Admitted(d, s) \X {s})
           /\ queue' = [[queue EXCEPT ![s] = QueueLeft(d, s)] EXCEPT ![s + 1] = Append(@, d)]
           /\ dispatch' = Finished(Dropped(d, s), "stopped")
  BY <1>2, <1>3, <1>6, <1>7, StepQueues
<1>8. CASE /\ Continues /\ ~HasToWait(dispatch[d].steps, s + 1)
           /\ exec' = ExecsAfter(d, s, "passed", (Admitted(d, s) \X {s}) \cup {<<d, s + 1>>})
           /\ queue' = [queue EXCEPT ![s] = QueueLeft(d, s)]
           /\ dispatch' = Finished(Dropped(d, s), "stopped")
  BY <1>2, <1>3, <1>6, <1>8, StepStarts
<1> QED  BY <1>1, <1>5, <1>7, <1>8 DEF Advance

-----------------------------------------------------------------------------
(* The theorems. *)

\* The invariant holds of an empty factory ...
LEMMA InitHolds == Init => LineInv
<1> SUFFICES ASSUME Init PROVE LineInv
  OBVIOUS
<1>1. /\ dispatch = [d \in DispatchIds |-> NoDispatch]
      /\ exec = [d \in DispatchIds |-> [s \in StepIds |-> "none"]]
      /\ queue = [s \in StepIds |-> <<>>] /\ advance = NoAdvance
  BY DEF Init
<1>2. TypeOK
  BY DEF Init, TypeOK, OrderStates
<1>3. \A s \in StepIds : Waiting(s) = {} /\ queue[s] = <<>>
  BY <1>1 DEF Waiting
<1>4. OnceQueued /\ AdvanceFits /\ QueueIsServed
  BY <1>1, <1>3 DEF OnceQueued, AdvanceFits, QueueIsServed
<1>5. ASSUME NEW d \in DispatchIds PROVE Fits(d)
  <2>1. dispatch[d].state = "none" /\ \A s \in StepIds : exec[d][s] = "none"
    BY <1>1 DEF NoDispatch
  <2> QED  BY <1>3, <2>1 DEF Fits, StepsFit, FlightsFit, WaitsFit, PassFits, IsSomewhere, InFlight
<1> QED  BY <1>2, <1>4, <1>5 DEF LineInv

\* ... and every action is a good step ...
LEMMA StepsAreGood == LineInv /\ Next => GoodStep
<1> SUFFICES ASSUME LineInv, Next PROVE GoodStep
  OBVIOUS
<1>1. CASE \E r \in Requests : \/ \E o \in Orders : \/ ReadForDispatch(r, o)
                                                    \/ \E to \in OrderStates : ReadForStatus(r, o, to)
                               \/ AbortRequest(r)
  BY <1>1, StepReads
<1>2. ASSUME NEW r \in Requests, NEW d \in DispatchIds, CommitDispatch(r, d) PROVE GoodStep
  BY <1>2, StepCommitDispatch
<1>3. ASSUME NEW r \in Requests, CommitStatus(r) PROVE GoodStep
  BY <1>3, StepCommitStatus
<1>4. CASE (\E v \in LineVersions : UpdateLine(v)) \/ (\E a \in Apps : DeleteEntrypoint(a) \/ SoftDelete(a))
  BY <1>4, StepEdits
<1>5. ASSUME NEW d \in DispatchIds, NEW s \in StepIds, StartRun(d, s) PROVE GoodStep
  BY <1>5, StepStartRun
<1>6. ASSUME NEW d \in DispatchIds, NEW s \in StepIds, ReadForAdvance(d, s) PROVE GoodStep
  BY <1>6, StepReads
<1>7. ASSUME NEW d \in DispatchIds, NEW s \in StepIds, DeleteRun(d, s) PROVE GoodStep
  BY <1>7, StepDeleteRun
<1>8. ASSUME NEW d \in DispatchIds, NEW s \in StepIds, EndRun(d, s) PROVE GoodStep
  BY <1>8, StepEndRun
<1>9. CASE Advance
  BY <1>9, StepAdvance
<1>10. CASE RollBackAdvance
  BY <1>10, StepReads
<1> QED  BY <1>1, <1>2, <1>3, <1>4, <1>5, <1>6, <1>7, <1>8, <1>9, <1>10 DEF Next, Api, Workers

\* ... so that every action keeps the invariant.
LEMMA InvStep == LineInv /\ [Next]_vars => LineInv'
<1> SUFFICES ASSUME LineInv, [Next]_vars PROVE LineInv'
  OBVIOUS
<1>1. CASE Next
  <2>1. GoodStep
    BY <1>1, StepsAreGood
  <2>2. ASSUME NEW d \in DispatchIds PROVE Fits(d)'
    BY <2>1, KeepFits DEF GoodStep, LineInv
  <2> QED  BY <2>1, <2>2 DEF GoodStep, LineInv
<1>2. CASE UNCHANGED vars
  <2>1. UNCHANGED <<order, line, app, dispatch, exec, queue, req, advance>>
    BY <1>2 DEF vars
  <2>2. TypeOK' /\ AdvanceFits' /\ DeletedStay
    BY <2>1 DEF LineInv, TypeOK, AdvanceFits, DeletedStay
  <2>3. GoodStep
    BY <2>1, <2>2, StepBeside
  <2>4. ASSUME NEW d \in DispatchIds PROVE Fits(d)'
    BY <2>3, KeepFits DEF GoodStep, LineInv
  <2> QED  BY <2>3, <2>4 DEF GoodStep, LineInv
<1> QED  BY <1>1, <1>2

\* The invariant of the line.
LEMMA InvHolds == Spec => []LineInv
  BY InitHolds, InvStep, PTL DEF Spec

\* Every row of the factory has its type.
THEOREM FactoryTypes == Spec => []TypeOK
<1>1. LineInv => TypeOK
  BY DEF LineInv
<1> QED  BY <1>1, InvHolds, PTL

(***************************************************************************)
(* Steps run in the order of the snapshot, and only a traversal all of     *)
(* whose steps passed is passed, for lines and edits of any length.        *)
(***************************************************************************)
THEOREM StepsRunInOrder == Spec => []StepsInOrder
<1>1. LineInv => StepsInOrder
  <2> SUFFICES ASSUME LineInv, NEW d \in DispatchIds, NEW s \in StepIds
               PROVE  /\ exec[d][s] # "none" =>
                            /\ s <= Len(dispatch[d].steps)
                            /\ s > 1 => exec[d][s - 1] = "passed"
                      /\ dispatch[d].state = "passed" /\ s <= Len(dispatch[d].steps)
                            => exec[d][s] = "passed"
    BY DEF StepsInOrder
  <2>1. StepsFit(d) /\ PassFits(d)
    BY DEF LineInv, Fits
  <2>2. s > 1 => s - 1 \in StepIds /\ s - 1 < s
    BY FactoryAssumption DEF StepIds
  <2> QED  BY <2>1, <2>2 DEF StepsFit, PassFits, PassedBefore
<1> QED  BY <1>1, InvHolds, PTL

(***************************************************************************)
(* While orders wait for a step, a run of it is in flight whose end admits *)
(* them, unless an app was deleted.                                        *)
(***************************************************************************)
THEOREM QueuesAreServed == Spec => []QueueIsServed
<1>1. LineInv => QueueIsServed
  BY DEF LineInv
<1> QED  BY <1>1, InvHolds, PTL

(***************************************************************************)
(* A traversal under way is at one step, running or waiting, and one that  *)
(* is over holds no slot and no place in a queue.                          *)
(***************************************************************************)
THEOREM TraversalsHaveOnePlace == Spec => []OnePlacePerTraversal
<1>1. ASSUME LineInv, NEW d \in DispatchIds
      PROVE  Cardinality(StepsOf(d)) + Cardinality(QueuesOf(d))
                = IF dispatch[d].state = "active" THEN 1 ELSE 0
  <2>1. TypeOK /\ Fits(d)
    BY <1>1 DEF LineInv
  <2>2. Cardinality({}) = 0 /\ \A s : Cardinality({s}) = 1
    BY FS_EmptySet, FS_Singleton
  <2>3. ASSUME NEW s \in StepIds, exec[d][s] \in InFlight
        PROVE  /\ dispatch[d].state = "active" /\ StepsOf(d) = {s} /\ QueuesOf(d) = {}
    <3>1. /\ dispatch[d].state = "active" /\ \A t \in StepIds : d \notin Waiting(t)
      BY <2>1, <2>3, InFlightIsThePlace
    <3>2. ASSUME NEW t \in StepIds, exec[d][t] \in InFlight PROVE t = s
      <4>1. ~(s < t)
        BY <2>1, <2>3, <3>2, InFlightIsThePlace DEF InFlight
      <4>2. ~(t < s)
        BY <2>1, <2>3, <3>2, InFlightIsThePlace DEF InFlight
      <4> QED  BY <4>1, <4>2, FactoryAssumption DEF StepIds
    <3> QED  BY <2>3, <3>1, <3>2 DEF StepsOf, QueuesOf
  <2>4. ASSUME NEW s \in StepIds, d \in Waiting(s)
        PROVE  /\ dispatch[d].state = "active" /\ StepsOf(d) = {} /\ QueuesOf(d) = {s}
    <3>1. /\ dispatch[d].state = "active"
          /\ \A t \in StepIds : exec[d][t] \notin InFlight
          /\ \A t \in StepIds : t # s => d \notin Waiting(t)
      BY <2>1, <2>4, WaitIsThePlace
    <3> QED  BY <2>4, <3>1 DEF StepsOf, QueuesOf
  <2>5. ASSUME \A s \in StepIds : exec[d][s] \notin InFlight /\ d \notin Waiting(s)
        PROVE  /\ dispatch[d].state # "active" /\ StepsOf(d) = {} /\ QueuesOf(d) = {}
    BY <2>1, <2>5 DEF Fits, IsSomewhere, StepsOf, QueuesOf
  <2>6. CASE \E s \in StepIds : exec[d][s] \in InFlight
    <3>1. PICK s \in StepIds : exec[d][s] \in InFlight
      BY <2>6
    <3>2. dispatch[d].state = "active" /\ Cardinality(StepsOf(d)) = 1 /\ Cardinality(QueuesOf(d)) = 0
      BY <2>2, <2>3, <3>1
    <3> QED  BY <3>2
  <2>7. CASE \E s \in StepIds : d \in Waiting(s)
    <3>1. PICK s \in StepIds : d \in Waiting(s)
      BY <2>7
    <3>2. dispatch[d].state = "active" /\ Cardinality(StepsOf(d)) = 0 /\ Cardinality(QueuesOf(d)) = 1
      BY <2>2, <2>4, <3>1
    <3> QED  BY <3>2
  <2>8. CASE \A s \in StepIds : exec[d][s] \notin InFlight /\ d \notin Waiting(s)
    <3>1. dispatch[d].state # "active" /\ Cardinality(StepsOf(d)) = 0 /\ Cardinality(QueuesOf(d)) = 0
      BY <2>2, <2>5, <2>8
    <3> QED  BY <3>1
  <2> QED  BY <2>6, <2>7, <2>8
<1>2. LineInv => OnePlacePerTraversal
  BY <1>1 DEF OnePlacePerTraversal
<1> QED  BY <1>2, InvHolds, PTL

\* Every step of the specification starts runs within the limits and in the queue's order.
LEMMA StartsAreGood == LineInv /\ [Next]_vars => StartsWithinLimit /\ StartsInOrder
<1> SUFFICES ASSUME LineInv, [Next]_vars PROVE StartsWithinLimit /\ StartsInOrder
  OBVIOUS
<1>1. CASE Next
  BY <1>1, StepsAreGood DEF GoodStep
<1>2. CASE UNCHANGED vars
  <2>1. \A s \in StepIds : Active(s)' = Active(s)
    BY <1>2 DEF vars, Active
  <2> QED  BY <2>1, NobodyStarts
<1> QED  BY <1>1, <1>2

(***************************************************************************)
(* A transaction that starts runs leaves the step within the limit of the  *)
(* last of them, for any number of orders, requests and edits of the line. *)
(***************************************************************************)
THEOREM StepsKeepTheirLimit == Spec => StepsWithinLimit
<1>1. LineInv /\ [Next]_vars => [StartsWithinLimit]_vars
  BY StartsAreGood
<1>2. [StartsWithinLimit]_vars => [\A s \in StepIds : NewlyStarted(s) # {} =>
         \E d \in NewlyStarted(s) : Cardinality(Active(s)') <= Limit(dispatch[d].steps, s)']_vars
  BY DEF StartsWithinLimit
<1> QED  BY <1>1, <1>2, InvHolds, PTL DEF Spec, StepsWithinLimit

(***************************************************************************)
(* Nobody starts past a dispatch that still waits for the step.            *)
(***************************************************************************)
THEOREM AdmissionIsFifo == Spec => FifoAdmission
<1>1. LineInv /\ [Next]_vars => [StartsInOrder]_vars
  BY StartsAreGood
<1>2. [StartsInOrder]_vars => [\A s \in StepIds : \A d \in NewlyStarted(s), j \in 1 .. Len(queue[s]) :
         queue[s][j] \in Waiting(s)' => \E i \in 1 .. j - 1 : queue[s][i] = d]_vars
  BY DEF StartsInOrder
<1> QED  BY <1>1, <1>2, InvHolds, PTL DEF Spec, FifoAdmission
=============================================================================
