------------------------ MODULE RunEngine_capacity ------------------------
(***************************************************************************)
(* Proof that a queue never holds more executions than its node allows,    *)
(* although one pass of the queue worker starts several items at once, for *)
(* every concurrency limit and every number of items.                      *)
(***************************************************************************)
EXTENDS RunEngine_proofs, FunctionTheorems, FiniteSetTheorems

(* The items of a node have an age order. *)
DistinctStamps ==
    \A d, x \in Deliveries :
        d[2] = x[2] /\ Queued(d) /\ Queued(x) /\ item[d].at = item[x].at => d = x

CapacityInv ==
    /\ TypeOK
    /\ DistinctStamps
    /\ QueueWithinCapacity

(* The executions counted by ActiveInQueue. *)
Active(n, q) ==
    {e \in EventIds : exec[<<e, n>>].queue = q /\ exec[<<e, n>>].state \in ActiveStates}

-----------------------------------------------------------------------------
\* A finite set of runs and outputs gives finitely many events.
LEMMA EventIdsFinite == IsFiniteSet(EventIds)
  BY FiniteAssumption, FS_Union DEF EventIds

\* What a queue holds is a finite set, so the count the code takes is its size.
LEMMA ActiveFinite ==
    ASSUME NEW n, NEW q
    PROVE  /\ IsFiniteSet(Active(n, q))
           /\ ActiveInQueue(n, q) = Cardinality(Active(n, q))
           /\ ActiveInQueue(n, q) \in Nat
<1>1. Active(n, q) \in SUBSET EventIds
  BY DEF Active
<1>2. IsFiniteSet(Active(n, q))
  BY <1>1, EventIdsFinite, FS_Subset
<1>3. ActiveInQueue(n, q) = Cardinality(Active(n, q))
  BY DEF ActiveInQueue, Active
<1> QED  BY <1>2, <1>3, FS_CardinalityType

(* A finite set of rows has a newest one. *)
LEMMA Newest ==
    ASSUME NEW T, IsFiniteSet(T), T # {}, NEW at \in [T -> Nat]
    PROVE  \E d \in T : \A x \in T : at[x] <= at[d]
<1> DEFINE later(d) == {x \in T : at[x] > at[d]}
           W        == {later(d) : d \in T}
           R        == StrictSubsetOrdering(T)
<1>1. IsWellFoundedOn(R, FiniteSubsetsOf(T))
  BY FS_StrictSubsetOrderingWellFounded
<1>2. W \subseteq SUBSET T /\ W # {}
  <2>1. \A d \in T : later(d) \in SUBSET T /\ later(d) \in W
    OBVIOUS
  <2> HIDE DEF later
  <2> QED  BY <2>1
<1>3. W \subseteq FiniteSubsetsOf(T)
  BY <1>2, FS_FiniteSubsetsOfFinite
<1>4. PICK m \in W : \A y \in W : ~(<<y, m>> \in R)
  <2> HIDE DEF W, R
  <2> QED  BY <1>1, <1>2, <1>3, WFMin
<1>5. PICK d \in T : m = later(d)
  BY <1>4
<1>6. ASSUME NEW x \in T, at[x] > at[d] PROVE FALSE
  <2>1. later(x) \subseteq later(d) /\ x \in later(d) /\ x \notin later(x)
    BY <1>6
  <2>2. <<later(x), later(d)>> \in R
    BY <2>1 DEF StrictSubsetOrdering
  <2> QED  BY <1>4, <1>5, <2>2
<1> QED  BY <1>6

(***************************************************************************)
(* The items a pass starts in one queue fit into it: the newest of them    *)
(* was let through with all the others counted as ahead of it.             *)
(***************************************************************************)
LEMMA AdmittedFit ==
    ASSUME NEW n \in Nodes, NEW q \in Queues, NEW rows, NEW L, NEW name, NEW bad,
           IsFiniteSet(L),
           \A d \in L : rows[d].at \in Nat,
           \A d, x \in L : rows[d].at = rows[x].at => d = x,
           Max[n] \in Nat, ActiveInQueue(n, q) <= Max[n]
    PROVE  LET T == {d \in Reached(n, rows, L, name, bad) \ bad : name[d] = q}
           IN  /\ IsFiniteSet(T)
               /\ ActiveInQueue(n, q) + Cardinality(T) <= Max[n]
<1> DEFINE T == {d \in Reached(n, rows, L, name, bad) \ bad : name[d] = q}
<1>1. T \in SUBSET L
  BY DEF Reached
<1>2. IsFiniteSet(T) /\ Cardinality(T) \in Nat
  BY <1>1, FS_Subset, FS_CardinalityType
<1>3. ActiveInQueue(n, q) \in Nat
  BY ActiveFinite
<1>4. CASE T = {}
  BY <1>2, <1>3, <1>4, FS_EmptySet
<1>5. CASE T # {}
  <2>1. PICK d \in T : \A x \in T : rows[x].at <= rows[d].at
    <3> DEFINE at == [x \in T |-> rows[x].at]
    <3>1. at \in [T -> Nat]
      BY <1>1
    <3>2. \E d \in T : \A x \in T : at[x] <= at[d]
      <4> HIDE DEF at, T
      <4> QED  BY <1>2, <1>5, <3>1, Newest
    <3> QED  BY <3>2
  <2> DEFINE ahead == {x \in L \ bad : name[x] = name[d] /\ rows[x].at < rows[d].at}
  <2>2. ActiveInQueue(n, q) + Cardinality(ahead) < Max[n]
    BY DEF Reached
  <2>3. T \ {d} \subseteq ahead
    BY <1>1, <2>1
  <2>4. ahead \in SUBSET L
    OBVIOUS
  <2>5. IsFiniteSet(ahead) /\ Cardinality(ahead) \in Nat
    BY <2>4, FS_Subset, FS_CardinalityType
  <2>6. Cardinality(T \ {d}) = Cardinality(T) - 1
    BY <1>2, FS_RemoveElement
  <2>7. Cardinality(T \ {d}) <= Cardinality(ahead)
    BY <2>3, <2>5, FS_Subset
  <2> QED  BY <1>2, <1>3, <2>2, <2>5, <2>6, <2>7
<1> QED  BY <1>4, <1>5

-----------------------------------------------------------------------------
\* The stamp of a queue item is a number.
LEMMA StampType ==
    ASSUME TypeOK, NEW d \in Deliveries
    PROVE  item[d].at \in Nat
<1>1. item[d] \in ItemRecord
  BY DEF TypeOK
<1>2. item[d].at \in Stamps \cup {0}
  BY <1>1 DEF ItemRecord
<1>3. Stamps \subseteq Nat
  BY IdAssumption
<1>4. \A t \in Stamps \cup {0} : t \in Nat
  BY <1>3
<1> QED  BY <1>2, <1>4, Zenon

(* What the age order needs of a step: items are not stamped again. *)
LEMMA StampsKept ==
    ASSUME CapacityInv, \A d \in Deliveries : item'[d].at \in {item[d].at, 0}
    PROVE  DistinctStamps'
  BY DEF CapacityInv, DistinctStamps, Queued

(* A step that makes no execution active keeps every queue within capacity. *)
LEMMA CapacityKept ==
    ASSUME CapacityInv,
           \A d \in Deliveries : exec'[d].state \in ActiveStates =>
              exec[d].state \in ActiveStates /\ exec'[d].queue = exec[d].queue
    PROVE  QueueWithinCapacity'
<1> SUFFICES ASSUME NEW n \in Nodes, NEW q \in Queues
             PROVE  ActiveInQueue(n, q)' <= Max[n]
  BY DEF QueueWithinCapacity
<1> DEFINE after == {e \in EventIds : /\ exec'[<<e, n>>].queue = q
                                     /\ exec'[<<e, n>>].state \in ActiveStates}
<1>1. after \subseteq Active(n, q)
  BY DEF Active, Deliveries
<1>2. Cardinality(after) <= Cardinality(Active(n, q)) /\ IsFiniteSet(after)
  BY <1>1, ActiveFinite, FS_Subset
<1>3. ActiveInQueue(n, q)' = Cardinality(after)
  BY DEF ActiveInQueue
<1>4. Cardinality(Active(n, q)) <= Max[n]
  BY ActiveFinite DEF CapacityInv, QueueWithinCapacity
<1>5. /\ Cardinality(after) \in Nat /\ Cardinality(Active(n, q)) \in Nat
      /\ Max[n] \in Nat
  BY <1>2, ActiveFinite, FS_CardinalityType, QueueAssumption
<1> QED  BY <1>2, <1>3, <1>4, <1>5

(* The router stamps its items later than all queued ones, one per node. *)
LEMMA RouteEventFits ==
    ASSUME CapacityInv, NEW e \in EventIds, RouteEvent(e)
    PROVE  DistinctStamps' /\ QueueWithinCapacity'
<1>1. PICK now \in Stamps :
         /\ IsNow(now)
         /\ item' = [d \in Deliveries |->
                       IF d[1] = e /\ d[2] \in RouteTargets(e)
                       THEN [at |-> now, queue |-> Unresolved]
                       ELSE item[d]]
  BY DEF RouteEvent
<1>2. \A d \in Deliveries : item[d].at < now /\ item[d].at \in Nat
  BY <1>1, StampType DEF IsNow, CapacityInv
<1>3. \A d \in Deliveries :
         \/ item'[d].at = now /\ d[1] = e
         \/ item'[d].at = item[d].at
  BY <1>1
<1>4. ASSUME NEW d \in Deliveries, NEW x \in Deliveries, d[2] = x[2],
             Queued(d)', Queued(x)', item'[d].at = item'[x].at
      PROVE  d = x
  <2>1. d[1] = x[1] => d = x
    BY <1>4 DEF Deliveries
  <2>2. now \in Nat
    BY IdAssumption
  <2> QED  BY <1>2, <1>3, <1>4, <2>1, <2>2 DEF CapacityInv, DistinctStamps, Queued
<1>5. DistinctStamps'
  BY <1>4 DEF DistinctStamps
<1>6. QueueWithinCapacity'
  BY CapacityKept DEF RouteEvent
<1> QED  BY <1>5, <1>6

(***************************************************************************)
(* The writes of a pass fit, whatever it has listed, as long as the listed *)
(* items of the node are finitely many and have an age order: the capacity *)
(* is counted when the pass writes.                                        *)
(***************************************************************************)
LEMMA DispatchFits ==
    ASSUME CapacityInv, NEW m \in Nodes, NEW rows, NEW L \in SUBSET Deliveries,
           \A d \in L : d[2] = m,
           \A d \in L : rows[d].at \in Nat,
           \A d, x \in L : rows[d].at = rows[x].at => d = x,
           Dispatch(m, rows, L)
    PROVE  DistinctStamps' /\ QueueWithinCapacity'
<1>1. PICK name \in QueueNames(m, rows, L), bad \in SUBSET L :
        DispatchAs(m, rows, L, name, bad)
  BY DEF Dispatch
<1> DEFINE admitted == Reached(m, rows, L, name, bad) \ bad
           failed   == bad \cup {d \in L : name[d] = KeyError}
<1>2. DistinctStamps'
  <2>1. \A d \in Deliveries : \/ item'[d] = item[d] \/ item'[d] = NoItem
                              \/ item'[d] = [item[d] EXCEPT !.queue = name[d]]
    BY <1>1 DEF DispatchAs
  <2>2. \A d \in Deliveries : [item[d] EXCEPT !.queue = name[d]].at = item[d].at
    BY DEF CapacityInv, TypeOK, ItemRecord
  <2>3. NoItem.at = 0
    BY DEF NoItem
  <2>4. \A d \in Deliveries : item'[d].at \in {item[d].at, 0}
    BY <2>1, <2>2, <2>3
  <2> QED  BY <2>4, StampsKept
<1>3. IsFiniteSet(L)
  <2>1. IsFiniteSet(EventIds \X {m})
    BY EventIdsFinite, FS_Singleton, FS_Product
  <2>2. L \in SUBSET (EventIds \X {m})
    BY DEF Deliveries
  <2> QED  BY <2>1, <2>2, FS_Subset
<1>4. \A d \in Deliveries :
         \/ d \in admitted /\ exec'[d].queue = name[d]
         \/ exec'[d].state \notin ActiveStates
         \/ exec'[d] = exec[d]
  BY <1>1 DEF DispatchAs, ActiveStates
<1>5. QueueWithinCapacity'
  <2> SUFFICES ASSUME NEW n \in Nodes, NEW q \in Queues
               PROVE  ActiveInQueue(n, q)' <= Max[n]
    BY DEF QueueWithinCapacity
  <2> DEFINE T     == {d \in admitted : name[d] = q}
             new   == {e \in EventIds : <<e, n>> \in T}
             after == {e \in EventIds : /\ exec'[<<e, n>>].queue = q
                                       /\ exec'[<<e, n>>].state \in ActiveStates}
  <2>1. ActiveInQueue(n, q)' = Cardinality(after)
    BY DEF ActiveInQueue
  <2>2. after \subseteq Active(n, q) \cup new
    BY <1>4 DEF Active, Deliveries
  <2>3. ActiveInQueue(n, q) <= Max[n] /\ Max[n] \in Nat
    BY QueueAssumption DEF CapacityInv, QueueWithinCapacity
  <2>4. IsFiniteSet(new) /\ ActiveInQueue(n, q) + Cardinality(new) <= Max[n]
    <3>1. CASE n = m
      <4>1. IsFiniteSet(T) /\ ActiveInQueue(n, q) + Cardinality(T) <= Max[n]
        BY <1>3, <2>3, <3>1, AdmittedFit
      <4>2. IsFiniteSet(new) /\ Cardinality(new) <= Cardinality(T)
        <5> DEFINE f == [e \in new |-> <<e, n>>]
        <5>1. f \in [new -> T] /\ \A a, b \in new : f[a] = f[b] => a = b
          OBVIOUS
        <5>2. f \in Injection(new, T)
          <6> HIDE DEF f, new, T
          <6> QED  BY <5>1, Fun_IsInj
        <5> HIDE DEF f, new, T
        <5> QED  BY <4>1, <5>2, FS_Injection
      <4>3. /\ Cardinality(new) \in Nat /\ Cardinality(T) \in Nat
            /\ ActiveInQueue(n, q) \in Nat
        BY <4>1, <4>2, FS_CardinalityType, ActiveFinite
      <4> HIDE DEF new, T
      <4> QED  BY <2>3, <4>1, <4>2, <4>3
    <3>2. CASE n # m
      <4>1. new = {}
        BY <3>2 DEF Reached
      <4>2. IsFiniteSet(new) /\ Cardinality(new) = 0
        BY <4>1, FS_EmptySet
      <4>3. ActiveInQueue(n, q) \in Nat
        BY ActiveFinite
      <4> HIDE DEF new
      <4> QED  BY <2>3, <4>2, <4>3
    <3> QED  BY <3>1, <3>2
  <2> HIDE DEF new, after
  <2>5. IsFiniteSet(Active(n, q)) /\ ActiveInQueue(n, q) = Cardinality(Active(n, q))
    BY ActiveFinite
  <2>6. /\ IsFiniteSet(Active(n, q) \cup new)
        /\ Cardinality(Active(n, q) \cup new) =
              Cardinality(Active(n, q)) + Cardinality(new)
                 - Cardinality(Active(n, q) \cap new)
    BY <2>4, <2>5, FS_Union
  <2>7. IsFiniteSet(after) /\ Cardinality(after) <= Cardinality(Active(n, q) \cup new)
    BY <2>2, <2>6, FS_Subset
  <2>8. IsFiniteSet(Active(n, q) \cap new)
    BY <2>5, FS_Subset
  <2>9. /\ Cardinality(after) \in Nat /\ Cardinality(new) \in Nat
        /\ Cardinality(Active(n, q)) \in Nat
        /\ Cardinality(Active(n, q) \cap new) \in Nat
    BY <2>4, <2>5, <2>7, <2>8, FS_CardinalityType
  <2> QED  BY <2>1, <2>3, <2>4, <2>5, <2>6, <2>7, <2>9
<1> QED  BY <1>2, <1>5

(* A pass. *)
LEMMA ProcessNodeFits ==
    ASSUME CapacityInv, NEW m \in Nodes, ProcessNode(m)
    PROVE  DistinctStamps' /\ QueueWithinCapacity'
<1> DEFINE rows == [d \in Window(m) |-> item[d]]
           L    == Live(Window(m))
<1>1. /\ L \subseteq Window(m) /\ L \in SUBSET Deliveries
      /\ \A d \in L : Queued(d) /\ d[2] = m
  BY DEF Live, Window, Actionable
<1>2. /\ \A d \in L : rows[d].at \in Nat
      /\ \A d, x \in L : rows[d].at = rows[x].at => d = x
  <2>1. \A d \in L : rows[d] = item[d] /\ d \in Deliveries
    BY <1>1
  <2>2. \A d \in Deliveries : item[d].at \in Nat
    BY StampType DEF CapacityInv
  <2> HIDE DEF rows, L
  <2> QED  BY <1>1, <2>1, <2>2 DEF CapacityInv, DistinctStamps
<1>3. Dispatch(m, rows, L)
  BY DEF ProcessNode
<1> HIDE DEF rows, L
<1> QED  BY <1>1, <1>2, <1>3, DispatchFits

(* The other actions activate no execution and stamp no item. *)
LEMMA OthersFit ==
    ASSUME CapacityInv,
           \A d \in Deliveries : item'[d].at \in {item[d].at, 0},
           \A d \in Deliveries : exec'[d].state \in ActiveStates =>
              exec[d].state \in ActiveStates /\ exec'[d].queue = exec[d].queue
    PROVE  DistinctStamps' /\ QueueWithinCapacity'
  BY StampsKept, CapacityKept

(* Begin, Pass and Fail leave the items alone. *)
LEMMA OutcomeFits ==
    ASSUME CapacityInv, NEW d \in Deliveries, exec[d].state \in {"pending", "started"},
           Begin(d) \/ Pass(d) \/ Fail(d)
    PROVE  DistinctStamps' /\ QueueWithinCapacity'
<1>1. item' = item /\ \A x \in Deliveries \ {d} : exec'[x] = exec[x]
  BY DEF Begin, Pass, Fail, Finished, CapacityInv, TypeOK
<1>2. exec'[d].queue = exec[d].queue /\ exec[d].state \in ActiveStates
  <2>1. \A result \in Results :
           [exec[d] EXCEPT !.state = "finished", !.result = result].queue = exec[d].queue
    BY DEF CapacityInv, TypeOK, ExecRecord
  <2>2. [exec[d] EXCEPT !.state = "started"].queue = exec[d].queue
    BY DEF CapacityInv, TypeOK, ExecRecord
  <2> QED  BY <2>1, <2>2 DEF Begin, Pass, Fail, Finished, Results, CapacityInv, TypeOK,
                             ActiveStates
<1> QED  BY <1>1, <1>2, OthersFit

(* Executions that are cancelled keep their slot. *)
LEMMA CancellingFits ==
    ASSUME CapacityInv, NEW D \in SUBSET Deliveries,
           \A d \in D : exec[d].state \in ActiveStates,
           exec' = CancellingExecs(D),
           \A d \in Deliveries : item'[d] \in {item[d], NoItem}
    PROVE  DistinctStamps' /\ QueueWithinCapacity'
<1>1. \A d \in Deliveries : item'[d].at \in {item[d].at, 0}
  BY DEF NoItem
<1>2. \A d \in Deliveries : [exec[d] EXCEPT !.state = "cancelling"].queue = exec[d].queue
  BY DEF CapacityInv, TypeOK, ExecRecord
<1>3. \A d \in Deliveries : exec'[d].state \in ActiveStates =>
         exec[d].state \in ActiveStates /\ exec'[d].queue = exec[d].queue
  BY <1>2 DEF CancellingExecs
<1> QED  BY <1>1, <1>3, OthersFit

-----------------------------------------------------------------------------
\* The empty system has distinct stamps and no active execution.
LEMMA CapacityInit == Init => CapacityInv
<1> SUFFICES ASSUME Init PROVE CapacityInv
  OBVIOUS
<1>1. \A d \in Deliveries : item[d].at = 0 /\ exec[d].state = "none"
  BY DEF Init, NoItem, NoExec
<1>2. DistinctStamps
  BY <1>1 DEF DistinctStamps, Queued
<1>3. ASSUME NEW n \in Nodes, NEW q \in Queues PROVE ActiveInQueue(n, q) <= Max[n]
  <2>1. Active(n, q) = {}
    BY <1>1 DEF Active, Deliveries, ActiveStates
  <2>2. ActiveInQueue(n, q) = 0
    BY <2>1, ActiveFinite, FS_EmptySet
  <2> QED  BY <2>2, QueueAssumption
<1> QED  BY <1>2, <1>3, InitType DEF CapacityInv, QueueWithinCapacity

\* Every step keeps the stamps distinct and the queues within capacity.
LEMMA CapacityNext == CapacityInv /\ [Next]_vars => CapacityInv'
<1> SUFFICES ASSUME CapacityInv, [Next]_vars
             PROVE  DistinctStamps' /\ QueueWithinCapacity'
  BY StepType DEF CapacityInv
<1>1. ASSUME item' = item, exec' = exec PROVE DistinctStamps' /\ QueueWithinCapacity'
  BY <1>1, OthersFit
<1>2. CASE UNCHANGED vars
  BY <1>1, <1>2 DEF vars
<1>3. CASE \E n \in Triggers, r \in RunIds : EmitRootEvent(n, r) \/ CreatePendingRun(n, r)
  BY <1>1, <1>3 DEF EmitRootEvent, CreatePendingRun
<1>4. CASE \E r \in RunIds : InitializeRun(r) \/ FinalizeRun(r)
  BY <1>1, <1>4 DEF InitializeRun, StartRun, FailRun, FinalizeRun
<1>5. CASE \E r \in RunIds : CancelRun(r) \/ DrainAgain(r)
  <2>1. PICK r \in RunIds : Drain(r)
    BY <1>5 DEF CancelRun, DrainAgain
  <2> DEFINE D == {d \in Deliveries :
                     RunOf(d) = r /\ exec[d].state \in {"pending", "started"}}
  <2>2. exec' = CancellingExecs(D) /\ \A d \in D : exec[d].state \in ActiveStates
    BY <2>1 DEF Drain, ActiveStates
  <2>3. \A d \in Deliveries : item'[d] \in {item[d], NoItem}
    BY <2>1 DEF Drain
  <2>4. D \in SUBSET Deliveries
    OBVIOUS
  <2> HIDE DEF D
  <2> QED  BY <2>2, <2>3, <2>4, CancellingFits
<1>6. CASE \E e \in EventIds : RouteEvent(e)
  BY <1>6, RouteEventFits
<1>7. CASE \E n \in Nodes : ProcessNode(n)
  BY <1>7, ProcessNodeFits
<1>8. CASE \E d \in Deliveries : Execute(d) \/ InvokeHook(d)
  BY <1>8, OutcomeFits DEF Execute, InvokeHook
<1>9. ASSUME NEW d \in Deliveries, Terminate(d)
      PROVE  DistinctStamps' /\ QueueWithinCapacity'
  <2>1. [exec[d] EXCEPT !.state = "finished", !.result = "cancelled"].state = "finished"
    BY DEF CapacityInv, TypeOK, ExecRecord
  <2>2. exec'[d].state = "finished" /\ \A x \in Deliveries \ {d} : exec'[x] = exec[x]
    BY <1>9, <2>1 DEF Terminate, Finished, CapacityInv, TypeOK
  <2>3. item' = item
    BY <1>9 DEF Terminate
  <2> QED  BY <2>2, <2>3, OthersFit DEF ActiveStates
<1>10. ASSUME NEW d \in Deliveries, CancelExecution(d)
       PROVE  DistinctStamps' /\ QueueWithinCapacity'
  BY <1>10, CancellingFits DEF CancelExecution, ActiveStates
<1>11. ASSUME NEW d \in Deliveries, DeleteQueueItem(d)
       PROVE  DistinctStamps' /\ QueueWithinCapacity'
  <2>1. \A x \in Deliveries : item'[x].at \in {item[x].at, 0}
    BY <1>11 DEF DeleteQueueItem, NoItem, CapacityInv, TypeOK
  <2> QED  BY <1>11, <2>1, OthersFit DEF DeleteQueueItem
<1>12. ASSUME NEW n \in AllNodes, UpdateNode(n)
       PROVE  DistinctStamps' /\ QueueWithinCapacity'
  BY <1>1, <1>12 DEF UpdateNode
<1>13. ASSUME NEW n \in AllNodes, DeleteNode(n)
       PROVE  DistinctStamps' /\ QueueWithinCapacity'
  <2> DEFINE D == {d \in Deliveries : d[2] = n /\ exec[d].state \in ActiveStates}
  <2>1. exec' = CancellingExecs(D) /\ \A d \in D : exec[d].state \in ActiveStates
    BY <1>13 DEF DeleteNode
  <2>2. \A d \in Deliveries : item'[d] \in {item[d], NoItem}
    BY <1>13 DEF DeleteNode
  <2>3. D \in SUBSET Deliveries
    OBVIOUS
  <2> HIDE DEF D
  <2> QED  BY <2>1, <2>2, <2>3, CancellingFits
<1> QED  BY <1>2, <1>3, <1>4, <1>5, <1>6, <1>7, <1>8, <1>9, <1>10, <1>11, <1>12, <1>13
         DEF Next

(***************************************************************************)
(* A queue of a node never has more executions in it than the node's       *)
(* concurrency allows, however many items one pass starts, cancels or      *)
(* finds broken (processNodeQueueItems).                                   *)
(***************************************************************************)
THEOREM QueuesStayWithinCapacity == Spec => []QueueWithinCapacity
<1>1. CapacityInv => QueueWithinCapacity
  BY DEF CapacityInv
<1> QED  BY <1>1, CapacityInit, CapacityNext, PTL DEF Spec
===========================================================================
