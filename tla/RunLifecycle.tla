--------------------------- MODULE RunLifecycle ---------------------------
(***************************************************************************)
(* What the engine promises of every run: its life is                      *)
(* none -> [pending ->] started -> [cancelling ->] finished, it is finished *)
(* only when no work of it is left, and work never comes back: a run that  *)
(* has run out of work stays without until it is finished, and a finished  *)
(* run has none ever after.                                                *)
(***************************************************************************)
CONSTANT RunIds

VARIABLES
    state,    \* of every run
    result,   \* of every run, "none" until it is finished
    busy      \* whether the run has a pending event, a queue item or an
              \* execution that is not finished

lifecycleVars == <<state, result, busy>>

LifecycleInit ==
    /\ state  = [r \in RunIds |-> "none"]
    /\ result = [r \in RunIds |-> "none"]
    /\ busy   = [r \in RunIds |-> FALSE]

(* A run starts with its root event, or waits for the initializer. *)
Create(r) ==
    /\ state[r] = "none" /\ result'[r] = "none"
    /\ \/ state'[r] = "pending" /\ ~busy'[r]
       \/ state'[r] = "started" /\ busy'[r]

Initialize(r) ==
    /\ state[r] = "pending"
    /\ \/ state'[r] = "started" /\ result'[r] = "none" /\ busy'[r]
       \/ state'[r] = "finished" /\ result'[r] = "failed" /\ ~busy'[r]

(* A busy run makes progress and may run out of work. *)
Work(r) ==
    /\ state[r] \in {"started", "cancelling"} /\ busy[r]
    /\ state'[r] = state[r] /\ result'[r] = result[r]

Cancel(r) ==
    /\ state[r] \in {"pending", "started"}
    /\ state'[r] = "cancelling" /\ result'[r] = result[r]
    /\ busy'[r] => busy[r]

Finish(r) ==
    /\ state[r] \in {"started", "cancelling"} /\ ~busy[r]
    /\ state'[r] = "finished" /\ ~busy'[r]
    /\ result'[r] \in IF state[r] = "cancelling" THEN {"cancelled"}
                      ELSE {"passed", "failed", "cancelled"}

Same(r) == state'[r] = state[r] /\ result'[r] = result[r] /\ busy'[r] = busy[r]

(* One transaction may move several runs. *)
LifecycleNext ==
    \A r \in RunIds : \/ Create(r) \/ Initialize(r) \/ Work(r)
                      \/ Cancel(r) \/ Finish(r) \/ Same(r)

LifecycleSpec == LifecycleInit /\ [][LifecycleNext]_lifecycleVars
=============================================================================
