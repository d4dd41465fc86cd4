---------------------------- MODULE MCRunEngine ----------------------------
(* Small canvases for TLC. *)
EXTENDS RunEngine

Edge(s, c, t) == [src |-> s, channel |-> c, dst |-> t]

(* trigger -> a -> b, and an On Error node that leads to b. *)
ChainEdges == {Edge("t", "default", "a"), Edge("a", "default", "b"),
               Edge("err", "default", "b")}

(* trigger -> a. *)
SingleEdge == {Edge("t", "default", "a")}

MaxOne == [n \in Nodes |-> 1]

(* Every key evaluates, to any queue ... *)
AnyQueue == [n \in Nodes |-> Queues]
(* ... or may also fail to evaluate. *)
AnyQueueOrError == [n \in Nodes |-> Queues \cup {KeyError}]

(* The queue whose components end, in the starvation run. *)
NoStarvation == NoStarvationOf("q2")
StarvationSpec == WorkerSpec /\ QueueFairness("q2")
=============================================================================
