--------------------------- MODULE MCReadCommitted ---------------------------
(* Small canvases for ReadCommitted. *)
EXTENDS ReadCommitted

(* trigger -> a. *)
SingleEdge == {[src |-> "t", channel |-> "default", dst |-> "a"]}

MaxOne   == [n \in Nodes |-> 1]
AnyQueue == [n \in Nodes |-> Queues]
==============================================================================
