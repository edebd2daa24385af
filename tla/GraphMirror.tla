----------------------------- MODULE GraphMirror ----------------------------
(***************************************************************************)
(* What GraphManager promises the micro-ROS side: a copy of the ROS graph, *)
(* published on ros_to_microros_graph, that may lag behind the graph but   *)
(* never silently.  Whenever the last published copy is not known to be    *)
(* the current graph, the manager still owes a publication (owed): with    *)
(* nothing owed, the mirror shows the graph.                               *)
(*                                                                         *)
(* MicrorosGraph is shown to implement it of the graph in the cache,       *)
(* WholeManager of the graph of the domain itself.                         *)
(***************************************************************************)
VARIABLES
  graph,   \* the graph to be shown
  mirror,  \* the last graph published
  owed     \* a publication is still to come

vars == <<graph, mirror, owed>>

\* Nothing was published yet, so the first publication is owed.
Init == owed = TRUE

\* Something happens to the graph: whatever it is, a publication is owed.
Change ==
  /\ owed' = TRUE
  /\ mirror' = mirror

\* The current graph is published and the debt is settled.
Publish ==
  /\ owed
  /\ mirror' = graph
  /\ owed' = FALSE
  /\ graph' = graph

\* A graph that changed while it was being collected is published.  It may be
\* outdated or torn, so the debt stays.
PublishTorn ==
  /\ owed
  /\ owed' = TRUE
  /\ graph' = graph

Next == Change \/ Publish \/ PublishTorn

Spec == Init /\ [][Next]_vars
=============================================================================
