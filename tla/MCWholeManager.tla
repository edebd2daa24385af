--------------------------- MODULE MCWholeManager ---------------------------
(***************************************************************************)
(* A client with a datawriter, and a peer that comes and goes.             *)
(***************************************************************************)
EXTENDS WholeManager

CONSTANTS c1, q1, w1, node1

Datawriter == [kind |-> "datawriter", owner |-> c1, entities |-> <<w1>>]
MCObjects == {Datawriter}
MCNodeOf == [c \in Clients |-> node1]
MCTopicOf == [e \in Entities |-> [kind |-> "topic", name |-> e]]
MCBefore == {<<q1, c1>>}
=============================================================================
