-------------------------- MODULE MCMicrorosGraph ---------------------------
(***************************************************************************)
(* Instances of MicrorosGraph for TLC.                                     *)
(***************************************************************************)
EXTENDS MicrorosGraph

\* Topic names of a plain topic and of the two topics of a service.
Chatter == [kind |-> "topic", name |-> "chatter"]
AddRequest == [kind |-> "request", name |-> "add"]

MCTopics == {Chatter, AddRequest}
=============================================================================
