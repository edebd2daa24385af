------------------------------- MODULE MCAgent ------------------------------
(***************************************************************************)
(* A small instance of Agent: two clients, each on a domain of its own.    *)
(***************************************************************************)
EXTENDS Agent

CONSTANTS c1, c2, d1, d2

\* Each client needs a manager of its own.
MCDomainOf == [c \in Clients |-> IF c = c2 THEN d2 ELSE d1]
=============================================================================
