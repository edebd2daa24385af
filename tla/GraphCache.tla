----------------------------- MODULE GraphCache -----------------------------
(***************************************************************************)
(* rmw_dds_common::GraphCache, the store behind graphCache_                *)
(* (graph_manager.hpp:296).  The class is not part of this repository: the *)
(* operators below are what its callers in graph_manager.cpp rely on.      *)
(*                                                                         *)
(* A cache is a record of three maps:                                      *)
(*   participants   gid -> (node name -> [writers, readers]): the node     *)
(*                  entities info of each known participant;               *)
(*   writers, readers   gid -> topic: the known endpoints.                 *)
(* A topic is a record [kind, name]; kind says which of the demanglers     *)
(* that publish_microros_graph passes in accepts the name: "topic" (rt/),  *)
(* "request" (rq/...Request) or "reply" (rr/...Reply).                     *)
(* Enclaves, type hashes and QoS profiles are stored by the class and read *)
(* by nobody in this program: they are left out.                           *)
(***************************************************************************)
EXTENDS Functions

CONSTANT Before  \* the order of gids: the pairs of a gid and one after it

NoEntries == [key \in {} |-> {}]

EmptyCache ==
  [participants |-> NoEntries, writers |-> NoEntries, readers |-> NoEntries]

NoEntities == [writers |-> {}, readers |-> {}]

Put(f, x, y) == [z \in DOMAIN f \union {x} |-> IF z = x THEN y ELSE f[z]]
Without(f, x) == Restrict(f, DOMAIN f \ {x})

Knows(c, p) == p \in DOMAIN c.participants
HasNode(c, p, n) == Knows(c, p) /\ n \in DOMAIN c.participants[p]

(***************************************************************************)
(* Updates.  Each returns the cache after the call.  remove_participant,   *)
(* add_entity and remove_entity are the three that may change nothing.     *)
(***************************************************************************)
AddParticipant(c, p) ==
  IF Knows(c, p) THEN c
  ELSE [c EXCEPT !.participants = Put(@, p, NoEntries)]

RemoveParticipant(c, p) ==
  IF Knows(c, p) THEN [c EXCEPT !.participants = Without(@, p)]
  ELSE c

\* update_participant_entities: creates the entry of p when it has none.
UpdateParticipantEntities(c, p, nodes) ==
  [c EXCEPT !.participants = Put(@, p, nodes)]

\* add_node asserts that p is known (Knows).
AddNode(c, p, n) ==
  IF HasNode(c, p, n) THEN c
  ELSE [c EXCEPT !.participants[p] = Put(@, n, NoEntities)]

AddWriter(c, e, topic) ==
  IF e \in DOMAIN c.writers THEN c ELSE [c EXCEPT !.writers = Put(@, e, topic)]

AddReader(c, e, topic) ==
  IF e \in DOMAIN c.readers THEN c ELSE [c EXCEPT !.readers = Put(@, e, topic)]

RemoveWriter(c, e) ==
  IF e \in DOMAIN c.writers THEN [c EXCEPT !.writers = Without(@, e)] ELSE c

RemoveReader(c, e) ==
  IF e \in DOMAIN c.readers THEN [c EXCEPT !.readers = Without(@, e)] ELSE c

\* associate_writer and associate_reader assert that p has node n (HasNode).
AssociateWriter(c, e, p, n) ==
  [c EXCEPT !.participants[p][n].writers = @ \union {e}]

AssociateReader(c, e, p, n) ==
  [c EXCEPT !.participants[p][n].readers = @ \union {e}]

(***************************************************************************)
(* Queries.  A node is looked up by name, across participants in gid       *)
(* order: of two participants with a node of the same name the lower gid   *)
(* answers.  A gid of the node that is no known endpoint is skipped.       *)
(***************************************************************************)
NodeNames(c) == UNION {DOMAIN c.participants[p] : p \in DOMAIN c.participants}

NodeInfo(c, n) ==
  LET owners == {p \in DOMAIN c.participants : HasNode(c, p, n)}
      first  == CHOOSE p \in owners : \A q \in owners \ {p} : <<p, q>> \in Before
  IN  c.participants[first][n]

NamesOf(endpoints, gids, kind) ==
  {endpoints[e].name : e \in {g \in gids \intersect DOMAIN endpoints :
                                endpoints[g].kind = kind}}

WriterNamesByNode(c, n) == NamesOf(c.writers, NodeInfo(c, n).writers, "topic")
ReaderNamesByNode(c, n) == NamesOf(c.readers, NodeInfo(c, n).readers, "topic")

\* get_names_and_types: over every endpoint of the domain, of any node.
AllNames(c, kind) ==
  NamesOf(c.writers, DOMAIN c.writers, kind)
    \union NamesOf(c.readers, DOMAIN c.readers, kind)
=============================================================================
