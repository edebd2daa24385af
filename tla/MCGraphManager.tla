--------------------------- MODULE MCGraphManager ---------------------------
(***************************************************************************)
(* Instances of GraphManager for TLC.                                      *)
(***************************************************************************)
EXTENDS GraphManager

CONSTANTS c1, q1, w1, w2, r1, node1, talker

\* Objects of the client c1: a callback for a requester handles two entities.
Datawriter == [kind |-> "datawriter", owner |-> c1, entities |-> <<w1>>]
Datareader == [kind |-> "datareader", owner |-> c1, entities |-> <<r1>>]
Requester == [kind |-> "requester", owner |-> c1, entities |-> <<w1, r1>>]
\* A datawriter of the peer.
PeerDatawriter == [kind |-> "peer", owner |-> q1, entities |-> <<w2>>]

\* A peer announces that it has no node, or one node with a datawriter.
PeerNode == [n \in {talker} |-> [writers |-> {w2}, readers |-> {}]]
NoNode == [n \in {} |-> {}]
MCPeerInfos == {NoNode, PeerNode}

MCNodeOf == [c \in Clients |-> node1]

\* The entities of the requester have the topics of a service, all others a
\* plain topic.
MCTopicOf ==
  [e \in Entities |->
     CASE e = w1 -> [kind |-> "request", name |-> "add"]
       [] e = r1 -> [kind |-> "reply", name |-> "add"]
       [] OTHER -> [kind |-> "topic", name |-> "chatter"]]

MCBefore == {<<c1, q1>>}

ClientAndPeer == {Requester, PeerDatawriter}
TwoOfOneClient == {Datawriter, Datareader}
OneRequester == {Requester}
OneDatawriter == {Datawriter}
=============================================================================
