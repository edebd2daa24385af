\* A requester whose callback meets the manager's own earlier sample.
CONSTANTS
  c1 = c1
  q1 = q1
  w1 = w1
  w2 = w2
  r1 = r1
  node1 = node1
  talker = talker
  Clients = {c1}
  Roots = {}
  NodeOf <- MCNodeOf
  Peers = {}
  Enclaved = {c1}
  Writers = {w1, w2}
  Readers = {r1}
  Objects <- OneRequester
  PeerInfos <- MCPeerInfos
  TopicOf <- MCTopicOf
  Before <- MCBefore
  NoOne = NoOne
SPECIFICATION Spec
INVARIANT EntitiesTracked
CHECK_DEADLOCK FALSE
