\* A client whose participant is named "/".
CONSTANTS
  c1 = c1
  q1 = q1
  w1 = w1
  w2 = w2
  r1 = r1
  node1 = node1
  talker = talker
  Clients = {c1}
  Roots = {c1}
  NodeOf <- MCNodeOf
  Peers = {}
  Enclaved = {c1}
  Writers = {w1, w2}
  Readers = {r1}
  Objects <- OneDatawriter
  PeerInfos <- MCPeerInfos
  TopicOf <- MCTopicOf
  Before <- MCBefore
  NoOne = NoOne
SPECIFICATION Spec
INVARIANT CallbacksDefined
CHECK_DEADLOCK FALSE
