\* One client with a requester, one peer with a datawriter: also every thread comes
\* to rest.
CONSTANTS
  c1 = c1
  q1 = q1
  w1 = w1
  w2 = w2
  r1 = r1
  node1 = node1
  talker = talker
  Clients = {c1}
  Roots = {}
  NodeOf <- MCNodeOf
  Peers = {q1}
  Enclaved = {c1, q1}
  Writers = {w1, w2}
  Readers = {r1}
  Objects <- ClientAndPeer
  PeerInfos <- MCPeerInfos
  TopicOf <- MCTopicOf
  Before <- MCBefore
  NoOne = NoOne
SPECIFICATION Spec
INVARIANTS TypeOK CallbacksDefined NodeStays NodesAsAnnounced NoGhosts EndpointsExist
PROPERTIES ViewSpec Settles Drains
CHECK_DEADLOCK FALSE
