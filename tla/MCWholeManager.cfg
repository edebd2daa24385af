\* One client with a datawriter, and a peer without an enclave or nodes.
CONSTANTS
  c1 = c1
  q1 = q1
  w1 = w1
  node1 = node1
  Clients = {c1}
  Roots = {}
  NodeOf <- MCNodeOf
  Peers = {q1}
  Enclaved = {c1}
  Writers = {w1}
  Readers = {}
  Objects <- MCObjects
  PeerInfos = {}
  TopicOf <- MCTopicOf
  Before <- MCBefore
  NoOne = NoOne
  ServerThread = server
  ListenerThread = listener
  ReaderThread = reader
  Publisher = publisher
  Failing = {"servers"}
  NoThread = NoThread
  NoGraph = NoGraph
SPECIFICATION ManagerSpec
INVARIANT GraphPublished
PROPERTIES DomainMirrorSpec GraphArrives
CHECK_DEADLOCK FALSE
