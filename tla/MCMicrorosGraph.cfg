\* One participant with a node, a writer and a reader that come and go.
CONSTANTS
  Participants = {p1}
  Before = {}
  Nodes = {n1}
  Writers = {w1}
  Readers = {r1}
  Topics <- MCTopics
  Callers = {xrce, listener}
  Xrce = xrce
  Publisher = publisher
  Failing = {"node_names", "writers", "readers", "servers", "clients"}
  NoThread = NoThread
  NoGraph = NoGraph
SPECIFICATION Spec
INVARIANTS TypeOK NoLostWakeup NoCircularWait FreshAtRest
PROPERTIES MirrorSpec Convergence CallersReturn
