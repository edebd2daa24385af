\* The arrays of a round that a vanished node cuts short.
CONSTANTS
  Participants = {p1}
  Before = {}
  Nodes = {n1}
  Writers = {w1}
  Readers = {}
  Topics <- MCTopics
  Callers = {xrce, listener}
  Xrce = xrce
  Publisher = publisher
  Failing = {}
  NoThread = NoThread
  NoGraph = NoGraph
SPECIFICATION Spec
INVARIANT RoundFreesItsArrays
