CONSTANTS
  d1 = d1
  d2 = d2
  c1 = c1
  c2 = c2
  Domains = {d1, d2}
  Clients = {c1, c2}
  DomainOf <- MCDomainOf
CHECK_DEADLOCK FALSE
SPECIFICATION Spec
INVARIANTS
  TypeOK
  Routed
  OnlyEarlyClients
  PeersNoticed
PROPERTIES
  ManagersKept
  ClientsServed
