CONSTANTS
  c1 = c1
  c2 = c2
  u1 = u1
  Clients = {c1, c2}
  Users = {u1}
  UserOf <- MCUserOf
  MaxPerUser = 1
  QueueSize = 1
  MaxEvents = 3
SPECIFICATION FairSpec
INVARIANTS CountedRight InOrder
PROPERTIES EventsArrive BrokenLeaves
