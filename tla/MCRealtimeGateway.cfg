SPECIFICATION Spec
CONSTANTS
  Null = Null
  u1 = u1
  u2 = u2
  s1 = s1
  s2 = s2
  Users = {u1, u2}
  Devices = {d1}
  Sockets = {s1, s2}
  UserOf <- MCUserOf
  MaxReadings = 2
  MaxFaults = 1
INVARIANTS
  TypeOK
  SubscribersUpToDate
  RoomsAsAsked
