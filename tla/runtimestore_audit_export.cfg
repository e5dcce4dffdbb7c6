CONSTANTS
  w1 = w1  w2 = w2  w3 = w3  r1 = r1  n1 = n1  n2 = n2
  Request = {w1, r1}
  Server = {n1}
  ServerOf <- OneServer
  Writers = {w1, r1}
  ReadOnly = {r1}
  Yielding = {}
  Backends = {"shared"}
  NoRequest = NoRequest
SPECIFICATION StoreSpec
INVARIANTS AcknowledgedIsDurable
CHECK_DEADLOCK FALSE
