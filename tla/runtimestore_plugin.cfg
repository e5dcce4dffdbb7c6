CONSTANTS
  w1 = w1  w2 = w2  w3 = w3  r1 = r1  n1 = n1  n2 = n2
  Request = {w1, r1}
  Server = {n1}
  ServerOf <- OneServer
  Writers = {w1}
  ReadOnly = {r1}
  Yielding = {}
  Backends = {"sqlite"}
  NoRequest = NoRequest
SPECIFICATION StoreSpec
INVARIANTS PluginGoverns
CHECK_DEADLOCK FALSE
