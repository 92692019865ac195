\* Two threads that each make two calls, the first of which builds the Handle.
SPECIFICATION HandleFairSpec
CONSTANTS
  k1 = k1  k2 = k2  k3 = k3  b1 = b1  b2 = b2  x1 = x1  x3 = x3  y3 = y3
  t1 = t1  t2 = t2
  Threads = {t1, t2}
  Keys = {k1, k2, k3}
  Engines = {b1, b2, x1, x3, y3}
  KeyOf <- MCKeyOf
  Catalog <- MCCatalog
  MaxCalls = 2
  None = None
INVARIANTS OneWinner CatalogVisible
PROPERTIES IsEngineRegistry HandleCallsEnd
