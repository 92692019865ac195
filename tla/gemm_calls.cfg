\* Two threads that each make two calls, of ftrainGemm or ftrainOpsCreate.
SPECIFICATION FairSpec
CONSTANTS
  kg = kg  ko = ko  bg = bg  bo = bo  t1 = t1  t2 = t2
  Threads = {t1, t2}
  Keys = {kg, ko}
  Engines = {bg, bo}
  KeyOf <- MCKeyOf
  Catalog <- MCCatalog
  GemmKey = kg
  MaxCalls = 2
  None = None
INVARIANTS TypeOK OneSharedOps NothingLeaks DiagnosticKept SuccessMeansWork
PROPERTIES CallsReturn
