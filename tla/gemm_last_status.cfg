\* A failed ftrainGemm whose status ftrainGetLastStatus does not tell.
SPECIFICATION Spec
CONSTANTS
  kg = kg  ko = ko  bg = bg  bo = bo  t1 = t1  t2 = t2
  Threads = {t1}
  Keys = {kg, ko}
  Engines = {bg, bo}
  KeyOf <- MCKeyOf
  Catalog <- MCCatalog
  GemmKey = kg
  MaxCalls = 1
  None = None
INVARIANTS LastStatusIsTheCalls
