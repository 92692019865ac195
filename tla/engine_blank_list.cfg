\* An allowlist that is set and blank filters nothing.
SPECIFICATION Spec
CONSTANTS
  d1 = d1  d2 = d2  p1 = p1  p2 = p2  p3 = p3  t1 = t1  t2 = t2
  Threads = {t1}
  Devices = {d1, d2}
  Problems = {p1, p3}
  ProblemKey <- MCProblemKey
  NumRecords = 3
  NumFinders = 2
  Offers <- MCOffers
  Applicable <- MCApplicable
  RawValues <- MCBlankList
  MaxCalls = 1
  Unset = Unset
  Blank = Blank
  Zero = Zero
  NotRead = NotRead
  Absent = Absent
INVARIANTS HonoursEnabledList
