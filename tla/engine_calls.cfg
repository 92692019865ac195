\* Threads that search, publish and look up the same keys, under an environment
\* that changes between their calls.
SPECIFICATION Spec
CONSTANTS
  d1 = d1  d2 = d2  p1 = p1  p2 = p2  p3 = p3  t1 = t1  t2 = t2
  Threads = {t1, t2}
  Devices = {d1, d2}
  Problems = {p1, p2, p3}
  ProblemKey <- MCProblemKey
  NumRecords = 3
  NumFinders = 2
  Offers <- MCOffers
  Applicable <- MCApplicable
  RawValues <- MCRawValues
  MaxCalls = 3
  Unset = Unset
  Blank = Blank
  Zero = Zero
  NotRead = NotRead
  Absent = Absent
CONSTRAINT AloneOrTogether
SYMMETRY ThreadSymmetry
INVARIANTS TypeOK UnsupportedRight CachedSelectionsRight AnswersRight
