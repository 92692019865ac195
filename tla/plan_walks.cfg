\* Two threads that move between two devices and share a Plan.
SPECIFICATION Spec
CONSTANTS
  d1 = d1  d2 = d2  plain = plain  small = small  large = large
  Threads = {t1, t2}
  Devices = {d1, d2}
  Primitives = {plain, small, large}
  ApplicableOn <- MCApplicableOn
  Required <- MCRequired
  Workspaces <- MCWorkspaces
  MaxPlans = 2
  MaxQueued = 2
  None = None
INVARIANTS WorkSuitsDevice
PROPERTIES WalkFindsTheFirst
