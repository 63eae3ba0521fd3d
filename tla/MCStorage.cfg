CONSTANTS
  Procs = {p1, p2}
  Paths = {x1, x2}
  Digests = {d1}
  Manifests = {m1}
  None = None
  Torn = Torn
  MaxIntents = 2
SPECIFICATION FairSpec
INVARIANTS
  AcceptedIsCommitted
  TerminalExclusive
  AssignmentFollowsSchedule
PROPERTIES
  RecordsArePermanent
  LockReleased
