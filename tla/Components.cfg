SPECIFICATION Spec
CONSTANTS
  NULL = NULL
  f1 = f1  f2 = f2  i1 = i1  m1 = m1  m2 = m2  m3 = m3
  n1 = n1  n2 = n2  p1 = p1  q1 = q1  q2 = q2  r1 = r1
  r2 = r2  r3 = r3  s1 = s1  s2 = s2  t1 = t1  t2 = t2
  t3 = t3  w1 = w1  w2 = w2
  KeyedRequests = {r1, r2, r3}
  RequestContent <- MCContent
  Slots = {1, 2, 4}
  Interval = 0
  CatchUpMax = 2
  Workers = {w1, w2}
  Admins = {p1}
  ScheduleMaxTime = 3
  MaxPatches = 2
  Requests = {q1, q2}
  AlertAttempts = 2
  StaleAfter = 0
  AlertMaxTime = 2
  AlertMaxEdits = 2
  AlertMaxFaults = 1
  AlertMaxStalls = 1
  DueAttempts = 1
  DueLead = 1
  DueMaxTime = 2
  MaxRows = 2
  DueMaxUpsets = 1
  PurgeAttempts = 2
  MaxResets = 1
  MaxMoves = 1
  TenantMaxFaults = 2
  MaxRuns = 2
  SandboxMaxFaults = 3
  FileIds = {f1, f2}
  Infected = {f2}
  Quota = 1
  ScanAttempts = 1
  FileMaxFaults = 2
  Names = {n1, n2}
  StateIds = {s1, s2}
  Transitions = {t1}
  Instances = {i1}
  Renamers = {q1}
  Tickets = {t1, t2, t3}
  Old = {t1, t2}
  MaxDepth = 2
  Cap = 1
  MaxBatches = 1
  FamilyMaxEdits = 2
  Teams <- MCTeams
  FirstTeam <- MCFirstTeam
  OnCallLead = 1
  MinCycle = 1
  MaxCycle = 2
  MaxSteps = 2
  OnCallMaxTime = 2
  OnCallMaxEdits = 2
  NoticeAttempts = 2
  MaxEvents = 3
  NoticeMaxFaults = 4
  NoticeMaxStalls = 1
INVARIANTS
  TypeOK
  OneProtectedRun
  ReplaysAreTrue
  OneTicketUnlessStale
  DueSlotsAreHandled
  ActiveRulesFire
  NotifiesOnce
  PendingIsScheduled
  OneEventPerSetting
  DueDateIsCovered
  PurgeIsComplete
  DeletedIsQueued
  OutcomeIsAsReported
  FilesAreAccounted
  CleanIsServable
  FamilyLimits
  StoppedIsFree
  NotifiedIsDelivered
  FailureIsReported
PROPERTIES
  TenantOutlivesOrg
  
  RosterGoesOn
CHECK_DEADLOCK FALSE
