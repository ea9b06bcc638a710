SPECIFICATION Spec
CHECK_DEADLOCK FALSE
CONSTANTS
  Emails = {e1}
  NoEmail = none
  Brokers = {b1, b2}
  MaxJobs = 2
  Jobs = {j1, j2}
  Bureaus = {b1}
  FreezeChoices = {"todo", "done"}
  MaxChanges = 2
  Drafts = {d1, d2}
  MaxExports = 2
  MaxDeletions = 1
  Purposes = {p1, p2}
  SelfGranted = {p1}
  MaxConsents = 2
  Ids = {i1, i2}
  ByCode = {i1, i2}
  Owned = {i1}
  MaxChallenges = 2
  Findings = {f1, f2}
  NoFinding = none
  BySearch = {f1}
  BySeverity = {f2}
  ByLayer = {f2}
  PlanScopes = {all}
  Scopes = {all, i1}
  AllScopes = all
  Recs = {r1}
  MaxPlans = 2
  AmberLayers = {"deep"}
  MaxRequests = 1
  MaxScans = 2
  MaxVersion = 2
  NoData = none
  SampleReviews = {s1, s2}
  SampleEvents = {v1}
  PlainFields = {"change_type"}
  DateFields = {"date_from"}
  MaxPosted = 2
  Located = {f1}
  MaxSnapshots = 2
INVARIANTS
  TypeOK
  MessageTellsTheMode
  ChecklistShowsServer
  LastDecisionHolds
  OnlyProvenIsVerified
  PlanIsAsMarked
  AmberScanWasConsented
  CardEndedIsEnded
  SettledPageIsCurrent
  ScoreIsOfScope
PROPERTIES
  EndedJobIsShown
  DetailShowsEnd
