SPECIFICATION Spec
CONSTANTS
  c1 = c1
  c2 = c2
  Campaigns = {c1, c2}
  Phones = {p1}
  FrameCount <- MCFrameCount
  LastVersion <- MCLastVersion
  OverBudget <- MCOverBudget
INVARIANTS TypeOK ApprovalIsCurrent ApprovedFits RecordedWasTested RecoveredWasApproved HeardIsRecovered
CHECK_DEADLOCK FALSE
