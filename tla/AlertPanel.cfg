CONSTANTS
  Polls = {"a", "b"}
  StoreCap = 2
  MaxAlerts = 3
  MaxPageTroubles = 1
SPECIFICATION PanelFairSpec
CHECK_DEADLOCK FALSE
INVARIANTS PanelTypeOK PanelComplete
PROPERTY AlertShown
