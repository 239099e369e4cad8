SPECIFICATION FairSpec
CONSTANTS
  None = None
  Tabs = {t1}
  PayOrders = {p1}
  PurchaseOrders = {q1, q2}
  Short = {q1, q2}
  Flow <- MCFlow
  MaxClicks = 1
  Environment = {"agreement", "expiry"}
INVARIANTS TypeOK DecisionWasShown
PROPERTIES ApprovalTakesEffect PurchaseRefusalTakesEffect ClickIsAnswered
