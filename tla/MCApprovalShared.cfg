SPECIFICATION Spec
CONSTANTS
  None = None
  Tabs = {t1, t2}
  PayOrders = {p1, p2}
  PurchaseOrders = {}
  Short = {p2}
  Flow <- MCFlow
  MaxClicks = 1
  Environment = {}
INVARIANT DecisionWasShown
