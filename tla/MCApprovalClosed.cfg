SPECIFICATION Spec
CONSTANTS
  None = None
  Tabs = {t1}
  PayOrders = {p1}
  PurchaseOrders = {q1}
  Short = {}
  Flow <- MCFlow
  MaxClicks = 1
  Environment = {"session"}
INVARIANT ClosedMeansDecided
