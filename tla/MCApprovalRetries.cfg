SPECIFICATION Spec
CONSTANTS
  None = None
  Tabs = {t1}
  PayOrders = {}
  PurchaseOrders = {q1}
  Short = {}
  Flow <- MCFlow
  MaxClicks = 2
  Environment = {"agreement", "refusal", "transport", "backend", "session", "expiry"}
INVARIANTS AgreedAtPostedNode SameApprovalCountsOnce
PROPERTIES ClosedIsFinal 
