SPECIFICATION FairSpec
CONSTANTS
  None = None
  Tabs = {t1, t2}
  PayOrders = {p1, p2}
  PurchaseOrders = {}
  Short = {p1, p2}
  Flow <- MCFlow
  MaxClicks = 1
  Environment = {"agreement", "transport", "session"}
INVARIANT PayBodyCoherent
PROPERTIES ClosedIsFinal ImplementsDecisions DecisionsAreConcluded
