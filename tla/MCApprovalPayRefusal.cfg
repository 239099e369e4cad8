SPECIFICATION FairSpec
CONSTANTS
  None = None
  Tabs = {t1}
  PayOrders = {p1}
  PurchaseOrders = {}
  Short = {}
  Flow <- MCFlow
  MaxClicks = 1
  Environment = {}
PROPERTY PayRefusalTakesEffect
