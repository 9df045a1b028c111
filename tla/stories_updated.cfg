SPECIFICATION Spec
CONSTANTS
  t1 = t1
  t2 = t2
  t3 = t3
  b1 = b1
  b2 = b2
  Tab = {t1, t2, t3}
  Browser = {b1, b2}
  BrowserOf <- MCBrowserOf
  Followed = {"updated"}
  MaxId = 1
  MaxRequests = 3
PROPERTIES UpdatedIsStored
