SPECIFICATION Spec
CONSTANTS
  t1 = t1
  t2 = t2
  c1 = c1
  c2 = c2
  Tabs <- TwoTabs
  Calls <- TwoCalls
  Makes <- BusyAndQuiet
  Refreshes = {r1, r2}
  MaxTokens = 2
  MaxExcuses = 2
  None = None
CHECK_DEADLOCK FALSE
INVARIANT TypeOK
 
INVARIANT JarUnbroken
PROPERTY CallsEnd
