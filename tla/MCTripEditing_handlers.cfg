SPECIFICATION FairSpec
CONSTANTS
  a = a
  b = b
  Tabs = {a, b}
  SplitTabs = {}
  LegacyTabs = {a}
  PollingTabs = {}
  Kinds = {"single", "select", "renumber"}
  MaxWrites = 3
  None = None
PROPERTIES EditsEnd
CHECK_DEADLOCK FALSE
