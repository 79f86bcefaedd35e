SPECIFICATION FairSpec
CONSTANTS
  a = a
  b = b
  Tabs = {a, b}
  SplitTabs = {b}
  LegacyTabs = {}
  PollingTabs = {a, b}
  Kinds = {"single"}
  MaxWrites = 3
  None = None
INVARIANTS OneWinnerPerVersion
PROPERTIES NoStaleWrite NoSilentOverwrite StaleTabWarned
CHECK_DEADLOCK FALSE
