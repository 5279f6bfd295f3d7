CONSTANTS
  r1 = r1
  r2 = r2
  big = big
  small = small
  web = web
  config = config
  old = old
  None = None
  Head = Head
  Requests = {r1}
  Charts = {big, small}
  Objects = {web, config, old}
  ConfigMaps = {config}
  ObjectsOf <- MCObjectsOf
  HistoryMax = 2
  MaxRevision = 5
  MaxLegacy = 3
  Operations = {"deploy", "rollback", "uninstall", "read"}
  Faults = {}
  Exclusive = TRUE
SPECIFICATION Spec
CHECK_DEADLOCK FALSE
INVARIANTS TypeOK DeployedIsLive
PROPERTIES KeepsHistory NothingForgotten
