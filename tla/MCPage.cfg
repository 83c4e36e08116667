CONSTANTS
  m1 = m1  m2 = m2  m3 = m3  m4 = m4  error = error  warning = warning
  r1 = r1  r2 = r2  all = all  e1 = e1  e2 = e2  e3 = e3
  WaitMs = 2  MaxTime = 6  MaxCalls = 3
  Events = {"a", "b"}  MaxHandlers = 4  MaxDepth = 2
  Rows = {r1, r2}
  Elements = {e1, e2, e3}  MaxIds = 3
  MaxWidgets = 3
  Messages <- MCMessages
  Types <- MCTypes
  Type <- MCType
SPECIFICATION MCSpec
INVARIANTS  AllAreTold SelectsAll  WidgetsAreReady  DataArrives 
PROPERTIES KeepsPromise MessagesGo RunsOnceQuiet RunsForLast
CHECK_DEADLOCK FALSE
