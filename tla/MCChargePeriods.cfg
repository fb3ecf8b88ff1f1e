SPECIFICATION Spec
CONSTANTS
  Caller = {c1, c2}
  Requests <- MCRequests
  PanelValues <- MCPanelValues
  None = None
  MaxCalls = 2
  MaxPanel = 1
INVARIANTS
  FillsInWhatWasThere
  ShowsOneWindow
  WritesTimes
SYMMETRY CallersAlike
