SPECIFICATION Spec
CONSTANTS
  phone = phone
  tablet = tablet
  Peers <- MCPeers
  Pressed <- MCPressed
  Late <- MCLate
  Starts <- MCStarts
  Reporting = {phone}
  HasWatch = FALSE
  HasSensitive = TRUE
  RecentLimit = 1
  MaxTransfers = 1
  MaxEvents = 2
  MaxOld = 1
CHECK_DEADLOCK FALSE
INVARIANTS
  WindowsShowState
  SendsWhereChosen
PROPERTIES
  PollIsOfItsTime
  ChoiceIsThePersons
