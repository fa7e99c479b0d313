\* One session of two fields, one fault, one restart or deletion of the channel.
CONSTANTS
  s1 = s1
  Sessions <- OneSession
  MaxFields = 2
  MaxFaults = 1
  MaxUpsets = 1
  MaxQueue = 2
SPECIFICATION Spec
INVARIANTS
  PanelMirrors
PROPERTIES
  FieldsComplete
  UpdatesEnd
CHECK_DEADLOCK FALSE
