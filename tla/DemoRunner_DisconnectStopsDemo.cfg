SPECIFICATION FairSpec
PROPERTY DisconnectStopsDemo
CHECK_DEADLOCK FALSE
