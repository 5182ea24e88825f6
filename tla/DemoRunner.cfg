SPECIFICATION FairSpec
INVARIANTS TypeOK CasesNeedCapabilities LeavesOffline StopsStreaming
PROPERTIES LateDisconnectStops Terminates
CHECK_DEADLOCK FALSE
