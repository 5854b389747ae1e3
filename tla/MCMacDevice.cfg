\* A closed handle has nothing left to do: no deadlock check. No symmetry: liveness.
CONSTANTS
  r1 = r1
  r2 = r2
  NoReader = NoReader
  Producer = Producer
  Owner = Owner
  Readers <- MCReaders
  MaxQueuedReports = 1
  MaxReport = 2
SPECIFICATION Spec
CHECK_DEADLOCK FALSE
INVARIANTS TypeOK DropKnowsLoop DisconnectedIsTrue CallbacksStayHome
PROPERTIES ReadsEnd DropEnds
