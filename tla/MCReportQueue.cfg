\* Two readers, two notifiers, cap 2, three reports. No symmetry: the run checks liveness.
CONSTANTS
  r1 = r1
  r2 = r2
  producer = producer
  owner = owner
  NoReader = NoReader
  Readers <- MCReaders
  Notifiers <- MCNotifiers
  MaxQueuedReports = 2
  MaxReport = 3
SPECIFICATION Spec
INVARIANTS TypeOK NoLostWakeup OneWakerPerTask QueueIsNewest LossOnlyAtCapacity
PROPERTIES EveryReadEnds ImplementsStream
