CONSTANTS
  worker1 = worker1
  worker2 = worker2
  Findings = {"f"}
  Workers = {worker1, worker2}
  Day = 1
  MaxTime = 4
SPECIFICATION Spec
SYMMETRY Interchangeable
INVARIANTS
  TypeOK
  AuditTrailIsTrue
  OnePassOfTheLookbackIsEnough
PROPERTIES
  NoReminderIfDealtWithBefore
  ImplementsContract
