\* The scheduler and one request start the same job.
SPECIFICATION Spec
CONSTANTS
  Jobs = {"awsMapping"}
  Scheduled = {"awsMapping"}
  Hanging = {}
  Routes = {"awsmapping"}
  Requests = {q1}
  Scheduler = Scheduler
  MaxGoroutines = 2
  MaxLateTicks = 0
INVARIANTS NoOverlap
