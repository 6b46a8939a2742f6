\* Two scheduled jobs, one of which may hang, one request; one of the two routes
\* finds its job.
SPECIFICATION FairSpec
CONSTANTS
  Jobs = {"awsMapping", "capSvc2Aad"}
  Scheduled = {"awsMapping", "capSvc2Aad"}
  Hanging = {"capSvc2Aad"}
  Routes = {"awsmapping", "capsvc2azure"}
  Requests = {q1}
  Scheduler = Scheduler
  MaxGoroutines = 2
  MaxLateTicks = 1
INVARIANTS TypeOK SingleRun NeverStuck
PROPERTIES ReleasedWhenQuiet DueJobsRun ShutdownCompletes
