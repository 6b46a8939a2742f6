----------------------------- MODULE Orchestrator -----------------------------
(***************************************************************************)
(* The orchestrator process: the scheduler loop that starts jobs when they *)
(* are due (vendor/go.dfds.cloud/orchestrator/orchestrator.go), the HTTP   *)
(* routes that start them on request, the goroutine of the event loop      *)
(* (internal/event/event.go), which shares the wait group with the jobs,   *)
(* and the shutdown of the process (cmd/orchestrator/main.go).             *)
(*                                                                         *)
(* The scheduler and every request are Callers of Job.Run.  The status of  *)
(* a job is guarded by a mutex for one read or one write at a time, so the *)
(* check of the status and its update are separate steps.                  *)
(***************************************************************************)
EXTENDS Naturals, FiniteSets

CONSTANTS
  Jobs,           \* keys of orc.Jobs
  Scheduled,      \* the Jobs whose schedule is enabled
  Hanging,        \* the Jobs with calls that may hang: none has a deadline
  Routes,         \* POST routes in use
  Requests,       \* HTTP requests
  Scheduler,      \* the goroutine of Orchestrator.Run
  MaxLateTicks,   \* bound: jobs that become due after the shutdown began
  MaxGoroutines   \* bound: goroutines of one job alive at a time

VARIABLES
  due,       \* the jobs that TimeToRun is true of
  active,    \* job -> SyncStatus.active
  pass,      \* jobs the scheduler has yet to visit in this pass
  pc,        \* where each caller is in Job.Run
  target,    \* the key each caller looked up
  handling,  \* job -> goroutines inside the handler
  ending,    \* job -> goroutines past SetStatus(false), before wg.Done
  wg,        \* backgroundJobWg
  ctx,       \* the context of signal.NotifyContext
  main,      \* the main goroutine
  loop,      \* the goroutine of the event loop: not started, or at its end, "off"
  lateTicks

jobs    == <<due, pass, pc, target, active, handling, ending>>
run     == <<active, handling, ending, wg>>
process == <<ctx, main, loop, lateTicks>>
vars    == <<due, pass, pc, target, run, process>>

-----------------------------------------------------------------------------
(* State *)

\* What AddJob registered, and the key each route looks up.
JobNames == {"capSvc2Aad", "aad2Aws", "awsMapping", "aws2K8s",
             "capabilityEmailAlias", "assignGroups2AzureEnterpriseApps"}
RouteNames == {"azure2aws", "awsmapping", "aws2k8s", "capsvc2azure"}
RouteKey == [azure2aws |-> "aadToAws", awsmapping |-> "awsMapping",
             aws2k8s |-> "awsToK8s", capsvc2azure |-> "capSvcToAad"]

ASSUME NamesAssumption ==
  /\ Jobs \subseteq JobNames /\ Scheduled \subseteq Jobs /\ Hanging \subseteq Jobs
  /\ Routes \subseteq RouteNames
ASSUME CallersAssumption == Scheduler \notin Requests /\ IsFiniteSet(Requests)
ASSUME BoundsAssumption == MaxLateTicks \in Nat /\ MaxGoroutines \in Nat \ {0}

Callers  == {Scheduler} \cup Requests
Keys     == JobNames \cup {RouteKey[x] : x \in RouteNames}
HttpJobs == Jobs \cap {RouteKey[x] : x \in Routes}
NoKey    == ""

TypeOK ==
  /\ due \in SUBSET Jobs
  /\ active \in [Jobs -> BOOLEAN]
  /\ pass \in SUBSET Jobs
  /\ pc \in [Callers -> {"idle", "called", "check", "claim", "add", "done"}]
  /\ target \in [Callers -> Keys \cup {NoKey}]
  /\ handling \in [Jobs -> Nat]
  /\ ending \in [Jobs -> Nat]
  /\ wg \in Nat
  /\ ctx \in {"live", "cancelled"}
  /\ main \in {"up", "waiting", "released", "exited"}
  /\ loop \in {"off", "starting", "fetching", "handling", "hung"}
  /\ lateTicks \in 0..MaxLateTicks

\* AddJob sets lastExecuted one interval back: nothing is due for a second.  The
\* configuration enables the event loop or not.
Init ==
  /\ due = {}
  /\ active = [j \in Jobs |-> FALSE]
  /\ pass = {}
  /\ pc = [c \in Callers |-> "idle"]
  /\ target = [c \in Callers |-> NoKey]
  /\ handling = [j \in Jobs |-> 0]
  /\ ending = [j \in Jobs |-> 0]
  /\ wg = 0
  /\ ctx = "live"
  /\ main = "up"
  /\ loop \in {"off", "starting"}
  /\ lateTicks = 0

Alive == main # "exited"

\* wg.Done.  At zero it releases the main goroutine for good, if that waits.
Done ==
  /\ wg' = wg - 1
  /\ main' = IF main = "waiting" /\ wg = 1 THEN "released" ELSE main

-----------------------------------------------------------------------------
(* Job.Run, called by the scheduler or by a request *)

\* Run returns, and forgets the job.
Returns(c) ==
  /\ pc' = [pc EXCEPT ![c] = IF c = Scheduler THEN "idle" ELSE "done"]
  /\ target' = [target EXCEPT ![c] = NoKey]

\* Variant: Run does not look at the status.
CheckNothing(c) ==
  /\ Alive
  /\ pc[c] = "check"
  /\ pc' = [pc EXCEPT ![c] = "claim"]
  /\ UNCHANGED <<due, pass, target, run, process>>

\* InProgress reads the status under the mutex and gives the mutex back.
CheckStatus(c) ==
  /\ Alive
  /\ pc[c] = "check"
  /\ IF active[target[c]]
     THEN Returns(c)
     ELSE pc' = [pc EXCEPT ![c] = "claim"] /\ UNCHANGED target
  /\ UNCHANGED <<due, pass, run, process>>

\* lastExecuted = now and SetStatus(true)
ClaimStatus(c) ==
  /\ Alive
  /\ pc[c] = "claim"
  /\ due' = due \ {target[c]}
  /\ active' = [active EXCEPT ![target[c]] = TRUE]
  /\ pc' = [pc EXCEPT ![c] = "add"]
  /\ UNCHANGED <<pass, target, handling, ending, wg, process>>

\* Variant: wg.Add is left out.
StartUncounted(c) ==
  /\ Alive
  /\ pc[c] = "add"
  /\ handling[target[c]] + ending[target[c]] < MaxGoroutines
  /\ handling' = [handling EXCEPT ![target[c]] = @ + 1]
  /\ Returns(c)
  /\ UNCHANGED <<due, pass, active, ending, wg, process>>

\* wg.Add(1) and the go statement
StartGoroutine(c) ==
  /\ Alive
  /\ pc[c] = "add"
  /\ handling[target[c]] + ending[target[c]] < MaxGoroutines
  /\ wg' = wg + 1
  /\ handling' = [handling EXCEPT ![target[c]] = @ + 1]
  /\ Returns(c)
  /\ UNCHANGED <<due, pass, active, ending, process>>

-----------------------------------------------------------------------------
(* The goroutine of a run *)

\* Variant: an early return of the handler leaves the status set.
ReturnsInProgress(j) ==
  /\ Alive
  /\ handling[j] > 0
  /\ handling' = [handling EXCEPT ![j] = @ - 1]
  /\ ending' = [ending EXCEPT ![j] = @ + 1]
  /\ UNCHANGED <<due, pass, pc, target, active, wg, process>>

\* The handler returns, with or without an error; SetStatus(false).
HandlerReturns(j) ==
  /\ Alive
  /\ handling[j] > 0
  /\ handling' = [handling EXCEPT ![j] = @ - 1]
  /\ ending' = [ending EXCEPT ![j] = @ + 1]
  /\ active' = [active EXCEPT ![j] = FALSE]
  /\ UNCHANGED <<due, pass, pc, target, wg, process>>

\* The deferred wg.Done.
GoroutineEnds(j) ==
  /\ Alive
  /\ ending[j] > 0
  /\ ending' = [ending EXCEPT ![j] = @ - 1]
  /\ Done
  /\ UNCHANGED <<due, pass, pc, target, active, handling, ctx, loop, lateTicks>>

-----------------------------------------------------------------------------
(* The goroutine of the event loop, as far as the process knows it: EventLoop *)
(* has what it does with its messages                                         *)

\* Configurations and dialer: an error returns before wg.Add, and the goroutine of
\* main calls stop.
SetupFails ==
  /\ Alive
  /\ loop = "starting"
  /\ loop' = "off"
  /\ ctx' = "cancelled"
  /\ UNCHANGED <<jobs, wg, main, lateTicks>>

\* wg.Add(1), whatever main is at.
LoopStarts ==
  /\ Alive
  /\ loop = "starting"
  /\ wg' = wg + 1
  /\ loop' = "fetching"
  /\ UNCHANGED <<jobs, ctx, main, lateTicks>>

\* FetchMessage selects at random among a message and a cancelled context.
MessageArrives ==
  /\ Alive
  /\ loop = "fetching"
  /\ loop' = "handling"
  /\ UNCHANGED <<jobs, wg, ctx, main, lateTicks>>

\* A cancelled context or any other error ends the loop, which closes the reader
\* and returns nil.
FetchEnds ==
  /\ Alive
  /\ loop = "fetching"
  /\ loop' = "off"
  /\ Done
  /\ UNCHANGED <<jobs, ctx, lateTicks>>

\* Handled, skipped or forwarded, and committed or not.
MessageDone ==
  /\ Alive
  /\ loop = "handling"
  /\ loop' = "fetching"
  /\ UNCHANGED <<jobs, wg, ctx, main, lateTicks>>

\* A call of the handler never returns.
HandlerHangs ==
  /\ Alive
  /\ loop = "handling"
  /\ loop' = "hung"
  /\ UNCHANGED <<jobs, wg, ctx, main, lateTicks>>

\* Variant: this return goes without the Done.
ForwardFailsUndone ==
  /\ Alive
  /\ loop = "handling"
  /\ loop' = "off"
  /\ ctx' = "cancelled"
  /\ UNCHANGED <<jobs, wg, main, lateTicks>>

\* The DLQ does not take the message: the loop returns the error, and the goroutine
\* of main calls stop.
ForwardFails ==
  /\ Alive
  /\ loop = "handling"
  /\ loop' = "off"
  /\ Done
  /\ ctx' = "cancelled"
  /\ UNCHANGED <<jobs, lateTicks>>

-----------------------------------------------------------------------------
(* The scheduler loop: it never looks at the context *)

\* A new pass over orc.Jobs, in map order, after a second of sleep.
NewPass ==
  /\ Alive
  /\ pc[Scheduler] = "idle"
  /\ pass = {}
  /\ pass' = Jobs
  /\ UNCHANGED <<due, pc, target, run, process>>

\* if job.Schedule.Enabled() && job.Schedule.TimeToRun() { job.Run() }
VisitJob(j) ==
  /\ Alive
  /\ pc[Scheduler] = "idle"
  /\ j \in pass
  /\ pass' = pass \ {j}
  /\ IF j \in Scheduled \cap due
     THEN /\ pc' = [pc EXCEPT ![Scheduler] = "check"]
          /\ target' = [target EXCEPT ![Scheduler] = j]
     ELSE UNCHANGED <<pc, target>>
  /\ UNCHANGED <<due, run, process>>

-----------------------------------------------------------------------------
(* The HTTP routes: runAzure2Aws, runAws2K8s, runAwsMapping, runCapSvc2Azure *)

\* A request arrives and its route looks the job up; it may find none.  The
\* listener closes when main gets past the context; requests that are in stay in.
Post(q, route) ==
  /\ main = "up"
  /\ pc[q] = "idle"
  /\ IF RouteKey[route] \in Jobs
     THEN /\ pc' = [pc EXCEPT ![q] = "called"]
          /\ target' = [target EXCEPT ![q] = RouteKey[route]]
     ELSE /\ pc' = [pc EXCEPT ![q] = "done"]
          /\ UNCHANGED target
  /\ UNCHANGED <<due, pass, run, process>>

\* The route's own look at the status, before Run's.  What the request is answered
\* is left out: after Run, which returns nothing, "job created" in any case.
RouteCheck(q) ==
  /\ Alive
  /\ pc[q] = "called"
  /\ IF active[target[q]]
     THEN /\ pc' = [pc EXCEPT ![q] = "done"]
          /\ target' = [target EXCEPT ![q] = NoKey]
     ELSE /\ pc' = [pc EXCEPT ![q] = "check"]
          /\ UNCHANGED target
  /\ UNCHANGED <<due, pass, run, process>>

-----------------------------------------------------------------------------
(* Time and shutdown *)

\* The interval of a job has passed since lastExecuted.
IntervalPasses(j) ==
  /\ Alive
  /\ j \notin due
  /\ due' = due \cup {j}
  /\ \/ ctx = "live" /\ UNCHANGED lateTicks
     \/ ctx = "cancelled" /\ lateTicks < MaxLateTicks /\ lateTicks' = lateTicks + 1
  /\ UNCHANGED <<pass, pc, target, run, ctx, main, loop>>

\* A signal or GET /mgmt/shutdown cancels the context.
Stop ==
  /\ Alive
  /\ ctx = "live"
  /\ ctx' = "cancelled"
  /\ UNCHANGED <<due, pass, pc, target, run, main, loop, lateTicks>>

\* srv.Shutdown(ctx) returns at once, its context being cancelled already; then
\* main calls Wait.
Wait ==
  /\ main = "up"
  /\ ctx = "cancelled"
  /\ main' = IF wg = 0 THEN "released" ELSE "waiting"
  /\ UNCHANGED <<due, pass, pc, target, run, ctx, loop, lateTicks>>

\* "All background jobs stopped", and the process is gone.
Exit ==
  /\ main = "released"
  /\ main' = "exited"
  /\ UNCHANGED <<due, pass, pc, target, run, ctx, loop, lateTicks>>

Exited == main = "exited" /\ UNCHANGED vars

CallerStep(c) == CheckStatus(c) \/ ClaimStatus(c) \/ StartGoroutine(c)
SchedulerLoop == NewPass \/ (\E j \in Jobs : VisitJob(j)) \/ CallerStep(Scheduler)
RequestStep(q) == RouteCheck(q) \/ CallerStep(q)
Goroutine(j) == HandlerReturns(j) \/ GoroutineEnds(j)
LoopStarting == SetupFails \/ LoopStarts
LoopHandling == MessageDone \/ HandlerHangs \/ ForwardFails
LoopStep == LoopStarting \/ MessageArrives \/ FetchEnds \/ LoopHandling
MainStep == Wait \/ Exit

Next ==
  \/ SchedulerLoop
  \/ \E q \in Requests : RequestStep(q) \/ \E x \in Routes : Post(q, x)
  \/ \E j \in Jobs : Goroutine(j) \/ IntervalPasses(j)
  \/ LoopStep
  \/ Stop
  \/ MainStep
  \/ Exited

Spec == Init /\ [][Next]_vars
\* Every goroutine goes on by itself, and a handler returns at some time, unless
\* a call of it hangs.  A cancelled context, selected at random, is selected
\* before there have been messages without end.
FairSpec ==
  /\ Spec
  /\ WF_vars(SchedulerLoop)
  /\ WF_vars(MainStep)
  /\ WF_vars(LoopStarting) /\ WF_vars(LoopHandling)
  /\ SF_vars(ctx = "cancelled" /\ FetchEnds)
  /\ \A q \in Requests : WF_vars(RequestStep(q))
  /\ \A j \in Jobs \ Hanging : WF_vars(Goroutine(j))
  /\ \A j \in Hanging : WF_vars(GoroutineEnds(j))

-----------------------------------------------------------------------------
(* Properties *)

\* A job that no route reaches never runs twice at a time: one scheduler with
\* the status is enough for that.
SingleRun == \A j \in Jobs \ HttpJobs : handling[j] <= 1

\* No job is marked as in progress with nobody left to clear the mark, however
\* runs overlap: otherwise it would never be started again.
NeverStuck ==
  \A j \in Jobs : active[j] =>
    handling[j] > 0 \/ \E c \in Callers : pc[c] = "add" /\ target[c] = j

\* The event loop between its Add and its Done.
LoopCounts == loop \in {"fetching", "handling", "hung"}

\* At the moment main gets past Wait, no goroutine of a job is alive, and the
\* event loop has no message in hand nor waits for one.
ReleasedWhenQuiet ==
  [][main # "released" /\ main' = "released" =>
       /\ \A j \in Jobs : handling'[j] = 0 /\ ending'[j] = 0
       /\ ~LoopCounts']_vars

Hung(j) == j \in Hanging /\ handling[j] > 0

\* A scheduled job that is due is started, whatever the requests do.  A call
\* that hangs keeps its own job from that, and no other.
DueJobsRun ==
  \A j \in Scheduled : j \in due ~> (j \notin due \/ main = "exited" \/ Hung(j))

\* A cancelled context, also that of a failed event loop, ends the process, if no
\* call of a job or of an event handler hangs.
ShutdownCompletes ==
  ctx = "cancelled" ~> \/ main = "exited"
                       \/ \E j \in Jobs : Hung(j)
                       \/ loop = "hung"

\* "Can't start Job because Job is already in progress.": no job runs twice at
\* a time.
NoOverlap == \A j \in Jobs : handling[j] <= 1
=============================================================================
