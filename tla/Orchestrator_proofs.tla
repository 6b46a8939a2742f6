------------------------- MODULE Orchestrator_proofs -------------------------
(* Theorems about Orchestrator and their proofs. *)
EXTENDS Orchestrator, TLAPS

-----------------------------------------------------------------------------
(* Type correctness, without the count of the wait group, which comes below  *)

Types ==
  /\ due \in SUBSET Jobs
  /\ active \in [Jobs -> BOOLEAN]
  /\ pass \in SUBSET Jobs
  /\ pc \in [Callers -> {"idle", "called", "check", "claim", "add", "done"}]
  /\ target \in [Callers -> Keys \cup {NoKey}]
  /\ handling \in [Jobs -> Nat]
  /\ ending \in [Jobs -> Nat]

\* Inside Run a caller holds a registered job; a request, one that a route
\* reaches.
Targets ==
  /\ pc[Scheduler] \in {"check", "claim", "add"} => target[Scheduler] \in Jobs
  /\ pc[Scheduler] \in {"idle", "check", "claim", "add"}
  /\ \A q \in Requests :
       pc[q] \in {"called", "check", "claim", "add"} => target[q] \in HttpJobs

\* The runs of j that count: in the handler, or between claim and start.
Claimed(j) == pc[Scheduler] = "add" /\ target[Scheduler] = j

\* The status of a job that no route reaches tells the truth: it is set exactly
\* while its only run is being started or is in the handler.
StatusTells ==
  \A j \in Jobs \ HttpJobs :
    /\ active[j] => \/ Claimed(j) /\ handling[j] = 0
                    \/ ~Claimed(j) /\ handling[j] = 1
    /\ ~active[j] => ~Claimed(j) /\ handling[j] = 0
    /\ pc[Scheduler] = "claim" /\ target[Scheduler] = j => ~active[j]

SingleInv == Types /\ Targets /\ StatusTells

LEMMA SingleInit == Init => SingleInv
<1> SUFFICES ASSUME Init PROVE SingleInv
  OBVIOUS
<1>1. Types
  BY DEF Init, Types
<1>2. \A c \in Callers : pc[c] = "idle"
  BY DEF Init
<1>3. Targets
  BY <1>2 DEF Targets, Callers
<1>4. StatusTells
  BY <1>2 DEF Init, StatusTells, Claimed, Callers
<1> QED
  BY <1>1, <1>3, <1>4 DEF SingleInv

LEMMA SingleNext == SingleInv /\ [Next]_vars => SingleInv'
<1> SUFFICES ASSUME SingleInv, [Next]_vars PROVE SingleInv'
  OBVIOUS
<1> USE CallersAssumption, NamesAssumption DEF SingleInv, Types, Targets, StatusTells, Claimed, Callers, Alive
<1> HttpJobs \subseteq Jobs /\ Jobs \subseteq Keys
  BY DEF HttpJobs, Keys
<1>1. ASSUME NEW c \in Callers, CheckStatus(c) PROVE SingleInv'
  BY <1>1 DEF CheckStatus, Returns, run, process
<1>2. ASSUME NEW c \in Callers, ClaimStatus(c) PROVE SingleInv'
  BY <1>2 DEF ClaimStatus, process
<1>3. ASSUME NEW c \in Callers, StartGoroutine(c) PROVE SingleInv'
  BY <1>3 DEF StartGoroutine, Returns, process
<1>4. ASSUME NEW j \in Jobs, HandlerReturns(j) PROVE SingleInv'
  BY <1>4 DEF HandlerReturns, process
<1>5. ASSUME NEW j \in Jobs, GoroutineEnds(j) PROVE SingleInv'
  BY <1>5 DEF GoroutineEnds
<1>6. CASE NewPass
  BY <1>6 DEF NewPass, run, process
<1>7. ASSUME NEW j \in Jobs, VisitJob(j) PROVE SingleInv'
  BY <1>7 DEF VisitJob, run, process
<1>8. ASSUME NEW q \in Requests, NEW x \in Routes, Post(q, x) PROVE SingleInv'
  <2>1. RouteKey[x] \in Keys /\ (RouteKey[x] \in Jobs => RouteKey[x] \in HttpJobs)
    BY DEF Keys, HttpJobs
  <2> QED
    BY <1>8, <2>1 DEF Post, run, process
<1>9. ASSUME NEW q \in Requests, RouteCheck(q) PROVE SingleInv'
  BY <1>9 DEF RouteCheck, run, process
<1>10. CASE LoopStep
  BY <1>10 DEF LoopStep, LoopStarting, LoopHandling, SetupFails, LoopStarts,
     MessageArrives, FetchEnds, MessageDone, HandlerHangs, ForwardFails, jobs
<1>11. ASSUME NEW j \in Jobs, IntervalPasses(j) PROVE SingleInv'
  BY <1>11 DEF IntervalPasses, run
<1>12. CASE Stop \/ MainStep \/ Exited \/ UNCHANGED vars
  BY <1>12 DEF Stop, MainStep, Wait, Exit, Exited, vars, run, process
<1> QED
  BY <1>1, <1>2, <1>3, <1>4, <1>5, <1>6, <1>7, <1>8, <1>9, <1>10, <1>11, <1>12
  DEF Next, SchedulerLoop, RequestStep, Goroutine, CallerStep

\* A job that no route reaches never runs twice at a time.
THEOREM SingleRunAlways == Spec => []SingleRun
<1>1. SingleInv => SingleRun
  BY DEF SingleInv, StatusTells, SingleRun, Types
<1> QED
  BY <1>1, SingleInit, SingleNext, PTL DEF Spec

-----------------------------------------------------------------------------
(* A job marked as in progress has somebody who will clear the mark *)

LEMMA StuckNext == SingleInv /\ NeverStuck /\ [Next]_vars => NeverStuck'
<1> SUFFICES ASSUME SingleInv, NeverStuck, [Next]_vars PROVE NeverStuck'
  OBVIOUS
<1> USE NamesAssumption DEF SingleInv, Types, Targets, NeverStuck, Alive
<1> HttpJobs \subseteq Jobs
  BY DEF HttpJobs
<1>0. ASSUME NEW c \in Callers, pc[c] \in {"check", "claim", "add"}
      PROVE  target[c] \in Jobs
  BY <1>0 DEF Callers
<1>1. ASSUME NEW c \in Callers, CheckStatus(c) PROVE NeverStuck'
  BY <1>1 DEF CheckStatus, Returns, run, process
<1>2. ASSUME NEW c \in Callers, ClaimStatus(c) PROVE NeverStuck'
  BY <1>0, <1>2 DEF ClaimStatus, process
<1>3. ASSUME NEW c \in Callers, StartGoroutine(c) PROVE NeverStuck'
  BY <1>0, <1>3 DEF StartGoroutine, Returns, process
<1>4. ASSUME NEW j \in Jobs, HandlerReturns(j) PROVE NeverStuck'
  BY <1>4 DEF HandlerReturns, process
<1>5. ASSUME NEW j \in Jobs, GoroutineEnds(j) PROVE NeverStuck'
  BY <1>5 DEF GoroutineEnds
<1>6. CASE NewPass
  BY <1>6 DEF NewPass, run, process
<1>7. ASSUME NEW j \in Jobs, VisitJob(j) PROVE NeverStuck'
  BY <1>7 DEF VisitJob, run, process
<1>8. ASSUME NEW q \in Requests, NEW x \in Routes, Post(q, x) PROVE NeverStuck'
  BY <1>8 DEF Post, run, process
<1>9. ASSUME NEW q \in Requests, RouteCheck(q) PROVE NeverStuck'
  BY <1>9 DEF RouteCheck, run, process
<1>10. CASE LoopStep
  BY <1>10 DEF LoopStep, LoopStarting, LoopHandling, SetupFails, LoopStarts,
     MessageArrives, FetchEnds, MessageDone, HandlerHangs, ForwardFails, jobs
<1>11. ASSUME NEW j \in Jobs, IntervalPasses(j) PROVE NeverStuck'
  BY <1>11 DEF IntervalPasses, run
<1>12. CASE Stop \/ MainStep \/ Exited \/ UNCHANGED vars
  BY <1>12 DEF Stop, MainStep, Wait, Exit, Exited, vars, run, process
<1> HIDE DEF NeverStuck, SingleInv, Types, Targets, Alive
<1> QED
  BY <1>1, <1>2, <1>3, <1>4, <1>5, <1>6, <1>7, <1>8, <1>9, <1>10, <1>11, <1>12
  DEF Next, SchedulerLoop, RequestStep, Goroutine, CallerStep, Callers

\* However many runs of a job overlap, the job is never left marked as in
\* progress with nobody to clear the mark.
THEOREM NeverStuckAlways == Spec => []NeverStuck
<1>1. Init => NeverStuck
  BY DEF Init, NeverStuck
<1> QED
  BY <1>1, SingleInit, SingleNext, StuckNext, PTL DEF Spec

-----------------------------------------------------------------------------
(* The wait group *)

\* Goroutines of a job by its name, none for a name that is not registered.
Running(x) == IF x \in Jobs THEN handling[x] + ending[x] ELSE 0

\* The sum of a function over the six names there are.
SumOver(f) ==
  f["capSvc2Aad"] + f["aad2Aws"] + f["awsMapping"] + f["aws2K8s"]
  + f["capabilityEmailAlias"] + f["assignGroups2AzureEnterpriseApps"]

Counts == [x \in JobNames |-> Running(x)]
Total  == SumOver(Counts)

Rest ==
  /\ ctx \in {"live", "cancelled"}
  /\ main \in {"up", "waiting", "released", "exited"}
  /\ loop \in {"off", "starting", "fetching", "handling", "hung"}
  /\ lateTicks \in 0..MaxLateTicks

\* wg counts every goroutine of every job, once, and the event loop between its
\* Add and its Done.
LoopCount == IF LoopCounts THEN 1 ELSE 0
Counted   == wg = Total + LoopCount

TypeInv == SingleInv /\ Rest /\ Counted

LEMMA CountsNat ==
  /\ Types => Counts \in [JobNames -> Nat]
  /\ Types' => Counts' \in [JobNames -> Nat]
BY DEF Types, Counts, Running

LEMMA SumNat ==
  ASSUME NEW f \in [JobNames -> Nat]
  PROVE  /\ SumOver(f) \in Nat
         /\ SumOver(f) = 0 => \A x \in JobNames : f[x] = 0
<1> DEFINE a == f["capSvc2Aad"]
           b == f["aad2Aws"]
           c == f["awsMapping"]
           d == f["aws2K8s"]
           e == f["capabilityEmailAlias"]
           g == f["assignGroups2AzureEnterpriseApps"]
<1>1. a \in Nat /\ b \in Nat /\ c \in Nat /\ d \in Nat /\ e \in Nat /\ g \in Nat
  BY DEF JobNames
<1>2. SumOver(f) = a + b + c + d + e + g
  BY DEF SumOver
<1>3. ASSUME a = 0, b = 0, c = 0, d = 0, e = 0, g = 0
      PROVE  \A x \in JobNames : f[x] = 0
  BY <1>3 DEF JobNames
<1> HIDE DEF a, b, c, d, e, g
<1>4. a + b + c + d + e + g = 0 =>
        a = 0 /\ b = 0 /\ c = 0 /\ d = 0 /\ e = 0 /\ g = 0
  BY <1>1
<1> QED
  BY <1>1, <1>2, <1>3, <1>4

LEMMA TotalNat ==
  /\ Types => Total \in Nat
  /\ Types' => Total' \in Nat
<1>1. ASSUME Types PROVE Total \in Nat
  BY <1>1, CountsNat, SumNat DEF Total
<1>2. ASSUME Types' PROVE Total' \in Nat
  <2>1. SumOver(Counts') \in Nat
    BY <1>2, CountsNat, SumNat
  <2> QED
    BY <2>1 DEF Total, SumOver
<1> QED
  BY <1>1, <1>2

\* One more, or one less, at one name is one more, or less, in the sum.
LEMMA SumMoves ==
  ASSUME NEW f \in [JobNames -> Nat], NEW g \in [JobNames -> Nat],
         NEW j \in JobNames, NEW m \in Nat, NEW n \in Nat,
         g[j] + m = f[j] + n,
         \A x \in JobNames \ {j} : g[x] = f[x]
  PROVE  SumOver(g) + m = SumOver(f) + n
<1>1. \A x \in JobNames : f[x] \in Nat /\ g[x] \in Nat
  OBVIOUS
<1>2. CASE j = "capSvc2Aad"
  BY <1>1, <1>2, SMTT(40) DEF SumOver, JobNames
<1>3. CASE j = "aad2Aws"
  BY <1>1, <1>3, SMTT(40) DEF SumOver, JobNames
<1>4. CASE j = "awsMapping"
  BY <1>1, <1>4, SMTT(40) DEF SumOver, JobNames
<1>5. CASE j = "aws2K8s"
  <2>1. \A x \in JobNames : x # "aws2K8s" => g[x] = f[x]
    BY <1>5
  <2>2. /\ g["capSvc2Aad"] = f["capSvc2Aad"] /\ g["aad2Aws"] = f["aad2Aws"]
        /\ g["awsMapping"] = f["awsMapping"]
        /\ g["capabilityEmailAlias"] = f["capabilityEmailAlias"]
        /\ g["assignGroups2AzureEnterpriseApps"] = f["assignGroups2AzureEnterpriseApps"]
    BY <2>1 DEF JobNames
  <2>3. g["aws2K8s"] + m = f["aws2K8s"] + n
    BY <1>5
  <2> QED
    BY <1>1, <2>2, <2>3, SMTT(40) DEF SumOver, JobNames
<1>6. CASE j = "capabilityEmailAlias"
  BY <1>1, <1>6, SMTT(40) DEF SumOver, JobNames
<1>7. CASE j = "assignGroups2AzureEnterpriseApps"
  BY <1>1, <1>7, SMTT(40) DEF SumOver, JobNames
<1> QED
  BY <1>2, <1>3, <1>4, <1>5, <1>6, <1>7 DEF JobNames

\* Where the goroutines of jobs are as they were, so is their sum.
LEMMA TotalKept ==
  ASSUME UNCHANGED <<handling, ending>>
  PROVE  Total' = Total
BY DEF Total, SumOver, Counts, Running

LEMMA CountKept ==
  ASSUME Counted, wg' = wg, UNCHANGED <<handling, ending, loop>>
  PROVE  Counted'
BY TotalKept DEF Counted, LoopCount, LoopCounts

\* One more, or one less, of one job is one more, or less, in the sum.
LEMMA TotalMoves ==
  ASSUME Types, Types', NEW j \in Jobs, NEW m \in Nat, NEW n \in Nat,
         Running(j)' + m = Running(j) + n,
         \A x \in Jobs \ {j} : Running(x)' = Running(x)
  PROVE  \E s, t \in Nat : s = Total /\ t = Total' /\ t + m = s + n
<1>1. Counts \in [JobNames -> Nat] /\ Counts' \in [JobNames -> Nat]
  BY CountsNat
<1>2. j \in JobNames
  BY NamesAssumption
<1>3. Counts'[j] + m = Counts[j] + n
  BY <1>2 DEF Counts
<1>4. \A x \in JobNames \ {j} : Counts'[x] = Counts[x]
  BY DEF Counts, Running
<1>5. SumOver(Counts') + m = SumOver(Counts) + n
  BY <1>1, <1>2, <1>3, <1>4, SumMoves
<1>6. SumOver(Counts) \in Nat /\ SumOver(Counts') \in Nat
  BY <1>1, SumNat
<1>7. PICK s \in Nat, t \in Nat : s = SumOver(Counts) /\ t = SumOver(Counts')
  BY <1>6
<1>8. s = Total /\ t = Total'
  BY <1>7 DEF Total, SumOver
<1>9. t + m = s + n
  BY <1>5, <1>7
<1> QED
  BY <1>8, <1>9

LEMMA RestNext == SingleInv /\ Rest /\ [Next]_vars => Rest'
<1> SUFFICES ASSUME SingleInv, Rest, [Next]_vars PROVE Rest'
  OBVIOUS
<1> USE BoundsAssumption DEF Rest
<1>1. ASSUME NEW c \in Callers, CallerStep(c) PROVE Rest'
  BY <1>1 DEF CallerStep, CheckStatus, ClaimStatus, StartGoroutine, run, process
<1>2. ASSUME NEW j \in Jobs, Goroutine(j) PROVE Rest'
  BY <1>2 DEF Goroutine, HandlerReturns, GoroutineEnds, Done, process
<1>3. ASSUME NewPass \/ \E j \in Jobs : VisitJob(j) PROVE Rest'
  BY <1>3 DEF NewPass, VisitJob, run, process
<1>4. ASSUME NEW q \in Requests, NEW x \in Routes, Post(q, x) PROVE Rest'
  BY <1>4 DEF Post, run, process
<1>5. ASSUME NEW q \in Requests, RouteCheck(q) PROVE Rest'
  BY <1>5 DEF RouteCheck, run, process
<1>6. ASSUME NEW j \in Jobs, IntervalPasses(j) PROVE Rest'
  <2>1. lateTicks' \in 0..MaxLateTicks
    <3>1. lateTicks \in 0..MaxLateTicks /\ MaxLateTicks \in Nat
      OBVIOUS
    <3>2. \/ lateTicks' = lateTicks
          \/ lateTicks < MaxLateTicks /\ lateTicks' = lateTicks + 1
      BY <1>6 DEF IntervalPasses
    <3> HIDE DEF Rest
    <3> QED
      BY <3>1, <3>2
  <2> QED
    BY <1>6, <2>1 DEF IntervalPasses, run
<1>7. CASE Stop \/ MainStep \/ Exited \/ UNCHANGED vars
  BY <1>7 DEF Stop, MainStep, Wait, Exit, Exited, vars, run, process
<1>8. CASE LoopStep
  BY <1>8 DEF LoopStep, LoopStarting, LoopHandling, SetupFails, LoopStarts,
     MessageArrives, FetchEnds, MessageDone, HandlerHangs, ForwardFails, Done
<1> HIDE DEF Rest
<1> QED
  BY <1>1, <1>2, <1>3, <1>4, <1>5, <1>6, <1>7, <1>8
  DEF Next, SchedulerLoop, RequestStep, Callers

LEMMA CountedNext == SingleInv /\ Counted /\ [Next]_vars => Counted'
<1> SUFFICES ASSUME SingleInv, Counted, [Next]_vars PROVE Counted'
  OBVIOUS
<1>0. Types /\ Types' /\ Targets
  BY SingleNext DEF SingleInv
<1>1. ASSUME NEW c \in Callers, StartGoroutine(c) PROVE Counted'
  <2>1. PICK j \in Jobs : j = target[c]
    BY <1>0, <1>1 DEF StartGoroutine, Targets, Callers, HttpJobs
  <2>2. Running(j)' + 0 = Running(j) + 1
    BY <1>0, <1>1, <2>1 DEF StartGoroutine, Running, Types
  <2>3. \A x \in Jobs \ {j} : Running(x)' = Running(x)
    BY <1>0, <1>1, <2>1 DEF StartGoroutine, Running, Types
  <2>4. PICK s \in Nat, t \in Nat : s = Total /\ t = Total' /\ t + 0 = s + 1
    BY <1>0, <2>2, <2>3, TotalMoves
  <2>5. wg' = wg + 1 /\ wg = s + LoopCount /\ LoopCount' = LoopCount
    BY <1>1, <2>4 DEF StartGoroutine, Counted, LoopCount, LoopCounts, process
  <2>6. t + 0 = s + 1
    BY <2>4, Zenon
  <2>7. wg' = t + LoopCount
    BY <2>5, <2>6 DEF LoopCount
  <2> QED
    BY <2>4, <2>5, <2>7 DEF Counted
<1>2. ASSUME NEW j \in Jobs, HandlerReturns(j) PROVE Counted'
  <2>1. Running(j)' + 0 = Running(j) + 0
    BY <1>0, <1>2 DEF HandlerReturns, Running, Types
  <2>2. \A x \in Jobs \ {j} : Running(x)' = Running(x)
    BY <1>0, <1>2 DEF HandlerReturns, Running, Types
  <2>3. PICK s \in Nat, t \in Nat : s = Total /\ t = Total' /\ t + 0 = s + 0
    BY <1>0, <2>1, <2>2, TotalMoves
  <2>4. wg' = wg /\ wg = s + LoopCount /\ LoopCount' = LoopCount
    BY <1>2, <2>3 DEF HandlerReturns, Counted, LoopCount, LoopCounts, process
  <2>5. t + 0 = s + 0
    BY <2>3, Zenon
  <2>6. wg' = t + LoopCount
    BY <2>4, <2>5
  <2> QED
    BY <2>3, <2>4, <2>6 DEF Counted
<1>3. ASSUME NEW j \in Jobs, GoroutineEnds(j) PROVE Counted'
  <2>1. Running(j)' + 1 = Running(j) + 0
    BY <1>0, <1>3 DEF GoroutineEnds, Running, Types
  <2>2. \A x \in Jobs \ {j} : Running(x)' = Running(x)
    BY <1>0, <1>3 DEF GoroutineEnds, Running, Types
  <2>3. PICK s \in Nat, t \in Nat : s = Total /\ t = Total' /\ t + 1 = s + 0
    BY <1>0, <2>1, <2>2, TotalMoves
  <2>4. wg' = wg - 1 /\ wg = s + LoopCount /\ LoopCount' = LoopCount
    BY <1>3, <2>3 DEF GoroutineEnds, Done, Counted, LoopCount, LoopCounts
  <2>5. t + 1 = s + 0
    BY <2>3, Zenon
  <2>6. wg' = t + LoopCount
    BY <2>4, <2>5 DEF LoopCount
  <2> QED
    BY <2>3, <2>4, <2>6 DEF Counted
<1>4. ASSUME wg' = wg, UNCHANGED <<handling, ending, loop>> PROVE Counted'
  BY <1>4, CountKept
<1>5. ASSUME NEW c \in Callers, CheckStatus(c) \/ ClaimStatus(c) PROVE Counted'
  BY <1>4, <1>5 DEF CheckStatus, ClaimStatus, run, process
<1>6. ASSUME NewPass \/ \E j \in Jobs : VisitJob(j) PROVE Counted'
  BY <1>4, <1>6 DEF NewPass, VisitJob, run, process
<1>7. ASSUME NEW q \in Requests,
             RouteCheck(q) \/ \E x \in Routes : Post(q, x)
      PROVE  Counted'
  BY <1>4, <1>7 DEF RouteCheck, Post, run, process
<1>8. ASSUME NEW j \in Jobs, IntervalPasses(j) PROVE Counted'
  BY <1>4, <1>8 DEF IntervalPasses, run
<1>9. CASE Stop \/ MainStep \/ Exited \/ UNCHANGED vars
  BY <1>4, <1>9 DEF Stop, MainStep, Wait, Exit, Exited, vars, run, process
<1>10. CASE LoopStep
  <2>0. Total' = Total /\ Total \in Nat
    BY <1>0, <1>10, TotalKept, TotalNat DEF LoopStep, LoopStarting, LoopHandling,
       SetupFails, LoopStarts, MessageArrives, FetchEnds, MessageDone, HandlerHangs,
       ForwardFails, jobs
  <2> USE <2>0 DEF Counted, LoopCount, LoopCounts
  <2>1. CASE LoopStarts
    BY <2>1 DEF LoopStarts
  <2>2. CASE FetchEnds \/ ForwardFails
    BY <2>2 DEF FetchEnds, ForwardFails, Done
  <2>3. CASE SetupFails \/ MessageArrives \/ MessageDone \/ HandlerHangs
    BY <2>3 DEF SetupFails, MessageArrives, MessageDone, HandlerHangs
  <2> QED
    BY <1>10, <2>1, <2>2, <2>3 DEF LoopStep, LoopStarting, LoopHandling
<1> QED
  BY <1>1, <1>2, <1>3, <1>5, <1>6, <1>7, <1>8, <1>9, <1>10
  DEF Next, SchedulerLoop, RequestStep, CallerStep, Goroutine, Callers

LEMMA TypeInvInductive ==
  /\ Init => TypeInv
  /\ TypeInv /\ [Next]_vars => TypeInv'
<1>1. ASSUME Init PROVE TypeInv
  <2>1. SingleInv
    BY <1>1, SingleInit
  <2>2. Rest
    BY <1>1, BoundsAssumption DEF Init, Rest
  <2>3. Counted
    BY <1>1 DEF Init, Counted, Total, SumOver, Counts, Running, JobNames,
       LoopCount, LoopCounts
  <2> QED
    BY <2>1, <2>2, <2>3 DEF TypeInv
<1>2. ASSUME TypeInv, [Next]_vars PROVE TypeInv'
  BY <1>2, SingleNext, RestNext, CountedNext DEF TypeInv
<1> QED
  BY <1>1, <1>2

\* The variables keep their types; the count of the wait group is never below
\* zero, where Done would panic.
THEOREM TypeCorrect == Spec => []TypeOK
<1>1. ASSUME TypeInv PROVE TypeOK
  <2>1. wg \in Nat
    BY <1>1, TotalNat DEF TypeInv, SingleInv, Counted, LoopCount
  <2> QED
    BY <1>1, <2>1 DEF TypeInv, SingleInv, Types, Rest, TypeOK
<1> QED
  BY <1>1, TypeInvInductive, PTL DEF Spec

-----------------------------------------------------------------------------
(* Shutdown *)

\* A sum of zero leaves no goroutine.
LEMMA QuietAtZero ==
  ASSUME Types', Total' = 0
  PROVE  \A j \in Jobs : handling'[j] = 0 /\ ending'[j] = 0
<1>1. Counts' \in [JobNames -> Nat]
  BY CountsNat
<1>2. SumOver(Counts') = 0
  BY DEF Total, SumOver
<1>3. \A x \in JobNames : Counts'[x] = 0
  BY <1>1, <1>2, SumNat
<1>4. \A j \in Jobs : handling'[j] + ending'[j] = 0
  BY <1>3, NamesAssumption DEF Counts, Running
<1> QED
  BY <1>4 DEF Types

\* The main goroutine gets past Wait only when no goroutine of a job is alive and
\* the event loop is not between its Add and its Done (cmd/orchestrator/main.go,
\* event/event.go).
THEOREM ReleasedWhenQuietAlways == Spec => ReleasedWhenQuiet
<1>1. ASSUME TypeInv, TypeInv', [Next]_vars
      PROVE  main # "released" /\ main' = "released" =>
               /\ \A j \in Jobs : handling'[j] = 0 /\ ending'[j] = 0
               /\ ~LoopCounts'
  <2> SUFFICES ASSUME main # "released", main' = "released"
               PROVE  /\ \A j \in Jobs : handling'[j] = 0 /\ ending'[j] = 0
                      /\ ~LoopCounts'
    OBVIOUS
  <2>0. wg \in Nat
    BY <1>1, TotalNat DEF TypeInv, SingleInv, Counted, LoopCount
  <2>1. wg' = 0
    <3>1. ASSUME Done PROVE wg' = 0
      BY <2>0, <3>1 DEF Done
    <3>2. CASE Wait
      BY <3>2 DEF Wait, run
    <3>3. main' = main \/ Wait \/ Exit \/ Done
      BY <1>1 DEF Next, SchedulerLoop, RequestStep, CallerStep, Goroutine, MainStep,
         CheckStatus, ClaimStatus, StartGoroutine, HandlerReturns, GoroutineEnds,
         NewPass, VisitJob, Post, RouteCheck, IntervalPasses, Stop, Exited, LoopStep,
         LoopStarting, LoopHandling, SetupFails, LoopStarts, MessageArrives, FetchEnds,
         MessageDone, HandlerHangs, ForwardFails, vars, process
    <3> QED
      BY <3>1, <3>2, <3>3 DEF Exit
  <2>2. Types' /\ Total' + LoopCount' = 0
    BY <1>1, <2>1 DEF TypeInv, SingleInv, Counted
  <2>3. Total' = 0 /\ LoopCount' = 0
    BY <2>2, TotalNat DEF LoopCount
  <2> QED
    BY <2>2, <2>3, QuietAtZero DEF LoopCount
<1> QED
  BY <1>1, TypeInvInductive, PTL DEF Spec, ReleasedWhenQuiet
=============================================================================
