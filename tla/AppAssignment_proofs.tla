------------------------- MODULE AppAssignment_proofs -------------------------
(* Theorems about AppAssignment. *)
EXTENDS AppAssignment, TLAPS

USE RunnersAssumption, AppsAssumption, AppBoundsAssumption

\* What the local state of a runner must be.  That of aad2Aws rests on contexts
\* that exist.
RunOK(r, run) ==
  /\ run \in Run
  /\ run.app \in DOMAIN AppsOf(r)
  /\ run.listing \subseteq DOMAIN name
  /\ run.todo \subseteq run.listing
  /\ run.phase # "assign" => run.todo = {}
  /\ r \in AwsRunners /\ run.phase # "assign" => run.listing = {}
  /\ r \in AwsRunners => /\ run.known \subseteq contexts
                         /\ \A g \in run.todo : name[g] \in run.known

RunsOK == job \in [Runners -> Run] /\ \A r \in Runners : RunOK(r, job[r])

WorldOK ==
  /\ contexts \in SUBSET Capabilities
  /\ name \in Seq(Capabilities) /\ Len(name) <= MaxGroups
  /\ live \in SUBSET DOMAIN name

AssignedOK == assigned \in SUBSET (Apps \X live) /\ ContextsOnly

BoundsOK == faults \in 0..MaxFaults /\ changes \in 0..MaxChanges

\* The inductive invariant.
AssignInv == WorldOK /\ RunsOK /\ AssignedOK /\ BoundsOK

-----------------------------------------------------------------------------

\* Runs and applications have their types.
LEMMA IdleRun ==
  /\ Idle \in Run
  /\ Idle.phase = "idle" /\ Idle.todo = {} /\ Idle.listing = {}
  /\ Idle.known = {} /\ Idle.app = 1
BY DEF Idle, Run, Phase

LEMMA FirstApp == ASSUME NEW r \in Runners PROVE 1 \in DOMAIN AppsOf(r)
BY DEF AppsOf, FileAppSet

\* A runner of aad2Aws serves the application of AWS, and no other runner does.
LEMMA WhichApp ==
  ASSUME RunsOK, NEW r \in Runners
  PROVE  /\ AppOf(r) \in Apps
         /\ AppOf(r) = AwsApp <=> r \in AwsRunners
<1>1. CASE r \in AwsRunners
  BY <1>1 DEF RunsOK, RunOK, AppOf, AppsOf, Apps
<1>2. CASE r \in FileRunners
  <2>1. AppOf(r) \in FileAppSet
    BY <1>2 DEF RunsOK, RunOK, AppOf, AppsOf, FileAppSet
  <2>. QED  BY <1>2, <2>1 DEF Apps
<1>. QED  BY <1>1, <1>2 DEF Runners

-----------------------------------------------------------------------------

\* A step that sets the local state of one runner, and nothing a run rests on.
LEMMA OneRuns ==
  ASSUME RunsOK, UNCHANGED others, NEW r \in Runners, NEW run,
         job' = [job EXCEPT ![r] = run], RunOK(r, run)
  PROVE  RunsOK'
<1>1. job' \in [Runners -> Run] /\ job'[r] = run
  BY DEF RunsOK, RunOK
<1>2. ASSUME NEW q \in Runners PROVE RunOK(q, job'[q])
  BY <1>1, <1>2 DEF RunsOK
<1>3. ASSUME NEW q \in Runners PROVE RunOK(q, job[q])'
  BY <1>2, <1>3 DEF RunOK, others
<1>. QED  BY <1>1, <1>3 DEF RunsOK

LEMMA WorldStays ==
  ASSUME WorldOK, UNCHANGED others PROVE WorldOK'
BY DEF WorldOK, others

LEMMA AssignedStays ==
  ASSUME AssignedOK, UNCHANGED <<others, assigned>> PROVE AssignedOK'
BY DEF AssignedOK, ContextsOnly, others

\* A fault or none.
LEMMA FaultBound ==
  ASSUME BoundsOK, UNCHANGED others, Fault \/ UNCHANGED faults
  PROVE  BoundsOK'
BY DEF BoundsOK, Fault, others

LEMMA IdleOK == ASSUME NEW r \in Runners PROVE RunOK(r, Idle)
BY IdleRun, FirstApp DEF RunOK

LEMMA InitInv == Init => AssignInv
<1>. SUFFICES ASSUME Init PROVE AssignInv
  OBVIOUS
<1>1. WorldOK
  BY DEF Init, WorldOK
<1>2. RunsOK
  BY IdleRun, IdleOK DEF Init, RunsOK
<1>3. AssignedOK
  BY DEF Init, AssignedOK, ContextsOnly
<1>4. BoundsOK
  BY DEF Init, BoundsOK
<1>. QED  BY <1>1, <1>2, <1>3, <1>4 DEF AssignInv

-----------------------------------------------------------------------------

\* The groups to assign: those of the names to serve.
LEMMA LackingOK ==
  ASSUME NEW known, NEW seen, NEW ids
  PROVE  /\ Lacking(known, seen, ids) \subseteq ids
         /\ \A g \in Lacking(known, seen, ids) : name[g] \in known
BY DEF Lacking

LEMMA ListedFault ==
  ASSUME NEW S, NEW all, Listed(S, all) PROVE Fault \/ UNCHANGED faults
BY DEF Listed

\* The fields of the local state of a runner.
LEMMA Fields ==
  ASSUME RunsOK, WorldOK, NEW r \in Runners
  PROVE  /\ RunOK(r, job[r]) /\ job[r] \in Run
         /\ job[r].app \in DOMAIN AppsOf(r) /\ job[r].app \in Nat
         /\ DOMAIN name \subseteq GroupIds
         /\ \A g \in DOMAIN name : name[g] \in Capabilities
         /\ live \subseteq DOMAIN name
         /\ job[r].listing \subseteq DOMAIN name
         /\ job[r].known \subseteq Capabilities
BY DEF RunsOK, RunOK, Run, WorldOK, GroupIds

\* A run that sets the fields it does, and no others.
LEMMA CapabilitiesRead ==
  ASSUME AssignInv, NEW r \in Runners, GetCapabilities(r) PROVE RunsOK'
<1>. DEFINE x == [job[r] EXCEPT !.phase = "assignments", !.known = contexts]
<1>1. job' = [job EXCEPT ![r] = x]
  BY DEF GetCapabilities, AssignInv, RunsOK
<1>2. RunOK(r, x)
  BY Fields DEF AssignInv, RunOK, Run, Phase, WorldOK, GetCapabilities
<1>. QED  BY <1>1, <1>2, OneRuns DEF AssignInv, GetCapabilities

LEMMA AssignmentsRead ==
  ASSUME AssignInv, NEW r \in Runners, GetAssignments(r) PROVE RunsOK'
<1>1. PICK S \in SUBSET {g \in live : <<AppOf(r), g>> \in assigned} :
        job' = [job EXCEPT
                  ![r].seen = {name[g] : g \in S},
                  ![r].phase = IF r \in AwsRunners THEN "groups" ELSE "assign",
                  ![r].todo = Lacking(job[r].known, {name[g] : g \in S},
                                      job[r].listing)]
  BY DEF GetAssignments
<1>. DEFINE names == {name[g] : g \in S}
            todo  == Lacking(job[r].known, names, job[r].listing)
            x == [job[r] EXCEPT
                    !.seen = names,
                    !.phase = IF r \in AwsRunners THEN "groups" ELSE "assign",
                    !.todo = todo]
<1>2. job' = [job EXCEPT ![r] = x]
  BY <1>1 DEF AssignInv, RunsOK
<1>3. names \in SUBSET Capabilities
  BY Fields DEF AssignInv, WorldOK
<1>4. todo \subseteq job[r].listing
      /\ \A g \in todo : name[g] \in job[r].known
  BY LackingOK
<1>5. x.phase # "assign" => x.todo = {} /\ x.listing = {}
  BY <1>4, Fields DEF AssignInv, RunOK, Run, GetAssignments
<1>6. x.phase = "assign" => r \notin AwsRunners
  BY Fields DEF AssignInv, Run
<1>7. x \in Run /\ x.app = job[r].app /\ x.listing = job[r].listing
      /\ x.todo = todo /\ x.known = job[r].known
  BY <1>3, <1>4, Fields DEF AssignInv, Run, Phase
<1>8. RunOK(r, x)
  BY <1>4, <1>5, <1>6, <1>7, Fields DEF AssignInv, RunOK
<1>. QED  BY <1>2, <1>8, OneRuns DEF AssignInv, GetAssignments

LEMMA GroupsRead ==
  ASSUME AssignInv, NEW r \in Runners, GetGroups(r) PROVE RunsOK'
<1>1. PICK ids \in SUBSET live :
        job' = [job EXCEPT ![r] =
                  IF r \in AwsRunners
                  THEN [job[r] EXCEPT
                          !.phase = "assign", !.listing = ids,
                          !.todo = Lacking(job[r].known, job[r].seen, ids)]
                  ELSE [job[r] EXCEPT
                          !.phase = "assignments", !.listing = ids,
                          !.known = Capabilities]]
  BY Fields DEF GetGroups, AssignInv, RunsOK
<1>2. ids \subseteq DOMAIN name /\ ids \subseteq GroupIds
  BY Fields DEF AssignInv
<1>3. CASE r \in AwsRunners
  <2>. DEFINE todo == Lacking(job[r].known, job[r].seen, ids)
              x    == [job[r] EXCEPT !.phase = "assign", !.listing = ids,
                                     !.todo = todo]
  <2>1. todo \subseteq ids /\ \A g \in todo : name[g] \in job[r].known
    BY LackingOK
  <2>2. x \in Run /\ x.phase = "assign" /\ x.app = job[r].app
        /\ x.listing = ids /\ x.todo = todo /\ x.known = job[r].known
    BY <1>2, <2>1, Fields DEF AssignInv, Run, Phase
  <2>3. RunOK(r, x)
    BY <1>2, <2>1, <2>2, Fields DEF AssignInv, RunOK
  <2>. QED  BY <1>1, <1>3, <2>3, OneRuns DEF AssignInv, GetGroups
<1>4. CASE r \notin AwsRunners
  <2>. DEFINE x == [job[r] EXCEPT !.phase = "assignments", !.listing = ids,
                                  !.known = Capabilities]
  <2>1. x \in Run /\ x.phase = "assignments" /\ x.app = job[r].app
        /\ x.listing = ids /\ x.todo = job[r].todo
    BY <1>2, Fields DEF AssignInv, Run, Phase
  <2>2. job[r].todo = {}
    BY <1>4, Fields DEF GetGroups, AssignInv, RunOK
  <2>3. RunOK(r, x)
    BY <1>2, <1>4, <2>1, <2>2, Fields DEF AssignInv, RunOK
  <2>. QED  BY <1>1, <1>4, <2>3, OneRuns DEF AssignInv, GetGroups
<1>. QED  BY <1>3, <1>4

LEMMA NextAppTaken ==
  ASSUME AssignInv, NEW r \in Runners, NextApp(r) PROVE RunsOK'
<1>. DEFINE x == [job[r] EXCEPT !.phase = "assignments", !.app = @ + 1,
                                !.seen = {}]
<1>1. job' = [job EXCEPT ![r] = x]
  BY DEF NextApp, AssignInv, RunsOK
<1>2. r \notin AwsRunners /\ x.app \in DOMAIN AppsOf(r)
  BY Fields DEF NextApp, AssignInv, AppsOf, Run
<1>3. job[r] \in Run /\ job[r].app + 1 \in Nat /\ job[r].todo = {}
  BY Fields DEF NextApp, AssignInv
<1>4. x \in Run /\ x.phase = "assignments" /\ x.listing = job[r].listing
      /\ x.todo = {}
  BY <1>3 DEF Run, Phase
<1>5. RunOK(r, x)
  BY <1>2, <1>4, Fields DEF AssignInv, RunOK
<1>. QED  BY <1>1, <1>5, OneRuns DEF AssignInv, NextApp

\* A run that ends, however it ends.
LEMMA Returned ==
  ASSUME AssignInv, NEW r \in Runners, Return(r), UNCHANGED others
  PROVE  RunsOK'
BY IdleOK, OneRuns DEF AssignInv, Return

\* A new assignment: aad2Aws has seen a context of the capability.
LEMMA GroupAssigned ==
  ASSUME AssignInv, NEW r \in Runners, NEW g \in job[r].todo, g \in live,
         UNCHANGED others, assigned' = assigned \cup {<<AppOf(r), g>>}
  PROVE  AssignedOK'
<1>1. AppOf(r) \in Apps /\ (AppOf(r) = AwsApp <=> r \in AwsRunners)
  BY WhichApp DEF AssignInv
<1>2. r \in AwsRunners => name[g] \in contexts
  BY Fields DEF AssignInv, RunOK
<1>. QED  BY <1>1, <1>2 DEF AssignInv, AssignedOK, ContextsOnly, others

LEMMA AssignGroupInv ==
  ASSUME AssignInv, NEW r \in Runners, NEW g \in job[r].todo, AssignGroup(r, g)
  PROVE  AssignInv'
<1>. DEFINE x == [job[r] EXCEPT !.todo = @ \ {g}]
<1>1. UNCHANGED others /\ (Fault \/ UNCHANGED faults)
  BY DEF AssignGroup
<1>2. \/ job' = [job EXCEPT ![r].todo = @ \ {g}]
      \/ Return(r)
  BY DEF AssignGroup
<1>3. RunsOK'
  <2>1. ASSUME job' = [job EXCEPT ![r].todo = @ \ {g}] PROVE RunsOK'
    <3>1. job' = [job EXCEPT ![r] = x]
      BY <2>1 DEF AssignInv, RunsOK
    <3>2. x \in Run /\ x.phase = job[r].phase /\ x.app = job[r].app
          /\ x.listing = job[r].listing /\ x.known = job[r].known
          /\ x.todo \subseteq job[r].todo
      BY Fields DEF AssignInv, Run
    <3>3. RunOK(r, x)
      BY <3>2, Fields DEF AssignInv, RunOK
    <3>. QED  BY <1>1, <3>1, <3>3, OneRuns DEF AssignInv
  <2>. QED  BY <1>1, <1>2, <2>1, Returned
<1>4. AssignedOK'
  <2>1. CASE assigned' = assigned
    BY <1>1, <2>1, AssignedStays DEF AssignInv
  <2>2. CASE g \in live /\ assigned' = assigned \cup {<<AppOf(r), g>>}
    BY <1>1, <2>2, GroupAssigned
  <2>. QED  BY <2>1, <2>2 DEF AssignGroup
<1>. QED  BY <1>1, <1>3, <1>4, WorldStays, FaultBound DEF AssignInv

-----------------------------------------------------------------------------

\* Groups and contexts only come, as far as a run is concerned: a group that
\* goes keeps its name.
LEMMA NamesKept ==
  ASSUME RunsOK, UNCHANGED job,
         contexts \subseteq contexts', DOMAIN name \subseteq DOMAIN name',
         \A g \in DOMAIN name : name'[g] = name[g]
  PROVE  RunsOK'
<1>1. ASSUME NEW r \in Runners PROVE RunOK(r, job[r])'
  <2>1. RunOK(r, job[r])
    BY DEF RunsOK
  <2>2. \A g \in job[r].todo : name'[g] = name[g]
    BY <2>1 DEF RunOK
  <2>. QED  BY <2>1, <2>2 DEF RunOK
<1>. QED  BY <1>1 DEF RunsOK

LEMMA ContextAddedInv == AssignInv /\ ContextAdded => AssignInv'
<1>. SUFFICES ASSUME AssignInv, ContextAdded PROVE AssignInv'
  OBVIOUS
<1>1. WorldOK' /\ BoundsOK'
  BY DEF AssignInv, WorldOK, BoundsOK, ContextAdded, Change
<1>2. RunsOK'
  BY NamesKept DEF AssignInv, ContextAdded
<1>3. AssignedOK'
  BY DEF AssignInv, AssignedOK, ContextsOnly, ContextAdded
<1>. QED  BY <1>1, <1>2, <1>3 DEF AssignInv

LEMMA GroupCreatedInv == AssignInv /\ GroupCreated => AssignInv'
<1>. SUFFICES ASSUME AssignInv, GroupCreated PROVE AssignInv'
  OBVIOUS
<1>1. PICK c \in Capabilities : name' = Append(name, c)
  BY DEF GroupCreated
<1>2. /\ name' \in Seq(Capabilities) /\ Len(name') = Len(name) + 1
      /\ DOMAIN name = 1..Len(name) /\ DOMAIN name' = 1..(Len(name) + 1)
      /\ \A g \in DOMAIN name : name'[g] = name[g]
  BY <1>1 DEF AssignInv, WorldOK
<1>3. WorldOK' /\ BoundsOK'
  BY <1>2 DEF AssignInv, WorldOK, BoundsOK, GroupCreated, Change
<1>4. RunsOK'
  BY <1>2, NamesKept DEF AssignInv, WorldOK, GroupCreated
<1>5. AssignedOK'
  <2>1. \A p \in assigned : p[2] \in live
    BY DEF AssignInv, AssignedOK
  <2>2. \A g \in live : name'[g] = name[g]
    BY <1>2 DEF AssignInv, WorldOK
  <2>3. ASSUME NEW g \in live', <<AwsApp, g>> \in assigned'
        PROVE  name'[g] \in contexts'
    BY <2>1, <2>2, <2>3 DEF AssignInv, AssignedOK, ContextsOnly, GroupCreated
  <2>. QED  BY <2>3 DEF AssignInv, AssignedOK, ContextsOnly, GroupCreated
<1>. QED  BY <1>3, <1>4, <1>5 DEF AssignInv

LEMMA GroupDeletedInv == AssignInv /\ GroupDeleted => AssignInv'
<1>. SUFFICES ASSUME AssignInv, GroupDeleted PROVE AssignInv'
  OBVIOUS
<1>1. WorldOK' /\ BoundsOK'
  BY DEF AssignInv, WorldOK, BoundsOK, GroupDeleted, Change
<1>2. RunsOK'
  BY NamesKept DEF AssignInv, GroupDeleted
<1>3. AssignedOK'
  BY DEF AssignInv, AssignedOK, ContextsOnly, GroupDeleted
<1>. QED  BY <1>1, <1>2, <1>3 DEF AssignInv

\* A step that assigns nothing, and leaves the rest of the world alone.
LEMMA ReadingInv ==
  ASSUME AssignInv, RunsOK', UNCHANGED <<others, assigned>>,
         Fault \/ UNCHANGED faults
  PROVE  AssignInv'
BY WorldStays, AssignedStays, FaultBound DEF AssignInv

LEMMA NextInv == AssignInv /\ [Next]_vars => AssignInv'
<1>. SUFFICES ASSUME AssignInv, [Next]_vars PROVE AssignInv'
  OBVIOUS
<1>1. ASSUME NEW r \in Runners, GetCapabilities(r) PROVE AssignInv'
  BY <1>1, CapabilitiesRead, ReadingInv DEF GetCapabilities
<1>2. ASSUME NEW r \in Runners, GetAssignments(r) PROVE AssignInv'
  BY <1>2, AssignmentsRead, ReadingInv, ListedFault DEF GetAssignments
<1>3. ASSUME NEW r \in Runners, GetGroups(r) PROVE AssignInv'
  BY <1>3, GroupsRead, ReadingInv, ListedFault DEF GetGroups
<1>4. ASSUME NEW r \in Runners, NEW g \in job[r].todo, AssignGroup(r, g)
      PROVE  AssignInv'
  BY <1>4, AssignGroupInv
<1>5. ASSUME NEW r \in Runners, NextApp(r) PROVE AssignInv'
  BY <1>5, NextAppTaken, ReadingInv DEF NextApp
<1>6. ASSUME NEW r \in Runners, Finish(r) PROVE AssignInv'
  BY <1>6, Returned, ReadingInv DEF Finish
<1>7. ASSUME NEW r \in Runners, Killed(r) PROVE AssignInv'
  BY <1>7, Returned, ReadingInv DEF Killed
<1>8. CASE UNCHANGED vars
  <2>1. RunsOK'
    BY <1>8, NamesKept DEF AssignInv, vars, others
  <2>. QED  BY <1>8, <2>1, ReadingInv DEF vars
<1>. QED
  BY <1>1, <1>2, <1>3, <1>4, <1>5, <1>6, <1>7, <1>8,
     ContextAddedInv, GroupCreatedInv, GroupDeletedInv DEF Next, Step

\* The invariant holds always.
THEOREM AssignInvAlways == Spec => []AssignInv
BY InitInv, NextInv, PTL DEF Spec

\* The variables keep their types, in particular the place in the list of
\* applications and the groups still to assign (azure2aws.go:68-91).
THEOREM TypeCorrect == Spec => []TypeOK
<1>1. AssignInv => TypeOK
  BY DEF AssignInv, WorldOK, RunsOK, RunOK, AssignedOK, BoundsOK, TypeOK
<1>. QED  BY <1>1, AssignInvAlways, PTL

\* Only groups of capabilities with a context are assigned to the application
\* of AWS (azure2aws.go:76-79), for any number of runs of both jobs.
THEOREM ContextsOnlyAlways == Spec => []ContextsOnly
<1>1. AssignInv => ContextsOnly
  BY DEF AssignInv, AssignedOK
<1>. QED  BY <1>1, AssignInvAlways, PTL
=============================================================================
