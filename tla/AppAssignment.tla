---------------------------- MODULE AppAssignment -----------------------------
(***************************************************************************)
(* The jobs aad2Aws and assignGroups2AzureEnterpriseApps, which assign the *)
(* groups of capabilities to enterprise applications of Azure AD           *)
(* (azure2aws.go and assign_groups_to_azure_enterprise_apps.go in          *)
(* internal/handler, and the Graph calls they make).                       *)
(*                                                                         *)
(* aad2Aws serves the application of AWS, and only capabilities that have  *)
(* an AWS context; it reads the assignments before the groups.  The other  *)
(* job serves the applications of a file, one after the other, and all     *)
(* groups; it reads the groups once, and the assignments per application.  *)
(* Groups come and go meanwhile: CapSvc2Aad creates and deletes them.      *)
(***************************************************************************)
EXTENDS Naturals, Sequences, FiniteSets

CONSTANTS
  AwsRunners,       \* processes in which aad2Aws runs
  FileRunners,      \* processes in which the other job runs
  Capabilities,     \* root ids
  AwsApp,           \* the application of AWS
  FileApps,         \* the applications of the file, in its order
  MaxGroups,        \* bound: groups that are ever created
  MaxFaults,        \* bound: failed calls
  MaxChanges        \* bound: changes by others

Runners    == AwsRunners \cup FileRunners
FileAppSet == {FileApps[i] : i \in DOMAIN FileApps}

ASSUME RunnersAssumption == AwsRunners \cap FileRunners = {}
ASSUME AppsAssumption ==
  /\ FileApps \in Seq(FileAppSet)
  /\ FileApps # << >>
  /\ AwsApp \notin FileAppSet
ASSUME AppBoundsAssumption ==
  MaxGroups \in Nat /\ MaxFaults \in Nat /\ MaxChanges \in Nat

VARIABLES
  contexts,   \* the capabilities that have a context
  name,       \* display name, as its root id, of every group ever created
  live,       \* the groups that exist
  assigned,   \* application and group: the assignments
  job,        \* local state of every runner
  faults, changes

others == <<contexts, name, live, changes>>
vars   == <<others, assigned, job, faults>>

-----------------------------------------------------------------------------
(* State *)

Apps     == {AwsApp} \cup FileAppSet
GroupIds == 1..MaxGroups

Phase == {"idle", "assignments", "groups", "assign"}

Run ==
  [phase   : Phase,
   known   : SUBSET Capabilities,   \* the capabilities to serve
   seen    : SUBSET Capabilities,   \* appAssignments: names assigned already
   listing : SUBSET GroupIds,       \* groups
   app     : Nat,                   \* place of the application in AppsOf
   todo    : SUBSET GroupIds]       \* listed groups that are still to assign

Idle == [phase |-> "idle", known |-> {}, seen |-> {}, listing |-> {},
         app |-> 1, todo |-> {}]

AppsOf(r) == IF r \in AwsRunners THEN <<AwsApp>> ELSE FileApps
AppOf(r)  == AppsOf(r)[job[r].app]

\* The type invariant.
TypeOK ==
  /\ contexts \in SUBSET Capabilities
  /\ name \in Seq(Capabilities) /\ Len(name) <= MaxGroups
  /\ live \in SUBSET DOMAIN name
  /\ assigned \in SUBSET (Apps \X live)
  /\ job \in [Runners -> Run]
  /\ \A r \in Runners : /\ job[r].app \in DOMAIN AppsOf(r)
                        /\ job[r].listing \subseteq DOMAIN name
                        /\ job[r].todo \subseteq job[r].listing
                        /\ job[r].phase # "assign" => job[r].todo = {}
  /\ faults \in 0..MaxFaults
  /\ changes \in 0..MaxChanges

\* The assignments that exist at the start were made by these jobs.
Init ==
  /\ contexts \in SUBSET Capabilities
  /\ \E n \in 0..MaxGroups : name \in [1..n -> Capabilities]
  /\ live = DOMAIN name
  /\ assigned \in SUBSET {p \in Apps \X live :
                            p[1] = AwsApp => name[p[2]] \in contexts}
  /\ job = [r \in Runners |-> Idle]
  /\ faults = 0
  /\ changes = 0

-----------------------------------------------------------------------------
(* The handlers, one remote call at a time *)

Fault == faults < MaxFaults /\ faults' = faults + 1

\* Variant: the run goes on behind an error.
ReturnToLoop(r) == job' = [job EXCEPT ![r].phase = "assignments"]

Return(r) == job' = [job EXCEPT ![r] = Idle]

\* GetAssignmentsForApplication and GetGroups look at no status: an error page
\* ends a listing as if it were complete.
Listed(S, all) ==
  \/ S = all /\ UNCHANGED faults
  \/ S \in SUBSET all \ {all} /\ Fault

\* Variant: ContainsGroup is not asked.
LackingUnchecked(known, seen, ids) == {g \in ids : name[g] \in known}

\* Variant: a capability without a context is served, too.
LackingAll(known, seen, ids) == {g \in ids : name[g] \notin seen}

\* The iterations of the loop that make a call.  ContainsGroup compares names:
\* of two groups with one name none is assigned any more once one is.
Lacking(known, seen, ids) == {g \in ids : name[g] \in known \ seen}

\* aad2Aws begins.  Capabilities without a context are left out.
GetCapabilities(r) ==
  /\ r \in AwsRunners
  /\ job[r].phase = "idle"
  /\ job' = [job EXCEPT ![r].phase = "assignments", ![r].known = contexts]
  /\ UNCHANGED <<others, assigned, faults>>

\* GetApplicationRoles, whose failure ends the run with nothing changed (see
\* Killed), and GetAssignmentsForApplication.
GetAssignments(r) ==
  /\ job[r].phase = "assignments"
  /\ LET all == {g \in live : <<AppOf(r), g>> \in assigned}
     IN  \E S \in SUBSET all :
           LET names == {name[g] : g \in S}
           IN  /\ Listed(S, all)
               /\ job' = [job EXCEPT
                            ![r].seen = names,
                            ![r].phase = IF r \in AwsRunners THEN "groups"
                                                             ELSE "assign",
                            ![r].todo = Lacking(job[r].known, names,
                                                job[r].listing)]
  /\ UNCHANGED <<others, assigned>>

\* GetGroups: the second listing of aad2Aws, the first of the other job.
GetGroups(r) ==
  /\ job[r].phase = IF r \in AwsRunners THEN "groups" ELSE "idle"
  /\ \E ids \in SUBSET live :
       /\ Listed(ids, live)
       /\ job' = [job EXCEPT ![r] =
            IF r \in AwsRunners
            THEN [@ EXCEPT !.phase = "assign", !.listing = ids,
                           !.todo = Lacking(job[r].known, job[r].seen, ids)]
            ELSE [@ EXCEPT !.phase = "assignments", !.listing = ids,
                           !.known = Capabilities]]
  /\ UNCHANGED <<others, assigned>>

\* AssignGroupToApplication of one group, in whatever order they were listed.
\* The group may have gone or been assigned meanwhile: any status but 201 ends
\* the run.
AssignGroup(r, g) ==
  LET pair     == <<AppOf(r), g>>
      possible == g \in live /\ pair \notin assigned
  IN  /\ job[r].phase = "assign"
      /\ g \in job[r].todo
      /\ \/ /\ possible
            /\ assigned' = assigned \cup {pair}
            /\ job' = [job EXCEPT ![r].todo = @ \ {g}]
            /\ UNCHANGED faults
         \/ /\ ~possible
            /\ Return(r)
            /\ UNCHANGED <<assigned, faults>>
         \/ /\ Fault
            /\ Return(r)
            /\ \/ UNCHANGED assigned
               \/ possible /\ assigned' = assigned \cup {pair}
      /\ UNCHANGED others

\* The next application of the file.
NextApp(r) ==
  /\ job[r].phase = "assign"
  /\ job[r].todo = {}
  /\ job[r].app < Len(AppsOf(r))
  /\ job' = [job EXCEPT ![r].phase = "assignments", ![r].app = @ + 1,
                        ![r].seen = {}]
  /\ UNCHANGED <<others, assigned, faults>>

Finish(r) ==
  /\ job[r].phase = "assign"
  /\ job[r].todo = {}
  /\ job[r].app = Len(AppsOf(r))
  /\ Return(r)
  /\ UNCHANGED <<others, assigned, faults>>

\* The context is cancelled between two iterations, a call that writes nothing
\* fails, or the process dies.
Killed(r) ==
  /\ job[r].phase # "idle"
  /\ Fault
  /\ Return(r)
  /\ UNCHANGED <<others, assigned>>

Step(r) ==
  \/ GetCapabilities(r)
  \/ GetAssignments(r)
  \/ GetGroups(r)
  \/ \E g \in job[r].todo : AssignGroup(r, g)
  \/ NextApp(r)
  \/ Finish(r)

-----------------------------------------------------------------------------
(* The rest of the world (external) *)

Change == changes < MaxChanges /\ changes' = changes + 1

ContextAdded ==
  /\ Change
  /\ \E c \in Capabilities : contexts' = contexts \cup {c}
  /\ UNCHANGED <<name, live, assigned, job, faults>>

GroupCreated ==
  /\ Change
  /\ Len(name) < MaxGroups
  /\ \E c \in Capabilities : name' = Append(name, c)
  /\ live' = live \cup {Len(name) + 1}
  /\ UNCHANGED <<contexts, assigned, job, faults>>

\* The assignments of a group go with it.
GroupDeleted ==
  /\ Change
  /\ \E g \in live : /\ live' = live \ {g}
                     /\ assigned' = {p \in assigned : p[2] # g}
  /\ UNCHANGED <<contexts, name, job, faults>>

Next ==
  \/ \E r \in Runners : Step(r) \/ Killed(r)
  \/ ContextAdded
  \/ GroupCreated
  \/ GroupDeleted

Spec     == Init /\ [][Next]_vars
\* The scheduler starts the jobs again and again, and a run goes on by itself.
FairSpec == Spec /\ \A r \in Runners : WF_vars(Step(r))

-----------------------------------------------------------------------------
(* Properties *)

\* Only groups of capabilities with an AWS context are assigned to the
\* application of AWS, whatever fails and whichever runs overlap.
ContextsOnly ==
  \A g \in live : <<AwsApp, g>> \in assigned => name[g] \in contexts

Alone(g) == \A h \in live : name[h] = name[g] => h = g

\* Every group without a duplicate has the applications it should have.
AllAssigned ==
  \A g \in live : Alone(g) =>
    /\ \A a \in FileAppSet : <<a, g>> \in assigned
    /\ name[g] \in contexts => <<AwsApp, g>> \in assigned

\* Although a run ends at the first assignment that is refused, and takes a
\* group for assigned when a duplicate is, all are assigned in the end.
Converges == <>[]AllAssigned
=============================================================================
