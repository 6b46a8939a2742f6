------------------------------ MODULE AwsMapping ------------------------------
(***************************************************************************)
(* The job awsMapping: it gives the group of a capability access to the    *)
(* account of the capability, and the groups of all capabilities access to *)
(* two shared accounts (internal/handler/awsmapping.go, internal/aws).     *)
(*                                                                         *)
(* CreateAccountAssignment only asks for an assignment: AWS makes it later *)
(* or fails to, and the job never looks.  Whether an account has access is *)
(* read from a list of the accounts in which the permission set is         *)
(* provisioned, for whichever principal.  A route reaches this job, so two *)
(* of its runs may overlap (Orchestrator).                                 *)
(***************************************************************************)
EXTENDS Naturals, Sequences, FiniteSets

CONSTANTS
  Runners,         \* runs that may overlap
  Capabilities,    \* root ids
  Lookalikes,      \* other names of groups that have the prefix somewhere
  NoCapability,    \* stands for all names without the prefix
  Shared,          \* the shared accounts, in the order they are served
  MaxGroups,       \* bound: groups that are ever provisioned to AWS
  MaxFaults,       \* bound: failed calls and failed assignments
  MaxChanges       \* bound: changes by others

SharedSet == {Shared[i] : i \in DOMAIN Shared}

ASSUME SharedAssumption == Shared \in Seq(SharedSet)
ASSUME NamesAssumption ==
  /\ NoCapability \notin Capabilities \cup Lookalikes
  /\ Capabilities \cap (SharedSet \cup Lookalikes) = {}
  /\ Lookalikes \cap SharedSet = {}
ASSUME MappingBoundsAssumption ==
  MaxGroups \in Nat /\ MaxFaults \in Nat /\ MaxChanges \in Nat

VARIABLES
  accounts,   \* the accounts, by name, and whether they are suspended
  name,       \* display name of every group ever provisioned; a capability's
              \* group has the prefix and the root id, which stands for both
  live,       \* the groups that exist
  foreign,    \* accounts where other principals have the capability access
  assigned,   \* role, account and group: the assignments AWS has made
  pending,    \* those it has been asked for
  lost,       \* history: those that failed behind the job's back or were taken
              \* away, and have not been asked for since
  job,        \* local state of every runner
  faults, changes

others == <<accounts, name, live, foreign, changes>>
aws    == <<assigned, pending, lost>>
vars   == <<others, aws, job, faults>>

-----------------------------------------------------------------------------
(* State *)

\* An account of a capability has its name, but for a prefix.
Accounts == Capabilities \cup SharedSet
Prefixed == Capabilities \cup Lookalikes
Names    == Prefixed \cup {NoCapability}
GroupIds == 1..MaxGroups
Roles    == 0..Len(Shared)      \* 0 is the access to the capability's account
Status   == {"active", "suspended"}

Assignment == Roles \X Accounts \X GroupIds

Run ==
  [phase  : {"idle", "groups", "list", "assign"},
   known  : UNION {[A -> Status] : A \in SUBSET Accounts},  \* AwsAccounts
   groups : SUBSET GroupIds,                                \* AwsSsoGroups
   role   : Roles,                                          \* the role served
   todo   : SUBSET (Accounts \X GroupIds)]                  \* still to ask for

NoAccounts == [a \in {} |-> "active"]
Idle == [phase |-> "idle", known |-> NoAccounts, groups |-> {}, role |-> 0,
         todo |-> {}]

\* The type invariant.
TypeOK ==
  /\ \E A \in SUBSET Accounts : accounts \in [A -> Status]
  /\ name \in Seq(Names) /\ Len(name) <= MaxGroups
  /\ live \in SUBSET DOMAIN name
  /\ foreign \in SUBSET Accounts
  /\ assigned \in SUBSET Assignment
  /\ pending \in SUBSET Assignment
  /\ lost \in SUBSET Assignment
  /\ job \in [Runners -> Run]
  /\ \A r \in Runners : /\ job[r].groups \subseteq DOMAIN name
                        /\ job[r].phase # "assign" => job[r].todo = {}
  /\ faults \in 0..MaxFaults
  /\ changes \in 0..MaxChanges

\* The identity store keeps display names unique.
NamesUnique == \A g, h \in live : name[g] = name[h] => g = h

Init ==
  /\ \E A \in SUBSET Accounts : accounts = [a \in A |-> "active"]
  /\ \E n \in 0..MaxGroups : name \in [1..n -> Names]
  /\ live = DOMAIN name
  /\ NamesUnique
  /\ foreign \in SUBSET (DOMAIN accounts \ SharedSet)
  /\ assigned = {}
  /\ pending = {}
  /\ lost = {}
  /\ job = [r \in Runners |-> Idle]
  /\ faults = 0
  /\ changes = 0

-----------------------------------------------------------------------------
(* The handler, one remote call at a time *)

Fault == faults < MaxFaults /\ faults' = faults + 1

\* AWS makes assignments in these accounts.
Active(a) == a \in DOMAIN accounts /\ accounts[a] = "active"

Return(r) == job' = [job EXCEPT ![r] = Idle]

\* InitManageSso lists the accounts of all organizational units, one after the
\* other.  An account that is moved meanwhile may be missed.
ListAccounts(r) ==
  /\ job[r].phase = "idle"
  /\ \E A \in SUBSET DOMAIN accounts :
       /\ \/ A = DOMAIN accounts /\ UNCHANGED faults
          \/ Cardinality(DOMAIN accounts \ A) = 1 /\ Fault
       /\ job' = [job EXCEPT ![r].phase = "groups",
                             ![r].known = [a \in A |-> accounts[a]]]
  /\ UNCHANGED <<others, aws>>

ListGroups(r) ==
  /\ job[r].phase = "groups"
  /\ job' = [job EXCEPT ![r].phase = "list", ![r].groups = live]
  /\ UNCHANGED <<others, aws, faults>>

\* Accounts in which the capability's permission set is provisioned.
Provisioned == foreign \cup {a \in Accounts : \E g \in GroupIds :
                                                <<0, a, g>> \in assigned}

\* GetAccountsMissingCapabilityPermissionSet, without the suspended accounts,
\* which the loop passes over.
Missing(r) ==
  {p \in (DOMAIN job[r].known \ Provisioned) \X job[r].groups :
     name[p[2]] = p[1] /\ job[r].known[p[1]] = "active"}

\* GetGroupsNotAssignedToAccountWithPermissionSet.  Names are compared, among
\* the groups that were listed; that of a capability's group need only contain
\* the prefix.
NotAssigned(r) ==
  LET a == Shared[job[r].role]
      names == {name[g] : g \in {g \in job[r].groups :
                                   <<job[r].role, a, g>> \in assigned}}
  IN  {<<a, g>> : g \in {g \in job[r].groups : name[g] \in Prefixed \ names}}

\* What there is to do for the role: a list of accounts, or of the assignments
\* in the shared account.  Without that account the run ends.
ListRole(r) ==
  /\ job[r].phase = "list"
  /\ IF job[r].role > 0 /\ Shared[job[r].role] \notin DOMAIN job[r].known
     THEN Return(r)
     ELSE job' = [job EXCEPT ![r].phase = "assign",
                             ![r].todo = IF job[r].role = 0 THEN Missing(r)
                                                            ELSE NotAssigned(r)]
  /\ UNCHANGED <<others, aws, faults>>

\* Variant: an error is logged, and the loop goes on.
CreateAssignmentLogged(r, p) ==
  LET t == <<job[r].role, p[1], p[2]>>
  IN  /\ job[r].phase = "assign"
      /\ p \in job[r].todo
      /\ job' = [job EXCEPT ![r].todo = @ \ {p}]
      /\ \/ pending' = pending \cup {t} /\ UNCHANGED faults
         \/ Fault /\ UNCHANGED pending
      /\ UNCHANGED <<others, assigned, lost>>

\* CreateAccountAssignment of one pair, in whatever order they were listed.
\* AWS refuses a group or an account that is gone, and may refuse to be asked
\* again while it is at work.  An error ends the run, the roles after it too.
CreateAssignment(r, p) ==
  LET t        == <<job[r].role, p[1], p[2]>>
      possible == p[2] \in live /\ Active(p[1])
      Asked    == /\ pending' = IF t \in assigned THEN pending ELSE pending \cup {t}
                  /\ lost' = lost \ {t}
  IN  /\ job[r].phase = "assign"
      /\ p \in job[r].todo
      /\ \/ /\ possible
            /\ Asked
            /\ job' = [job EXCEPT ![r].todo = @ \ {p}]
            /\ UNCHANGED faults
         \/ /\ ~possible \/ t \in pending
            /\ Return(r)
            /\ UNCHANGED <<pending, lost, faults>>
         \/ /\ Fault
            /\ Return(r)
            /\ UNCHANGED <<pending, lost>> \/ (possible /\ Asked)
      /\ UNCHANGED <<others, assigned>>

\* Variant: the loop is left early.
NextRoleEarly(r) ==
  /\ job[r].phase = "assign"
  /\ IF job[r].role = Len(Shared) THEN Return(r)
     ELSE job' = [job EXCEPT ![r].phase = "list", ![r].role = @ + 1]
  /\ UNCHANGED <<others, aws, faults>>

\* Variant: only the accounts are served.
NextRoleOnly0(r) ==
  /\ job[r].phase = "assign"
  /\ job[r].todo = {}
  /\ Return(r)
  /\ UNCHANGED <<others, aws, faults>>

\* The next role, or the end of the run.
NextRole(r) ==
  /\ job[r].phase = "assign"
  /\ job[r].todo = {}
  /\ IF job[r].role = Len(Shared) THEN Return(r)
     ELSE job' = [job EXCEPT ![r].phase = "list", ![r].role = @ + 1]
  /\ UNCHANGED <<others, aws, faults>>

\* A listing fails, the process dies, or the context is cancelled: then the roles
\* that are left are listed, but nothing is asked for any more.
Killed(r) ==
  /\ job[r].phase # "idle"
  /\ Fault
  /\ Return(r)
  /\ UNCHANGED <<others, aws>>

Step(r) ==
  \/ ListAccounts(r)
  \/ ListGroups(r)
  \/ ListRole(r)
  \/ \E p \in job[r].todo : CreateAssignment(r, p)
  \/ NextRole(r)

-----------------------------------------------------------------------------
(* AWS, and the rest of the world (external) *)

\* An assignment is made, or it fails.  When its group has gone meanwhile, it
\* may be made all the same.
Settles(t) ==
  /\ t \in pending
  /\ pending' = pending \ {t}
  /\ \/ assigned' = assigned \cup {t} /\ UNCHANGED <<lost, faults>>
     \/ /\ lost' = lost \cup {t}
        /\ IF t[3] \in live /\ Active(t[2]) THEN Fault ELSE UNCHANGED faults
        /\ UNCHANGED assigned
  /\ UNCHANGED <<others, job>>

Change == changes < MaxChanges /\ changes' = changes + 1

AccountChanged ==
  /\ Change
  /\ \E a \in Accounts, s \in Status :
       /\ a \notin DOMAIN accounts \/ s = "suspended"
       /\ accounts' = [b \in DOMAIN accounts \cup {a} |->
                         IF b = a THEN s ELSE accounts[b]]
  /\ UNCHANGED <<name, live, foreign, aws, job, faults>>

\* Azure provisions a group.
GroupProvisioned ==
  /\ Change
  /\ Len(name) < MaxGroups
  /\ \E n \in Prefixed : /\ \A g \in live : name[g] # n
                         /\ name' = Append(name, n)
  /\ live' = live \cup {Len(name) + 1}
  /\ UNCHANGED <<accounts, foreign, aws, job, faults>>

\* A group goes, with its assignments or without them.
GroupGoes ==
  /\ Change
  /\ \E g \in live : /\ live' = live \ {g}
                     /\ assigned' \in {assigned, {t \in assigned : t[3] # g}}
  /\ lost' = lost \cup (assigned \ assigned')
  /\ UNCHANGED <<accounts, name, foreign, pending, job, faults>>

\* Somebody takes an assignment away.
Revoked ==
  /\ Change
  /\ \E t \in assigned : assigned' = assigned \ {t} /\ lost' = lost \cup {t}
  /\ UNCHANGED <<accounts, name, live, foreign, pending, job, faults>>

Next ==
  \/ \E r \in Runners : Step(r) \/ Killed(r)
  \/ \E t \in pending : Settles(t)
  \/ AccountChanged
  \/ GroupProvisioned
  \/ GroupGoes
  \/ Revoked

Spec == Init /\ [][Next]_vars
\* The scheduler starts the job again and again, a run goes on by itself, and
\* AWS settles what it was asked for.
FairSpec == /\ Spec
            /\ \A r \in Runners : WF_vars(Step(r))
            /\ WF_vars(\E t \in pending : Settles(t))

-----------------------------------------------------------------------------
(* Properties *)

\* The assignments that AWS has made or was asked for, and those lost since.
Had == assigned \cup pending \cup lost

\* A run q has left nothing of role i undone: AWS has made, or was asked for, the
\* assignment of every group the run has listed; or it has lost it since, by a
\* failure or by others.  An account may have had somebody else instead.
Served(q, i) ==
  IF i = 0
  THEN \A a \in DOMAIN q.known, g \in q.groups :
         name[g] = a /\ q.known[a] = "active" =>
           a \in foreign \/ \E h \in GroupIds : <<0, a, h>> \in Had
  ELSE \A g \in q.groups : name[g] \in Prefixed => <<i, Shared[i], g>> \in Had

\* A run that has got to a role has served all roles before it, and when it comes
\* to its end all of them: whatever overlaps or changes behind its back, a run that
\* is neither cancelled nor returns an error has left nobody out whom it has listed.
RolesInTurn ==
  \A r \in Runners :
    /\ \A i \in 0..(job[r].role - 1) : Served(job[r], i)
    /\ job[r].phase = "assign" /\ job[r].todo = {} => Served(job[r], job[r].role)

\* No other principal, and no group that has gone, has access to the account.
OwnOnly(a) == a \notin foreign /\ \A t \in assigned :
                                    t[1] = 0 /\ t[2] = a => t[3] \in live

\* Every active account has its group, and every group with the prefix the
\* shared roles, as far as the shared accounts exist.
AllAssigned ==
  \A g \in live : name[g] \in Prefixed =>
    /\ LET a == name[g]
       IN  Active(a) /\ OwnOnly(a) =>
             <<0, a, g>> \in assigned
    /\ \A i \in DOMAIN Shared :
         (\A k \in 1..i : Active(Shared[k])) => <<i, Shared[i], g>> \in assigned

\* Although errors end a run, assignments may fail behind its back, and lists
\* are out of date, access is complete in the end.
Converges == <>[]AllAssigned
=============================================================================
