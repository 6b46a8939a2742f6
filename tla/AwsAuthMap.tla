------------------------------ MODULE AwsAuthMap ------------------------------
(***************************************************************************)
(* The job aws2K8s: it makes the role mappings of the ConfigMap            *)
(* kube-system/aws-auth follow the access roles of the AWS accounts        *)
(* (internal/handler/aws2k8s.go, GetSsoRoles in internal/aws/aws.go and    *)
(* internal/k8s/k8s.go).                                                   *)
(*                                                                         *)
(* A run asks every account for its role, loads the ConfigMap, walks       *)
(* through the mappings and through the roles, and writes the ConfigMap    *)
(* back under the resourceVersion it was loaded with.  The cluster is      *)
(* edited by others too, and more than one process may run the job.        *)
(***************************************************************************)
EXTENDS Naturals, Sequences, FiniteSets

CONSTANTS
  Runners,      \* processes that run the handler
  Accounts,     \* AWS accounts of the organisation
  RoleNames,    \* names an account's access role can have over time
  NoRole,
  OtherArns,    \* roles outside the accounts, such as those of the nodes
  MaxInitial,   \* bound: mappings in the ConfigMap at the start
  MaxFaults,    \* bound: failed calls and killed runs
  MaxChurn      \* bound: changes made by the rest of the world

ASSUME RoleAssumption == NoRole \notin RoleNames
ASSUME ArnAssumption == OtherArns \cap (Accounts \X RoleNames) = {}
ASSUME BoundsAssumption == {MaxInitial, MaxFaults, MaxChurn} \subseteq Nat

VARIABLES
  roles,     \* account -> name of its access role, or NoRole
  mappings,  \* mapRoles of the ConfigMap in the cluster, in order
  latest,    \* the runs whose resourceVersion is that of the cluster
  job,       \* local state of each run
  faults, churn

vars  == <<roles, mappings, latest, job, faults, churn>>
world == <<roles, churn>>

-----------------------------------------------------------------------------
(* State *)

AccountArns == Accounts \X RoleNames
Arns        == AccountArns \cup OtherArns

\* One RoleMapping.  right: its user name and groups are those that this job
\* gives to the account of the role.
RoleMapping == [arn : Arns, managed : BOOLEAN, right : BOOLEAN]

Existing == {arn \in AccountArns : roles[arn[1]] = arn[2]}

Idle == [
  phase |-> "idle",
  ask   |-> {},     \* accounts GetSsoRoles has yet to hear from
  found |-> {},     \* ARNs of the roles it has found
  maps  |-> <<>>,   \* amResp.Mappings
  x     |-> 1,      \* index of the first loop
  todo  |-> {}]     \* roles the second loop has yet to visit

RunOK(run) ==
  /\ DOMAIN run = DOMAIN Idle
  /\ run.phase \in {"idle", "roles", "prune", "map", "save"}
  /\ run.ask \in SUBSET Accounts
  /\ run.found \in SUBSET AccountArns
  /\ run.maps \in Seq(RoleMapping)
  /\ run.x \in Nat \ {0}
  /\ run.todo \in SUBSET run.found

\* The type invariant.
TypeOK ==
  /\ roles \in [Accounts -> RoleNames \cup {NoRole}]
  /\ mappings \in Seq(RoleMapping)
  /\ latest \in SUBSET Runners
  /\ DOMAIN job = Runners
  /\ \A r \in Runners : RunOK(job[r])
  /\ faults \in 0..MaxFaults
  /\ churn \in 0..MaxChurn

\* No role is mapped twice, and only roles of accounts are managed by this job.
InitialMapping(s) ==
  /\ \A i, k \in DOMAIN s : s[i].arn = s[k].arn => i = k
  /\ \A i \in DOMAIN s : s[i].managed => s[i].arn \in AccountArns

Init ==
  /\ roles \in [Accounts -> RoleNames \cup {NoRole}]
  /\ \E n \in 0..MaxInitial : mappings \in [1..n -> RoleMapping]
  /\ InitialMapping(mappings)
  /\ latest = {}
  /\ job = [r \in Runners |-> Idle]
  /\ faults = 0
  /\ churn = 0

Fault == faults < MaxFaults /\ faults' = faults + 1
Return(r) == job' = [job EXCEPT ![r] = Idle]

\* The cluster has new mappings: no run holds the latest resourceVersion.  An
\* update that changes nothing leaves the resourceVersion alone.
Written(s) ==
  /\ mappings' = s
  /\ latest' = IF s = mappings THEN latest ELSE {}

-----------------------------------------------------------------------------
(* The handler *)

\* The accounts are listed.  Until the ConfigMap is loaded an error of any
\* other call ends the run with nothing changed.
ListAccounts(r) ==
  /\ job[r].phase = "idle"
  /\ job' = [job EXCEPT ![r].phase = "roles", ![r].ask = Accounts]
  /\ UNCHANGED <<world, mappings, latest, faults>>

\* One goroutine of GetSsoRoles, in any order.  An account whose role cannot be
\* assumed, or whose roles cannot be listed, is skipped.  Only the first page of the
\* roles is read: the access role is taken to be on it.
AskAccount(r, a) ==
  /\ job[r].phase = "roles"
  /\ a \in job[r].ask
  /\ \/ /\ job' = [job EXCEPT ![r].ask = @ \ {a},
                              ![r].found = @ \cup {arn \in Existing : arn[1] = a}]
        /\ UNCHANGED faults
     \/ /\ Fault
        /\ job' = [job EXCEPT ![r].ask = @ \ {a}]
  /\ UNCHANGED <<world, mappings, latest>>

\* Variant: the goroutines are not waited for.
LoadUnwaited(r) ==
  /\ job[r].phase = "roles"
  /\ job' = [job EXCEPT ![r].phase = "prune",
                        ![r].maps = mappings,
                        ![r].todo = job[r].found]
  /\ latest' = latest \cup {r}
  /\ UNCHANGED <<world, mappings, faults>>

\* LoadAwsAuthMapRoles
Load(r) ==
  /\ job[r].phase = "roles"
  /\ job[r].ask = {}
  /\ job' = [job EXCEPT ![r].phase = "prune",
                        ![r].maps = mappings,
                        ![r].todo = job[r].found]
  /\ latest' = latest \cup {r}
  /\ UNCHANGED <<world, mappings, faults>>

\* removeArrayItem: the last item takes the place of the removed one.
RemoveItem(s, i) ==
  [k \in 1..(Len(s) - 1) |-> IF k = i THEN s[Len(s)] ELSE s[k]]

\* Variant: the entry is removed whoever manages it.
GoneAnyManager(m, found) == m.arn \notin found

\* ManagedByThis, and no role that was found has this ARN.
Gone(m, found) == m.managed /\ m.arn \notin found

\* Variant: x is put back after a removal, by one too many.
PruneEntryBack(r) ==
  /\ job[r].phase = "prune"
  /\ job[r].x <= Len(job[r].maps)
  /\ LET maps == job[r].maps
         x    == job[r].x
     IN  job' = [job EXCEPT
                   ![r].maps = IF Gone(maps[x], job[r].found)
                               THEN RemoveItem(maps, x) ELSE maps,
                   ![r].x = IF Gone(maps[x], job[r].found) THEN x - 1 ELSE x + 1]
  /\ UNCHANGED <<world, mappings, latest, faults>>

\* One iteration of the first loop; x moves on after a removal too.
PruneEntry(r) ==
  /\ job[r].phase = "prune"
  /\ job[r].x <= Len(job[r].maps)
  /\ LET maps == job[r].maps
         x    == job[r].x
     IN  job' = [job EXCEPT
                   ![r].maps = IF Gone(maps[x], job[r].found)
                               THEN RemoveItem(maps, x) ELSE maps,
                   ![r].x = x + 1]
  /\ UNCHANGED <<world, mappings, latest, faults>>

PruneEnds(r) ==
  /\ job[r].phase = "prune"
  /\ job[r].x > Len(job[r].maps)
  /\ job' = [job EXCEPT ![r].phase = "map"]
  /\ UNCHANGED <<world, mappings, latest, faults>>

\* GetMappingByArn: the first mapping of a role; 0 if there is none.
MappingByArn(s, arn) ==
  LET hits == {i \in DOMAIN s : s[i].arn = arn}
  IN  IF hits = {} THEN 0 ELSE CHOOSE i \in hits : \A k \in hits : i <= k

\* Variant: a mapping that exists is not looked at again.
MapRoleOnce(r, arn) ==
  /\ job[r].phase = "map"
  /\ arn \in job[r].todo
  /\ LET maps == job[r].maps
     IN  job' = [job EXCEPT
           ![r].todo = @ \ {arn},
           ![r].maps = IF MappingByArn(maps, arn) # 0 THEN maps
                       ELSE Append(maps, [arn |-> arn, managed |-> TRUE,
                                          right |-> TRUE])]
  /\ UNCHANGED <<world, mappings, latest, faults>>

\* Variant: a role gets a new mapping unless it has a right one.
MapRoleAgain(r, arn) ==
  /\ job[r].phase = "map"
  /\ arn \in job[r].todo
  /\ LET maps == job[r].maps
         i    == MappingByArn(maps, arn)
     IN  job' = [job EXCEPT
           ![r].todo = @ \ {arn},
           ![r].maps = IF i # 0 /\ maps[i].right THEN maps
                       ELSE Append(maps, [arn |-> arn, managed |-> TRUE,
                                          right |-> TRUE])]
  /\ UNCHANGED <<world, mappings, latest, faults>>

\* One iteration of the second loop, over a Go map: in any order.
MapRole(r, arn) ==
  /\ job[r].phase = "map"
  /\ arn \in job[r].todo
  /\ LET maps == job[r].maps
         i    == MappingByArn(maps, arn)
     IN  job' = [job EXCEPT
           ![r].todo = @ \ {arn},
           ![r].maps = IF i = 0
                       THEN Append(maps, [arn |-> arn, managed |-> TRUE,
                                          right |-> TRUE])
                       ELSE [maps EXCEPT ![i].right = TRUE]]
  /\ UNCHANGED <<world, mappings, latest, faults>>

MapEnds(r) ==
  /\ job[r].phase = "map"
  /\ job[r].todo = {}
  /\ job' = [job EXCEPT ![r].phase = "save"]
  /\ UNCHANGED <<world, mappings, latest, faults>>

\* Variant: the update carries no resourceVersion.
SaveUnversioned(r) ==
  /\ job[r].phase = "save"
  /\ Written(job[r].maps)
  /\ Return(r)
  /\ UNCHANGED <<world, faults>>

\* UpdateAwsAuthMapRoles: the API server refuses an old resourceVersion.  An
\* update that fails for another reason may have been made.
Save(r) ==
  /\ job[r].phase = "save"
  /\ \/ r \in latest /\ Written(job[r].maps) /\ UNCHANGED faults
     \/ r \notin latest /\ UNCHANGED <<mappings, latest, faults>>
     \/ Fault /\ UNCHANGED <<mappings, latest>>
     \/ r \in latest /\ Fault /\ Written(job[r].maps)
  /\ Return(r)
  /\ UNCHANGED world

\* The context is cancelled between two roles of the second loop, a call fails
\* before the update, or the process dies.
Killed(r) ==
  /\ job[r].phase # "idle"
  /\ Fault
  /\ Return(r)
  /\ UNCHANGED <<world, mappings, latest>>

Step(r) ==
  \/ ListAccounts(r)
  \/ \E a \in job[r].ask : AskAccount(r, a)
  \/ Load(r)
  \/ PruneEntry(r)
  \/ PruneEnds(r)
  \/ \E arn \in job[r].todo : MapRole(r, arn)
  \/ MapEnds(r)
  \/ Save(r)

-----------------------------------------------------------------------------
(* The rest of the world (external) *)

Churn == churn < MaxChurn /\ churn' = churn + 1

\* The access role of an account is provisioned, removed or provisioned anew
\* under another name.
RoleChange ==
  /\ Churn
  /\ \E a \in Accounts, name \in RoleNames \cup {NoRole} :
       roles' = [roles EXCEPT ![a] = name]
  /\ UNCHANGED <<mappings, latest, job, faults>>

\* Somebody else adds a mapping of a role that has none.
ForeignEdit ==
  /\ Churn
  /\ \E arn \in Arns :
       /\ \A i \in DOMAIN mappings : mappings[i].arn # arn
       /\ Written(Append(mappings, [arn |-> arn, managed |-> FALSE,
                                    right |-> FALSE]))
  /\ UNCHANGED <<roles, job, faults>>

Next ==
  \/ \E r \in Runners : Step(r) \/ Killed(r)
  \/ RoleChange
  \/ ForeignEdit

Spec     == Init /\ [][Next]_vars
\* The scheduler starts the job again and again, and a run goes on by itself.
FairSpec == Spec /\ \A r \in Runners : WF_vars(Step(r))

-----------------------------------------------------------------------------
(* Properties *)

\* No run takes away a mapping that is not managed by this job, not even one
\* that was added after the run had loaded the ConfigMap.
ForeignKept ==
  [][\A r \in Runners : job'[r] # job[r] =>
       \A i \in DOMAIN mappings : ~mappings[i].managed =>
         \E k \in DOMAIN mappings' : /\ mappings'[k].arn = mappings[i].arn
                                     /\ ~mappings'[k].managed]_vars

\* No role is mapped twice, however many runs and other hands edit the
\* ConfigMap: the authenticator would take one of the two.
MappedOnce ==
  \A i, k \in DOMAIN mappings : mappings[i].arn = mappings[k].arn => i = k

\* "check if an entry exists where the equivalent AWS role doesn't": an entry is
\* removed only then, as long as no account has been skipped and no role has been
\* provisioned anew, however the runs go about it.
KeepsExisting ==
  [][\A r \in Runners : job'[r] # job[r] /\ faults = 0 /\ churn = 0 =>
       \A i \in DOMAIN mappings : mappings[i].arn \in Existing =>
         MappingByArn(mappings', mappings[i].arn) # 0]_vars

\* The managed mappings are those of the roles that exist, and all are right.
InSync ==
  /\ \A arn \in Existing : MappingByArn(mappings, arn) # 0
  /\ \A i \in DOMAIN mappings :
       /\ mappings[i].managed => mappings[i].arn \in Existing
       /\ mappings[i].arn \in Existing => mappings[i].right

\* Once nothing fails and nothing changes any more, the ConfigMap becomes what
\* the accounts say and stays so, although one run may leave an entry behind.
Converges == <>[]InSync
=============================================================================
