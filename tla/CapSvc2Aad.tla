------------------------------ MODULE CapSvc2Aad ------------------------------
(***************************************************************************)
(* The job capSvc2Aad: it makes the groups of one Azure AD administrative  *)
(* unit follow the capabilities of the capability service                  *)
(* (internal/handler/capsvc2aad.go and the Graph calls it makes in         *)
(* internal/azure/azure.go).                                               *)
(*                                                                         *)
(* One Runner is one process in which the handler runs: the orchestrator,  *)
(* the command cmd/capsvc2azure, or the next pod of a rolling update.      *)
(* Every remote call is one step.  Between two steps the world moves:      *)
(* people join and leave capabilities, the event handlers and other        *)
(* runners write to the same groups.                                       *)
(***************************************************************************)
EXTENDS Naturals, FiniteSets

CONSTANTS
  Runners,        \* processes that run the handler
  Capabilities,   \* root ids a capability can have
  NoCapability,
  Users,          \* e-mail addresses a capability can list
  Directory,      \* the Users that have an account in Azure AD
  External,       \* the Users whose address lacks the internal domain suffix
  PageSize,       \* members in the first page of a group's member list
  MaxInitial,     \* bound: groups the unit holds at the start
  MaxGroups,      \* bound: groups ever created
  MaxFaults,      \* bound: failed calls and killed runs
  MaxChurn        \* bound: changes made by the rest of the world

ASSUME BoundsAssumption ==
  {PageSize, MaxInitial, MaxGroups, MaxFaults, MaxChurn} \subseteq Nat
ASSUME UsersAssumption == Directory \subseteq Users /\ External \subseteq Users
ASSUME CapabilityAssumption == NoCapability \notin Capabilities

VARIABLES
  capabilities,   \* capability service: root id -> members, for those that exist
  groups,         \* administrative unit: group id -> [cap, members]
  nextId,         \* id of the next group; ids follow CreatedDateTime
  job,            \* local state of each run
  faults, churn   \* how much of MaxFaults and MaxChurn is used up

vars == <<capabilities, groups, nextId, job, faults, churn>>
world == <<capabilities, nextId, churn>>

-----------------------------------------------------------------------------
(* State *)

GroupIds == 1..MaxGroups
IsPartialFcn(f, S, T) == \E D \in SUBSET S : f \in [D -> T]
EmptyFcn == [x \in {} |-> x]

\* A display name is CAPABILITY_GROUP_PREFIX and a root id: the root id stands
\* for both.
Group  == [cap : Capabilities, members : SUBSET Directory]
Cached == [id : GroupIds, members : SUBSET Directory]

Phases == {"idle", "list", "eliminate", "fetch", "sync"}
\* The names of the listed groups; NoCapability for an id that is not listed.
Listing(ids) == [g \in GroupIds |-> IF g \in ids THEN groups[g].cap
                                                ELSE NoCapability]

Idle == [
  phase   |-> "idle",
  known   |-> EmptyFcn,                           \* capabilities
  listing |-> [g \in GroupIds |-> NoCapability],  \* aUnitMembers
  victims |-> {},                                 \* duplicates to delete
  fetch   |-> {},                                 \* GetGroupMembers in flight
  azure   |-> EmptyFcn,                           \* groupsInAzure
  todo    |-> {},                                 \* root ids not yet iterated
  cap     |-> NoCapability,                       \* the current capability
  group   |-> 0,                                  \* azureGroup.ID
  adds    |-> {},                                 \* left of the first inner loop
  removes |-> {}]                                 \* left of the second inner loop

RunOK(run) ==
  /\ DOMAIN run = DOMAIN Idle
  /\ run.phase \in Phases
  /\ IsPartialFcn(run.known, Capabilities, SUBSET Users)
  /\ run.listing \in [GroupIds -> Capabilities \cup {NoCapability}]
  /\ run.victims \in SUBSET GroupIds
  /\ run.fetch \in SUBSET GroupIds
  /\ IsPartialFcn(run.azure, Capabilities, Cached)
  /\ run.todo \in SUBSET DOMAIN run.known
  /\ run.cap \in Capabilities \cup {NoCapability}
  /\ run.group \in GroupIds \cup {0}
  /\ run.adds \in SUBSET Users
  /\ run.removes \in SUBSET Users
  /\ run.phase = "fetch" => \A g \in run.fetch : run.listing[g] \in Capabilities

\* The type invariant.
TypeOK ==
  /\ IsPartialFcn(capabilities, Capabilities, SUBSET Users)
  /\ IsPartialFcn(groups, GroupIds, Group)
  /\ nextId \in 1..(MaxGroups + 1)
  /\ DOMAIN job = Runners
  /\ \A r \in Runners : RunOK(job[r])
  /\ faults \in 0..MaxFaults
  /\ churn \in 0..MaxChurn

Init ==
  /\ \E D \in SUBSET Capabilities : capabilities \in [D -> SUBSET Users]
  /\ \E n \in 0..MaxInitial : /\ n <= MaxGroups
                              /\ groups \in [1..n -> Group]
                              /\ nextId = n + 1
  /\ job = [r \in Runners |-> Idle]
  /\ faults = 0
  /\ churn = 0

-----------------------------------------------------------------------------
(* What the handler computes *)

GroupsOf(c) == {g \in DOMAIN groups : groups[g].cap = c}

\* Variant: After in place of Before keeps the newest.
ExcessKeepsNewest(listing, known) ==
  {g \in GroupIds : /\ listing[g] \in DOMAIN known
                    /\ \E h \in GroupIds : listing[h] = listing[g] /\ h > g}

\* findDuplicateGroupsAndEliminate: of the listed groups that carry the name of
\* a known capability, all but the oldest.
Excess(listing, known) ==
  {g \in GroupIds : /\ listing[g] \in DOMAIN known
                    /\ \E h \in GroupIds : listing[h] = listing[g] /\ h < g}

\* GetGroupMembers reads one page and follows no link.
FirstPage(S) ==
  IF Cardinality(S) <= PageSize
  THEN {S} ELSE {T \in SUBSET S : Cardinality(T) = PageSize}

\* A fetched group goes into groupsInAzure under its display name: of two
\* groups with one name the last to be stored wins.
Store(azure, c, g, S) ==
  [d \in DOMAIN azure \cup {c} |->
     IF d = c THEN [id |-> g, members |-> S] ELSE azure[d]]

\* azureGroup.Members: nothing for a group this run has created.
SeenMembers(r) ==
  IF job[r].cap \in DOMAIN job[r].azure THEN job[r].azure[job[r].cap].members
                                        ELSE {}

\* Variant: external members are not looked at.
ToRemoveInternal(wanted, seen) == {u \in seen \ External : u \notin wanted}

\* Iterations that make no call are left out of the two inner loops: an
\* internal user who needs no change.
ToAdd(wanted, seen)    == {u \in wanted : u \in External \/ u \notin seen}
ToRemove(wanted, seen) == {u \in seen : u \in External \/ u \notin wanted}

WithGroup(g, c)   == [h \in DOMAIN groups \cup {g} |->
                        IF h = g THEN [cap |-> c, members |-> {}] ELSE groups[h]]
WithoutGroup(g)   == [h \in DOMAIN groups \ {g} |-> groups[h]]
SetMembers(g, S)  == [h \in DOMAIN groups |->
                        IF h = g THEN [cap |-> groups[h].cap, members |-> S]
                        ELSE groups[h]]
WithMember(g, u)    == IF g \in DOMAIN groups
                       THEN SetMembers(g, groups[g].members \cup {u}) ELSE groups
WithoutMember(g, u) == IF g \in DOMAIN groups
                       THEN SetMembers(g, groups[g].members \ {u}) ELSE groups

Fault == faults < MaxFaults /\ faults' = faults + 1

\* Variant: the state of the last run is not reset.
ReturnWithoutReset(r) == job' = [job EXCEPT ![r].phase = "returned"]

Return(r) == job' = [job EXCEPT ![r] = Idle]

-----------------------------------------------------------------------------
(* The handler, one remote call at a time *)

\* A run begins.  A failed GetCapabilities or GetAdministrativeUnits ends the
\* run with nothing changed, so only the success is a step.
GetCapabilities(r) ==
  /\ job[r].phase = "idle"
  /\ job' = [job EXCEPT ![r] = [Idle EXCEPT !.phase = "list",
                                            !.known = capabilities]]
  /\ UNCHANGED <<world, groups, faults>>

\* GetAdministrativeUnitMembers never looks at the status: an error page
\* decodes to no entries and ends the listing as if it were complete.
Listed(ids) ==
  \/ ids = DOMAIN groups /\ UNCHANGED faults
  \/ ids \in SUBSET DOMAIN groups /\ ids # DOMAIN groups /\ Fault

ListMembers(r) ==
  /\ job[r].phase = "list"
  /\ \E ids \in SUBSET DOMAIN groups :
       /\ Listed(ids)
       /\ job' = [job EXCEPT
                    ![r].phase = "eliminate",
                    ![r].listing = Listing(ids),
                    ![r].victims = Excess(Listing(ids), job[r].known)]
  /\ UNCHANGED <<world, groups>>

\* One DELETE.  The duplicates of a capability go one after the other, before
\* those of the next capability; any status but 204 ends the run.
EliminateDuplicate(r, g) ==
  /\ job[r].phase = "eliminate"
  /\ g \in job[r].victims
  /\ (\E v \in job[r].victims : job[r].listing[v] = job[r].cap)
       => job[r].listing[g] = job[r].cap
  /\ \/ /\ g \in DOMAIN groups
        /\ groups' = WithoutGroup(g)
        /\ job' = [job EXCEPT ![r].victims = @ \ {g},
                              ![r].cap = job[r].listing[g]]
        /\ UNCHANGED faults
     \/ /\ g \notin DOMAIN groups
        /\ Return(r)
        /\ UNCHANGED <<groups, faults>>
     \/ /\ Fault
        /\ groups' \in {groups, WithoutGroup(g)}
        /\ Return(r)
  /\ UNCHANGED world

\* Variant: the first listing is used again.
ListOnce(r) ==
  /\ job[r].phase = "eliminate"
  /\ job[r].victims = {}
  /\ job' = [job EXCEPT ![r].phase = "fetch",
                        ![r].fetch = {g \in GroupIds :
                                        job[r].listing[g] # NoCapability},
                        ![r].cap = NoCapability]
  /\ UNCHANGED <<world, groups, faults>>

\* The second listing, from which the member lists are fetched.
ListAgain(r) ==
  /\ job[r].phase = "eliminate"
  /\ job[r].victims = {}
  /\ \E ids \in SUBSET DOMAIN groups :
       /\ Listed(ids)
       /\ job' = [job EXCEPT ![r].phase = "fetch",
                             ![r].listing = Listing(ids),
                             ![r].fetch = ids,
                             ![r].cap = NoCapability]
  /\ UNCHANGED <<world, groups>>

\* One goroutine of the fan-out, in any order.  An error body (which a deleted
\* group gives too) decodes to no members; a transport or decoding error drops
\* the group, because nothing reads what the goroutine returns.
FetchMembers(r, g) ==
  /\ job[r].phase = "fetch"
  /\ g \in job[r].fetch
  /\ \/ \E S \in IF g \in DOMAIN groups THEN FirstPage(groups[g].members) ELSE {{}} :
          /\ job' = [job EXCEPT
                       ![r].fetch = @ \ {g},
                       ![r].azure = Store(@, job[r].listing[g], g, S)]
          /\ UNCHANGED faults
     \/ /\ Fault
        /\ job' = [job EXCEPT
                     ![r].fetch = @ \ {g},
                     ![r].azure = Store(@, job[r].listing[g], g, {})]
     \/ /\ Fault
        /\ job' = [job EXCEPT ![r].fetch = @ \ {g}]
  /\ UNCHANGED <<world, groups>>

\* waitGroup.Wait
AllFetched(r) ==
  /\ job[r].phase = "fetch"
  /\ job[r].fetch = {}
  /\ job' = [job EXCEPT ![r].phase = "sync", ![r].todo = DOMAIN job[r].known]
  /\ UNCHANGED <<world, groups, faults>>

\* The next iteration over capabilitiesByRootId may start.
BetweenCapabilities(r) ==
  /\ job[r].phase = "sync"
  /\ job[r].adds = {}
  /\ job[r].removes = {}

UseGroup(r, c) ==
  /\ BetweenCapabilities(r)
  /\ c \in job[r].todo \cap DOMAIN job[r].azure
  /\ LET cached == job[r].azure[c]
         wanted == job[r].known[c]
     IN  job' = [job EXCEPT ![r].todo = @ \ {c}, ![r].cap = c,
                            ![r].group = cached.id,
                            ![r].adds = ToAdd(wanted, cached.members),
                            ![r].removes = ToRemove(wanted, cached.members)]
  /\ UNCHANGED <<world, groups, faults>>

\* Variant: groupsInAzure is not consulted.
CreateGroupUnchecked(r, c) ==
  /\ BetweenCapabilities(r)
  /\ c \in job[r].todo
  /\ nextId <= MaxGroups
  /\ groups' = WithGroup(nextId, c)
  /\ nextId' = nextId + 1
  /\ job' = [job EXCEPT ![r].todo = @ \ {c}, ![r].cap = c, ![r].group = nextId,
                        ![r].adds = job[r].known[c]]
  /\ UNCHANGED <<capabilities, churn, faults>>

CreateGroup(r, c) ==
  /\ BetweenCapabilities(r)
  /\ c \in job[r].todo \ DOMAIN job[r].azure
  /\ nextId <= MaxGroups
  /\ \/ /\ groups' = WithGroup(nextId, c)
        /\ nextId' = nextId + 1
        /\ job' = [job EXCEPT ![r].todo = @ \ {c}, ![r].cap = c,
                              ![r].group = nextId,
                              ![r].adds = job[r].known[c]]
        /\ UNCHANGED faults
     \/ /\ Fault   \* no 201: the group may exist all the same
        /\ \/ UNCHANGED <<groups, nextId>>
           \/ groups' = WithGroup(nextId, c) /\ nextId' = nextId + 1
        /\ Return(r)
  /\ UNCHANGED <<capabilities, churn>>

\* GetUserViaEmail finds nobody.
NotFoundViaEmail(u) == u \in External \ Directory

\* GetUserViaUPN looks at no status: an error body gives the empty address.
MailUnread(u) == u \in External /\ Fault

\* One member of the capability: the look-up by e-mail of an external user,
\* whose failure ends the run, then the POST if the group lacks the user.
\* 404 (no such user or group) and 403 are skipped, 400 counts as done.
AddMember(r, u) ==
  /\ job[r].phase = "sync"
  /\ u \in job[r].adds
  /\ \/ /\ NotFoundViaEmail(u)
        /\ Return(r)
        /\ UNCHANGED <<groups, faults>>
     \/ /\ ~NotFoundViaEmail(u)
        /\ job' = [job EXCEPT ![r].adds = @ \ {u}]
        /\ \/ /\ groups' = IF u \in Directory \ SeenMembers(r)
                           THEN WithMember(job[r].group, u) ELSE groups
              /\ UNCHANGED faults
           \/ u \notin SeenMembers(r) /\ Fault /\ UNCHANGED groups   \* 403
     \/ /\ Fault
        /\ groups' \in {groups, IF u \in Directory \ SeenMembers(r)
                                THEN WithMember(job[r].group, u) ELSE groups}
        /\ Return(r)
  /\ UNCHANGED world

\* One member the group had when it was fetched, after all additions.  The
\* mail of an external user is looked up; no capability lists the empty address.
\* 404 and 403 count as done.
RemoveMember(r, u) ==
  /\ job[r].phase = "sync"
  /\ job[r].adds = {}
  /\ u \in job[r].removes
  /\ \/ /\ job' = [job EXCEPT ![r].removes = @ \ {u}]
        /\ \/ /\ groups' = IF u \in job[r].known[job[r].cap] THEN groups
                           ELSE WithoutMember(job[r].group, u)
              /\ UNCHANGED faults
           \/ /\ MailUnread(u)
              /\ groups' = WithoutMember(job[r].group, u)
           \/ /\ u \notin job[r].known[job[r].cap]
              /\ Fault                                               \* 403
              /\ UNCHANGED groups
     \/ /\ Fault
        /\ groups' \in {groups, IF u \in job[r].known[job[r].cap] THEN groups
                                ELSE WithoutMember(job[r].group, u)}
        /\ Return(r)
  /\ UNCHANGED world

Finish(r) ==
  /\ BetweenCapabilities(r)
  /\ job[r].todo = {}
  /\ Return(r)
  /\ UNCHANGED <<world, groups, faults>>

\* The context is cancelled between two iterations, a call whose error ends the
\* run before anything is written fails, or the process dies.
Killed(r) ==
  /\ job[r].phase # "idle"
  /\ Fault
  /\ Return(r)
  /\ UNCHANGED <<world, groups>>

Step(r) ==
  \/ GetCapabilities(r)
  \/ ListMembers(r)
  \/ \E g \in job[r].victims : EliminateDuplicate(r, g)
  \/ ListAgain(r)
  \/ \E g \in job[r].fetch : FetchMembers(r, g)
  \/ AllFetched(r)
  \/ \E c \in job[r].todo : UseGroup(r, c) \/ CreateGroup(r, c)
  \/ \E u \in job[r].adds : AddMember(r, u)
  \/ \E u \in job[r].removes : RemoveMember(r, u)
  \/ Finish(r)

-----------------------------------------------------------------------------
(* The rest of the world (external) *)

Churn == churn < MaxChurn /\ churn' = churn + 1

\* The capability service: a capability appears, changes its members or goes.
ServiceChange ==
  /\ Churn
  /\ \E c \in Capabilities :
       \/ \E S \in SUBSET Users :
            capabilities' = [d \in DOMAIN capabilities \cup {c} |->
                               IF d = c THEN S ELSE capabilities[d]]
       \/ /\ c \in DOMAIN capabilities
          /\ capabilities' = [d \in DOMAIN capabilities \ {c} |-> capabilities[d]]
  /\ UNCHANGED <<groups, nextId, job, faults>>

\* The event handlers, or an administrator, add or remove a member.
DirectoryChange ==
  /\ Churn
  /\ \E g \in DOMAIN groups, u \in Directory :
       groups' \in {WithMember(g, u), WithoutMember(g, u)}
  /\ UNCHANGED <<capabilities, nextId, job, faults>>

Next ==
  \/ \E r \in Runners : Step(r) \/ Killed(r)
  \/ ServiceChange
  \/ DirectoryChange

Spec     == Init /\ [][Next]_vars
\* The scheduler starts the job again and again, and a run goes on by itself.
FairSpec == Spec /\ \A r \in Runners : WF_vars(Step(r))

-----------------------------------------------------------------------------
(* Properties *)

\* The oldest group of a capability is never deleted, whatever fails and
\* however many runs eliminate duplicates at once: a capability that has a
\* group keeps one, with the members it had the longest.
OldestGroupKept ==
  [][\A g \in DOMAIN groups :
       (\A h \in GroupsOf(groups[g].cap) : g <= h) => g \in DOMAIN groups']_vars

\* Why it holds: a group that any run is about to delete has, at that moment, an
\* elder of the same name that exists, even if another run has meanwhile
\* deleted the elder it was compared with.
VictimsHaveElders ==
  \A r \in Runners : \A v \in job[r].victims \cap DOMAIN groups :
    \E h \in GroupsOf(groups[v].cap) : h < v

\* While it is the only run, the handler writes to no group that the
\* elimination of duplicates has deleted: that is what the second listing of
\* the unit is for.
CachedGroupsExist ==
  \A r \in Runners : \A c \in DOMAIN job[r].azure :
    job[r].azure[c].id \in DOMAIN groups

\* Without failures, a run that has got past the elimination works on
\* capabilities with at most one group each.
NoDuplicatesLeft ==
  \A r \in Runners : job[r].phase \in {"fetch", "sync"} /\ faults = 0 =>
    \A c \in DOMAIN job[r].known : Cardinality(GroupsOf(c)) <= 1

\* Every capability has exactly one group, whose members are its members that
\* have an account.
InSync ==
  \A c \in DOMAIN capabilities :
    /\ Cardinality(GroupsOf(c)) = 1
    /\ \A g \in GroupsOf(c) : groups[g].members = capabilities[c] \cap Directory

\* Once nothing fails and nothing changes any more, the groups become what the
\* capability service says and stay so.
Converges == <>[]InSync
=============================================================================
