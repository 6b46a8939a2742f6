-------------------------- MODULE MemberEvents_proofs --------------------------
(***************************************************************************)
(* Theorems about CapSvc2Aad and MemberEvents, for any users, groups, runs *)
(* and events.  First the job by itself (Spec), then the job beside the    *)
(* event handlers (MemberSpec).                                            *)
(***************************************************************************)
EXTENDS MemberEvents, FiniteSetTheorems, TLAPS

-----------------------------------------------------------------------------
(* Lemmas about the operators of the module *)

\* A partial function is typed by its own domain.
LEMMA PartialFcn ==
  ASSUME NEW f, NEW S, NEW T
  PROVE  IsPartialFcn(f, S, T) <=> DOMAIN f \subseteq S /\ f \in [DOMAIN f -> T]
BY DEF IsPartialFcn

\* A run with no local state left is well typed.
LEMMA IdleOK == RunOK(Idle)
<1>1. EmptyFcn \in [{} -> SUBSET Users] /\ EmptyFcn \in [{} -> Cached]
  BY DEF EmptyFcn
<1>2. Idle.listing \in [GroupIds -> Capabilities \cup {NoCapability}]
  BY DEF Idle
<1> QED
  BY <1>1, <1>2 DEF RunOK, Idle, Phases, IsPartialFcn

\* Each write to the unit leaves a set of groups.
LEMMA WithGroupTyped ==
  ASSUME IsPartialFcn(groups, GroupIds, Group),
         NEW g \in GroupIds, NEW c \in Capabilities
  PROVE  IsPartialFcn(WithGroup(g, c), GroupIds, Group)
<1>1. WithGroup(g, c) \in [DOMAIN groups \cup {g} -> Group]
  BY PartialFcn DEF WithGroup, Group
<1> QED
  BY <1>1, PartialFcn

LEMMA WithoutGroupTyped ==
  ASSUME IsPartialFcn(groups, GroupIds, Group), NEW g
  PROVE  IsPartialFcn(WithoutGroup(g), GroupIds, Group)
<1>1. WithoutGroup(g) \in [DOMAIN groups \ {g} -> Group]
  BY PartialFcn DEF WithoutGroup
<1> QED
  BY <1>1, PartialFcn

LEMMA SetMembersTyped ==
  ASSUME IsPartialFcn(groups, GroupIds, Group),
         NEW g, NEW S \in SUBSET Directory
  PROVE  IsPartialFcn(SetMembers(g, S), GroupIds, Group)
<1>1. SetMembers(g, S) \in [DOMAIN groups -> Group]
  BY PartialFcn DEF SetMembers, Group
<1> QED
  BY <1>1, PartialFcn

LEMMA MemberTyped ==
  ASSUME IsPartialFcn(groups, GroupIds, Group), NEW g
  PROVE  /\ \A u \in Directory : IsPartialFcn(WithMember(g, u), GroupIds, Group)
         /\ \A u : IsPartialFcn(WithoutMember(g, u), GroupIds, Group)
<1>1. g \in DOMAIN groups => groups[g].members \in SUBSET Directory
  BY PartialFcn DEF Group
<1> QED
  BY <1>1, SetMembersTyped DEF WithMember, WithoutMember

\* Storing a fetched group keeps groupsInAzure well typed.
LEMMA StoreTyped ==
  ASSUME NEW azure, IsPartialFcn(azure, Capabilities, Cached),
         NEW c \in Capabilities, NEW g \in GroupIds, NEW S \in SUBSET Directory
  PROVE  IsPartialFcn(Store(azure, c, g, S), Capabilities, Cached)
<1>1. Store(azure, c, g, S) \in [DOMAIN azure \cup {c} -> Cached]
  BY PartialFcn DEF Store, Cached
<1> QED
  BY <1>1, PartialFcn

-----------------------------------------------------------------------------
(* Type correctness *)

LEMMA TypeInit == Init => TypeOK
<1> SUFFICES ASSUME Init PROVE TypeOK
  OBVIOUS
<1>1. IsPartialFcn(capabilities, Capabilities, SUBSET Users)
  BY DEF Init, IsPartialFcn
<1>2. IsPartialFcn(groups, GroupIds, Group) /\ nextId \in 1..(MaxGroups + 1)
  BY BoundsAssumption DEF Init, IsPartialFcn, GroupIds
<1>3. DOMAIN job = Runners /\ \A r \in Runners : RunOK(job[r])
  BY IdleOK DEF Init
<1> QED
  BY <1>1, <1>2, <1>3, BoundsAssumption DEF Init, TypeOK

\* The first listing, with the names of the groups that must go.
LEMMA ListingTyped ==
  ASSUME TypeOK, NEW ids \in SUBSET DOMAIN groups, NEW known
  PROVE  /\ ids \subseteq GroupIds
         /\ Listing(ids) \in [GroupIds -> Capabilities \cup {NoCapability}]
         /\ Excess(Listing(ids), known) \subseteq GroupIds
         /\ \A g \in ids : Listing(ids)[g] \in Capabilities
BY PartialFcn DEF TypeOK, Listing, Excess, Group

\* A run that returns leaves its local state idle.
LEMMA ReturnTyped ==
  ASSUME TypeOK, NEW r \in Runners, Return(r)
  PROVE  DOMAIN job' = Runners /\ \A q \in Runners : RunOK(job'[q])
BY IdleOK DEF TypeOK, Return

\* A step of a run keeps the local states typed.
LEMMA JobStep ==
  ASSUME TypeOK, NEW r \in Runners, Step(r)
  PROVE  DOMAIN job' = Runners /\ \A q \in Runners : RunOK(job'[q])
<1>0. DOMAIN job = Runners /\ RunOK(job[r]) /\ \A q \in Runners : RunOK(job[q])
  BY DEF TypeOK
<1>1. CASE GetCapabilities(r)
  <2>1. RunOK([Idle EXCEPT !.phase = "list", !.known = capabilities])
    <3>1. Idle.todo = {} /\ DOMAIN Idle = DOMAIN [Idle EXCEPT !.phase = "list"]
      BY DEF Idle
    <3> QED
      BY <3>1, IdleOK DEF RunOK, Phases, TypeOK
  <2> QED
    BY <1>0, <1>1, <2>1 DEF GetCapabilities
<1>2. CASE ListMembers(r)
  <2> DEFINE listing(ids) == Listing(ids)
             victims(ids) == Excess(listing(ids), job[r].known)
  <2>1. PICK ids \in SUBSET DOMAIN groups :
          job' = [job EXCEPT ![r].phase = "eliminate",
                             ![r].listing = listing(ids),
                             ![r].victims = victims(ids)]
    BY <1>2 DEF ListMembers
  <2>3. /\ listing(ids) \in [GroupIds -> Capabilities \cup {NoCapability}]
        /\ victims(ids) \subseteq GroupIds
    BY ListingTyped
  <2> HIDE DEF listing, victims
  <2>2. RunOK(job'[r])
    BY <1>0, <2>1, <2>3 DEF RunOK, Phases
  <2> QED
    BY <1>0, <2>1, <2>2
<1>3. ASSUME NEW g \in job[r].victims, EliminateDuplicate(r, g)
      PROVE  DOMAIN job' = Runners /\ \A q \in Runners : RunOK(job'[q])
  <2>1. CASE Return(r)
    BY <2>1, ReturnTyped
  <2>2. CASE job' = [job EXCEPT ![r].victims = @ \ {g},
                                ![r].cap = job[r].listing[g]]
    <3>1. g \in GroupIds
      BY <1>0 DEF RunOK
    <3>2. RunOK(job'[r])
      BY <1>0, <2>2, <3>1 DEF RunOK
    <3> QED
      BY <1>0, <2>2, <3>2
  <2> QED
    BY <1>3, <2>1, <2>2 DEF EliminateDuplicate
<1>4. CASE ListAgain(r)
  <2> DEFINE listing(ids) == Listing(ids)
  <2>1. PICK ids \in SUBSET DOMAIN groups :
          job' = [job EXCEPT ![r].phase = "fetch", ![r].listing = listing(ids),
                             ![r].fetch = ids, ![r].cap = NoCapability]
    BY <1>4 DEF ListAgain
  <2>3. /\ ids \subseteq GroupIds
        /\ listing(ids) \in [GroupIds -> Capabilities \cup {NoCapability}]
        /\ \A g \in ids : listing(ids)[g] \in Capabilities
    BY ListingTyped
  <2> HIDE DEF listing
  <2>2. RunOK(job'[r])
    BY <1>0, <2>1, <2>3 DEF RunOK, Phases
  <2> QED
    BY <1>0, <2>1, <2>2
<1>5. ASSUME NEW g \in job[r].fetch, FetchMembers(r, g)
      PROVE  DOMAIN job' = Runners /\ \A q \in Runners : RunOK(job'[q])
  <2>1. g \in GroupIds /\ job[r].listing[g] \in Capabilities
    BY <1>0, <1>5 DEF RunOK, FetchMembers
  <2>2. CASE job' = [job EXCEPT ![r].fetch = @ \ {g}]
    <3>1. RunOK(job'[r])
      BY <1>0, <2>2 DEF RunOK
    <3> QED
      BY <1>0, <2>2, <3>1
  <2>3. ASSUME NEW S \in SUBSET Directory,
               job' = [job EXCEPT ![r].fetch = @ \ {g},
                                  ![r].azure = Store(@, job[r].listing[g], g, S)]
        PROVE  DOMAIN job' = Runners /\ \A q \in Runners : RunOK(job'[q])
    <3>1. IsPartialFcn(Store(job[r].azure, job[r].listing[g], g, S),
                       Capabilities, Cached)
      BY <1>0, <2>1, StoreTyped DEF RunOK
    <3>2. RunOK(job'[r])
      BY <1>0, <2>3, <3>1 DEF RunOK
    <3> QED
      BY <1>0, <2>3, <3>2
  <2>4. \A S \in IF g \in DOMAIN groups THEN FirstPage(groups[g].members) ELSE {{}} :
          S \in SUBSET Directory
    BY PartialFcn DEF TypeOK, Group, FirstPage
  <2> QED
    BY <1>5, <2>2, <2>3, <2>4 DEF FetchMembers
<1>6. CASE AllFetched(r)
  <2>1. RunOK(job'[r])
    BY <1>0, <1>6, PartialFcn DEF AllFetched, RunOK, Phases
  <2> QED
    BY <1>0, <1>6, <2>1 DEF AllFetched
<1>7. ASSUME NEW c \in job[r].todo, UseGroup(r, c)
      PROVE  DOMAIN job' = Runners /\ \A q \in Runners : RunOK(job'[q])
  <2> DEFINE cached == job[r].azure[c]
             wanted == job[r].known[c]
  <2>1. c \in Capabilities /\ cached \in Cached
    BY <1>0, <1>7, PartialFcn DEF RunOK, UseGroup
  <2>2. ToAdd(wanted, cached.members) \in SUBSET Users
    BY <1>0, <1>7, PartialFcn DEF ToAdd, RunOK, UseGroup
  <2>3. ToRemove(wanted, cached.members) \in SUBSET Users
    BY <2>1, UsersAssumption DEF ToRemove, Cached
  <2>4. RunOK(job'[r])
    BY <1>0, <1>7, <2>1, <2>2, <2>3 DEF RunOK, UseGroup, Cached
  <2> QED
    BY <1>0, <1>7, <2>4 DEF UseGroup
<1>8. ASSUME NEW c \in job[r].todo, CreateGroup(r, c)
      PROVE  DOMAIN job' = Runners /\ \A q \in Runners : RunOK(job'[q])
  <2>1. CASE Return(r)
    BY <2>1, ReturnTyped
  <2>2. CASE job' = [job EXCEPT ![r].todo = @ \ {c}, ![r].cap = c,
                                ![r].group = nextId,
                                ![r].adds = job[r].known[c]]
    <3>1. c \in Capabilities
      BY <1>0, PartialFcn DEF RunOK
    <3>4. nextId \in GroupIds
      BY <1>8, BoundsAssumption DEF CreateGroup, TypeOK, GroupIds
    <3>2. job[r].known[c] \in SUBSET Users
      BY <1>0, PartialFcn DEF RunOK
    <3>3. RunOK(job'[r])
      BY <1>0, <1>8, <2>2, <3>1, <3>2, <3>4 DEF RunOK, CreateGroup, BetweenCapabilities
    <3> QED
      BY <1>0, <2>2, <3>3
  <2> QED
    BY <1>8, <2>1, <2>2 DEF CreateGroup
<1>9. ASSUME NEW u \in job[r].adds, AddMember(r, u)
      PROVE  DOMAIN job' = Runners /\ \A q \in Runners : RunOK(job'[q])
  <2>1. CASE Return(r)
    BY <2>1, ReturnTyped
  <2>2. CASE job' = [job EXCEPT ![r].adds = @ \ {u}]
    <3>1. RunOK(job'[r])
      BY <1>0, <2>2 DEF RunOK
    <3> QED
      BY <1>0, <2>2, <3>1
  <2> QED
    BY <1>9, <2>1, <2>2 DEF AddMember
<1>10. ASSUME NEW u \in job[r].removes, RemoveMember(r, u)
       PROVE  DOMAIN job' = Runners /\ \A q \in Runners : RunOK(job'[q])
  <2>1. CASE Return(r)
    BY <2>1, ReturnTyped
  <2>2. CASE job' = [job EXCEPT ![r].removes = @ \ {u}]
    <3>1. RunOK(job'[r])
      BY <1>0, <2>2 DEF RunOK
    <3> QED
      BY <1>0, <2>2, <3>1
  <2> QED
    BY <1>10, <2>1, <2>2 DEF RemoveMember
<1> QED
  BY <1>1, <1>2, <1>3, <1>4, <1>5, <1>6, <1>7, <1>8, <1>9,
     <1>10, ReturnTyped DEF Step, Finish
\* A step of a run leaves a set of groups in the unit.
LEMMA GroupsStep ==
  ASSUME TypeOK, NEW r \in Runners, Step(r)
  PROVE  /\ IsPartialFcn(groups', GroupIds, Group)
         /\ nextId' \in 1..(MaxGroups + 1)
<1>0. IsPartialFcn(groups, GroupIds, Group) /\ RunOK(job[r])
  BY DEF TypeOK
<1>1. ASSUME NEW g \in job[r].victims, EliminateDuplicate(r, g)
      PROVE  IsPartialFcn(groups', GroupIds, Group) /\ nextId' = nextId
  BY <1>0, <1>1, WithoutGroupTyped DEF EliminateDuplicate, world
<1>2. ASSUME NEW c \in job[r].todo, CreateGroup(r, c)
      PROVE  /\ IsPartialFcn(groups', GroupIds, Group)
             /\ nextId' \in {nextId, nextId + 1} /\ nextId <= MaxGroups
  <2>1. c \in Capabilities
    BY <1>0, PartialFcn DEF RunOK
  <2>2. nextId \in GroupIds
    BY <1>2, BoundsAssumption DEF CreateGroup, TypeOK, GroupIds
  <2> QED
    BY <1>0, <1>2, <2>1, <2>2, WithGroupTyped DEF CreateGroup
<1>3. ASSUME NEW u \in job[r].adds, AddMember(r, u)
      PROVE  IsPartialFcn(groups', GroupIds, Group) /\ nextId' = nextId
  BY <1>0, <1>3, MemberTyped DEF AddMember, world
<1>4. ASSUME NEW u \in job[r].removes, RemoveMember(r, u)
      PROVE  IsPartialFcn(groups', GroupIds, Group) /\ nextId' = nextId
  BY <1>0, <1>4, MemberTyped DEF RemoveMember, world
<1>5. ASSUME \/ GetCapabilities(r) \/ ListMembers(r) \/ ListAgain(r) \/ AllFetched(r)
             \/ Finish(r) \/ \E g \in job[r].fetch : FetchMembers(r, g)
             \/ \E c \in job[r].todo : UseGroup(r, c)
      PROVE  groups' = groups /\ nextId' = nextId
  BY <1>5
  DEF GetCapabilities, ListMembers, ListAgain, FetchMembers, AllFetched,
      UseGroup, Finish, world
<1>6. nextId \in 1..(MaxGroups + 1) /\ MaxGroups \in Nat
  BY BoundsAssumption DEF TypeOK
<1>7. nextId <= MaxGroups => nextId + 1 \in 1..(MaxGroups + 1)
  BY <1>6
<1>8. /\ IsPartialFcn(groups', GroupIds, Group)
      /\ \/ nextId' = nextId
         \/ nextId' = nextId + 1 /\ nextId <= MaxGroups
  BY <1>0, <1>1, <1>2, <1>3, <1>4, <1>5 DEF Step
<1> QED
  BY <1>6, <1>7, <1>8

\* A step of a run changes neither the service nor the count of changes, and
\* stays within the bound on failures.
LEMMA RestStep ==
  ASSUME TypeOK, NEW r \in Runners, Step(r)
  PROVE  /\ UNCHANGED <<capabilities, churn>>
         /\ UNCHANGED faults \/ Fault
         /\ faults' \in 0..MaxFaults
<1>1. UNCHANGED <<capabilities, churn>>
  BY DEF Step, GetCapabilities, ListMembers, EliminateDuplicate, ListAgain,
         FetchMembers, AllFetched, UseGroup, CreateGroup, AddMember,
         RemoveMember, Finish, world
<1>2. UNCHANGED faults \/ Fault
  BY DEF Step, GetCapabilities, ListMembers, Listed, EliminateDuplicate,
         ListAgain, FetchMembers, AllFetched, UseGroup, CreateGroup, AddMember,
         RemoveMember, MailUnread, Finish
<1> QED
  BY <1>1, <1>2, BoundsAssumption DEF TypeOK, Fault

LEMMA TypeNext == TypeOK /\ [Next]_vars => TypeOK'
<1> SUFFICES ASSUME TypeOK, [Next]_vars PROVE TypeOK'
  OBVIOUS
<1>1. ASSUME NEW r \in Runners, Step(r) PROVE TypeOK'
  BY <1>1, JobStep, GroupsStep, RestStep DEF TypeOK
<1>2. ASSUME NEW r \in Runners, Killed(r) PROVE TypeOK'
  BY <1>2, ReturnTyped, BoundsAssumption DEF TypeOK, Killed, Fault, world
<1>3. CASE ServiceChange
  <2>1. IsPartialFcn(capabilities', Capabilities, SUBSET Users)
    <3>1. IsPartialFcn(capabilities, Capabilities, SUBSET Users)
      BY DEF TypeOK
    <3>2. ASSUME NEW c \in Capabilities, NEW S \in SUBSET Users,
                 capabilities' = [d \in DOMAIN capabilities \cup {c} |->
                                    IF d = c THEN S ELSE capabilities[d]]
          PROVE  IsPartialFcn(capabilities', Capabilities, SUBSET Users)
      BY <3>1, <3>2, PartialFcn
    <3>3. ASSUME NEW c \in Capabilities,
                 capabilities' = [d \in DOMAIN capabilities \ {c} |->
                                    capabilities[d]]
          PROVE  IsPartialFcn(capabilities', Capabilities, SUBSET Users)
      BY <3>1, <3>3, PartialFcn
    <3> QED
      BY <1>3, <3>2, <3>3 DEF ServiceChange
  <2> QED
    BY <1>3, <2>1, BoundsAssumption DEF TypeOK, ServiceChange, Churn
<1>4. CASE DirectoryChange
  <2>1. IsPartialFcn(groups', GroupIds, Group)
    BY <1>4, MemberTyped DEF TypeOK, DirectoryChange
  <2> QED
    BY <1>4, <2>1, BoundsAssumption DEF TypeOK, DirectoryChange, Churn
<1>5. CASE UNCHANGED vars
  BY <1>5 DEF TypeOK, vars
<1> QED
  BY <1>1, <1>2, <1>3, <1>4, <1>5 DEF Next

\* Every reachable state is well typed: in particular a run only ever looks up
\* capabilities it has read, and only fetches groups it has seen listed.
THEOREM TypeCorrect == Spec => []TypeOK
<1>1. Init => TypeOK
  BY TypeInit
<1>2. TypeOK /\ [Next]_vars => TypeOK'
  BY TypeNext
<1> QED
  BY <1>1, <1>2, PTL DEF Spec

-----------------------------------------------------------------------------
(* The oldest group of a capability is never deleted *)

\* Ids are handed out once: neither a group nor a group about to be deleted has
\* an id that is still to come.
IdsUsed ==
  /\ \A g \in DOMAIN groups : g < nextId
  /\ \A r \in Runners : \A v \in job[r].victims : v < nextId

EliminationInv == TypeOK /\ IdsUsed /\ VictimsHaveElders

\* What every write to the unit has in common: names stay, a new group gets a
\* new id, and at most one group goes, which has an elder.
SafeWrite ==
  /\ \A g \in DOMAIN groups \cap DOMAIN groups' : groups'[g].cap = groups[g].cap
  /\ DOMAIN groups' \subseteq DOMAIN groups \cup {nextId}
  /\ nextId' = nextId \/ nextId' = nextId + 1
  /\ nextId \in DOMAIN groups' => nextId' = nextId + 1
  /\ \A w \in DOMAIN groups \ DOMAIN groups' :
       /\ DOMAIN groups \ {w} \subseteq DOMAIN groups'
       /\ \E e \in GroupsOf(groups[w].cap) : e < w

LEMMA GroupWrites ==
  ASSUME EliminationInv
  PROVE  /\ UNCHANGED <<groups, nextId>> => SafeWrite
         /\ \A g, u : groups' = WithMember(g, u) /\ nextId' = nextId => SafeWrite
         /\ \A g, u : groups' = WithoutMember(g, u) /\ nextId' = nextId => SafeWrite
         /\ \A c : groups' = WithGroup(nextId, c) /\ nextId' = nextId + 1 => SafeWrite
         /\ \A r \in Runners : \A g \in job[r].victims :
              groups' = WithoutGroup(g) /\ nextId' = nextId => SafeWrite
<1>0. nextId \in Nat /\ nextId \notin DOMAIN groups
  BY BoundsAssumption DEF EliminationInv, IdsUsed, TypeOK
<1>1. ASSUME UNCHANGED <<groups, nextId>> PROVE SafeWrite
  BY <1>0, <1>1 DEF SafeWrite
<1>2. ASSUME NEW g, NEW S, groups' = SetMembers(g, S), nextId' = nextId
      PROVE  SafeWrite
  BY <1>0, <1>2 DEF SafeWrite, SetMembers
<1>3. ASSUME NEW c, groups' = WithGroup(nextId, c), nextId' = nextId + 1
      PROVE  SafeWrite
  BY <1>0, <1>3 DEF SafeWrite, WithGroup
<1>4. ASSUME NEW r \in Runners, NEW g \in job[r].victims,
             groups' = WithoutGroup(g), nextId' = nextId
      PROVE  SafeWrite
  BY <1>0, <1>4 DEF SafeWrite, WithoutGroup, EliminationInv, VictimsHaveElders
<1>5. ASSUME NEW g, NEW u, nextId' = nextId,
             groups' = WithMember(g, u) \/ groups' = WithoutMember(g, u)
      PROVE  SafeWrite
  BY <1>1, <1>2, <1>5 DEF WithMember, WithoutMember
<1> QED
  BY <1>1, <1>3, <1>4, <1>5

LEMMA StepWrites ==
  ASSUME EliminationInv, [Next]_vars
  PROVE  SafeWrite
<1>1. ASSUME NEW r \in Runners, Step(r) PROVE SafeWrite
  <2>1. ASSUME NEW g \in job[r].victims, EliminateDuplicate(r, g) PROVE SafeWrite
    BY <2>1, GroupWrites DEF EliminateDuplicate, world
  <2>2. ASSUME NEW c \in job[r].todo, CreateGroup(r, c) PROVE SafeWrite
    BY <2>2, GroupWrites DEF CreateGroup
  <2>3. ASSUME NEW u \in job[r].adds, AddMember(r, u) PROVE SafeWrite
    BY <2>3, GroupWrites DEF AddMember, world
  <2>4. ASSUME NEW u \in job[r].removes, RemoveMember(r, u) PROVE SafeWrite
    BY <2>4, GroupWrites DEF RemoveMember, world
  <2>5. UNCHANGED <<groups, nextId>> => SafeWrite
    BY GroupWrites
  <2> QED
    BY <1>1, <2>1, <2>2, <2>3, <2>4, <2>5
    DEF Step, GetCapabilities, ListMembers, ListAgain, FetchMembers,
        AllFetched, UseGroup, Finish, world
<1>2. ASSUME NEW r \in Runners, Killed(r) PROVE SafeWrite
  BY <1>2, GroupWrites DEF Killed, world
<1>3. CASE ServiceChange
  BY <1>3, GroupWrites DEF ServiceChange
<1>4. CASE DirectoryChange
  BY <1>4, GroupWrites DEF DirectoryChange
<1>5. CASE UNCHANGED vars
  BY <1>5, GroupWrites DEF vars
<1> QED
  BY <1>1, <1>2, <1>3, <1>4, <1>5 DEF Next

\* A safe write leaves an elder to every group that had one.
LEMMA ElderKept ==
  ASSUME EliminationInv, SafeWrite,
         NEW v \in DOMAIN groups \cap DOMAIN groups',
         NEW h \in GroupsOf(groups[v].cap), h < v
  PROVE  \E e \in DOMAIN groups' : groups'[e].cap = groups'[v].cap /\ e < v
<1>1. h \in DOMAIN groups /\ groups[h].cap = groups[v].cap
  BY DEF GroupsOf
<1>2. CASE h \in DOMAIN groups'
  BY <1>1, <1>2 DEF SafeWrite
<1>3. CASE h \notin DOMAIN groups'
  <2>1. PICK e \in GroupsOf(groups[h].cap) : e < h
    BY <1>1, <1>3 DEF SafeWrite
  <2>2. e \in DOMAIN groups /\ groups[e].cap = groups[v].cap
    BY <1>1, <2>1 DEF GroupsOf
  <2>3. e \in Nat /\ h \in Nat /\ v \in Nat
    <3>1. DOMAIN groups \subseteq GroupIds
      BY PartialFcn DEF EliminationInv, TypeOK
    <3> QED
      BY <1>1, <2>2, <3>1, BoundsAssumption DEF GroupIds
  <2>4. e \in DOMAIN groups' /\ e < v
    BY <1>1, <1>3, <2>1, <2>2, <2>3 DEF SafeWrite
  <2> QED
    BY <2>2, <2>4 DEF SafeWrite
<1> QED
  BY <1>2, <1>3

\* Every other step of a run forgets victims at most.
LEMMA VictimsShrink ==
  ASSUME DOMAIN job = Runners, NEW r \in Runners, Step(r)
  PROVE  \/ GetCapabilities(r) \/ ListMembers(r) \/ Return(r)
         \/ job'[r].victims \subseteq job[r].victims
<1>1. ASSUME NEW g, EliminateDuplicate(r, g)
      PROVE  Return(r) \/ job'[r].victims \subseteq job[r].victims
  <2>1. ASSUME job' = [job EXCEPT ![r].victims = @ \ {g},
                                  ![r].cap = job[r].listing[g]]
        PROVE  job'[r].victims \subseteq job[r].victims
    BY <2>1
  <2> QED
    BY <1>1, <2>1 DEF EliminateDuplicate
<1>2. ASSUME ListAgain(r) PROVE job'[r].victims = job[r].victims
  BY <1>2 DEF ListAgain
<1>3. ASSUME NEW g, FetchMembers(r, g) PROVE job'[r].victims = job[r].victims
  <2>1. ASSUME job' = [job EXCEPT ![r].fetch = @ \ {g}]
        PROVE  job'[r].victims = job[r].victims
    BY <2>1
  <2>2. ASSUME NEW S,
               job' = [job EXCEPT ![r].fetch = @ \ {g},
                                  ![r].azure = Store(@, job[r].listing[g], g, S)]
        PROVE  job'[r].victims = job[r].victims
    BY <2>2
  <2> QED
    BY <1>3, <2>1, <2>2 DEF FetchMembers
<1>4. ASSUME AllFetched(r) PROVE job'[r].victims = job[r].victims
  BY <1>4 DEF AllFetched
<1>5. ASSUME NEW c, UseGroup(r, c) PROVE job'[r].victims = job[r].victims
  BY <1>5 DEF UseGroup
<1>6. ASSUME NEW c, CreateGroup(r, c)
      PROVE  Return(r) \/ job'[r].victims = job[r].victims
  <2>1. ASSUME job' = [job EXCEPT ![r].todo = @ \ {c}, ![r].cap = c,
                                  ![r].group = nextId,
                                  ![r].adds = job[r].known[c]]
        PROVE  job'[r].victims = job[r].victims
    BY <2>1
  <2> QED
    BY <1>6, <2>1 DEF CreateGroup
<1>7. ASSUME NEW u, AddMember(r, u) \/ RemoveMember(r, u)
      PROVE  Return(r) \/ job'[r].victims = job[r].victims
  <2>1. ASSUME job' = [job EXCEPT ![r].adds = @ \ {u}]
        PROVE  job'[r].victims = job[r].victims
    BY <2>1
  <2>2. ASSUME job' = [job EXCEPT ![r].removes = @ \ {u}]
        PROVE  job'[r].victims = job[r].victims
    BY <2>2
  <2> QED
    BY <1>7, <2>1, <2>2 DEF AddMember, RemoveMember
<1> QED
  BY <1>1, <1>2, <1>3, <1>4, <1>5, <1>6, <1>7 DEF Step, Finish

\* Only a first listing gives a run victims, and then they have elders.
LEMMA VictimsStep ==
  ASSUME EliminationInv, [Next]_vars, NEW r \in Runners,
         NEW v \in job'[r].victims
  PROVE  \/ v \in job[r].victims
         \/ /\ v \in DOMAIN groups /\ UNCHANGED groups
            /\ \E h \in GroupsOf(groups[v].cap) : h < v
<1>0. DOMAIN job = Runners /\ \A q \in Runners : RunOK(job[q])
  BY DEF EliminationInv, TypeOK
<1>1. /\ Idle.victims = {}
      /\ [Idle EXCEPT !.phase = "list", !.known = capabilities].victims = {}
  BY DEF Idle
<1>2. CASE job'[r] = job[r]
  BY <1>2
<1>3. CASE Return(r) \/ GetCapabilities(r)
  BY <1>0, <1>1, <1>3 DEF Return, GetCapabilities
<1>4. CASE ListMembers(r)
  <2> DEFINE excess(ids) == Excess(Listing(ids), job[r].known)
  <2>1. PICK ids \in SUBSET DOMAIN groups :
          job' = [job EXCEPT ![r].phase = "eliminate",
                             ![r].listing = Listing(ids),
                             ![r].victims = excess(ids)]
    BY <1>4 DEF ListMembers
  <2>2. v \in excess(ids)
    BY <1>0, <2>1
  <2>3. NoCapability \notin DOMAIN job[r].known
    BY <1>0, PartialFcn, CapabilityAssumption DEF RunOK
  <2>4. PICK h \in GroupIds : Listing(ids)[h] = Listing(ids)[v] /\ h < v
    BY <2>2 DEF Excess
  <2>5. v \in GroupIds /\ Listing(ids)[v] # NoCapability
    BY <2>2, <2>3 DEF Excess
  <2>6. v \in ids /\ h \in ids /\ groups[h].cap = groups[v].cap
    BY <2>4, <2>5 DEF Listing
  <2>7. UNCHANGED groups
    BY <1>4 DEF ListMembers
  <2> QED
    BY <2>4, <2>6, <2>7 DEF GroupsOf
<1>5. CASE job'[r].victims \subseteq job[r].victims
  BY <1>5
<1>6. ASSUME NEW q \in Runners, q # r, Step(q) \/ Killed(q)
      PROVE  job'[r] = job[r]
  BY <1>0, <1>6
  DEF Step, Killed, Return, GetCapabilities, ListMembers, EliminateDuplicate,
      ListAgain, FetchMembers, AllFetched, UseGroup, CreateGroup, AddMember,
      RemoveMember, Finish
<1>7. Step(r) => \/ GetCapabilities(r) \/ ListMembers(r) \/ Return(r)
                 \/ job'[r].victims \subseteq job[r].victims
  BY <1>0, VictimsShrink
<1>8. CASE Step(r) \/ Killed(r)
  BY <1>3, <1>4, <1>5, <1>7, <1>8 DEF Killed
<1>9. CASE ServiceChange \/ DirectoryChange \/ UNCHANGED vars
  BY <1>2, <1>9 DEF ServiceChange, DirectoryChange, vars
<1> QED
  BY <1>2, <1>6, <1>8, <1>9 DEF Next

LEMMA EliminationInit == Init => EliminationInv
<1> SUFFICES ASSUME Init PROVE EliminationInv
  OBVIOUS
<1>1. \A r \in Runners : job[r].victims = {}
  BY DEF Init, Idle
<1>2. \A g \in DOMAIN groups : g < nextId
  BY BoundsAssumption DEF Init
<1> QED
  BY <1>1, <1>2, TypeInit DEF EliminationInv, IdsUsed, VictimsHaveElders

\* A safe write keeps what the elimination of duplicates relies on, as long as
\* every new victim has an elder.
LEMMA EliminationKept ==
  ASSUME EliminationInv, SafeWrite, TypeOK',
         \A r \in Runners : \A v \in job'[r].victims :
           \/ v \in job[r].victims
           \/ /\ v \in DOMAIN groups /\ UNCHANGED groups
              /\ \E h \in GroupsOf(groups[v].cap) : h < v
  PROVE  EliminationInv'
<1>3. nextId \in Nat /\ DOMAIN groups \subseteq Nat
  BY PartialFcn, BoundsAssumption DEF EliminationInv, TypeOK, GroupIds
<1>4. ASSUME NEW r \in Runners PROVE job[r].victims \subseteq Nat
  <2>1. RunOK(job[r])
    BY DEF EliminationInv, TypeOK
  <2> QED
    BY <2>1, BoundsAssumption DEF RunOK, GroupIds
<1>5. ASSUME NEW r \in Runners, NEW v \in job'[r].victims PROVE v < nextId'
  <2>1. v < nextId /\ v \in Nat
    BY <1>3, <1>4, <1>5 DEF EliminationInv, IdsUsed
  <2> QED
    BY <1>3, <2>1 DEF SafeWrite
<1>6. ASSUME NEW g \in DOMAIN groups' PROVE g < nextId'
  BY <1>3, <1>6 DEF SafeWrite, EliminationInv, IdsUsed
<1>7. ASSUME NEW r \in Runners, NEW v \in job'[r].victims \cap DOMAIN groups'
      PROVE  \E e \in DOMAIN groups' : groups'[e].cap = groups'[v].cap /\ e < v
  <2>1. v \in DOMAIN groups
    BY <1>3, <1>4, <1>7 DEF SafeWrite, EliminationInv, IdsUsed
  <2>2. \E h \in GroupsOf(groups[v].cap) : h < v
    BY <1>7, <2>1 DEF EliminationInv, VictimsHaveElders
  <2> QED
    BY <1>7, <2>1, <2>2, ElderKept
<1> QED
  BY <1>5, <1>6, <1>7 DEF EliminationInv, IdsUsed, VictimsHaveElders, GroupsOf

LEMMA EliminationNext == EliminationInv /\ [Next]_vars => EliminationInv'
<1> SUFFICES ASSUME EliminationInv, [Next]_vars PROVE EliminationInv'
  OBVIOUS
<1>1. TypeOK'
  BY TypeNext DEF EliminationInv
<1> QED
  BY <1>1, StepWrites, VictimsStep, EliminationKept

\* A safe write takes no group that is the oldest of its name.
LEMMA OldestKept ==
  ASSUME TypeOK, SafeWrite, NEW g \in DOMAIN groups,
         \A h \in GroupsOf(groups[g].cap) : g <= h
  PROVE  g \in DOMAIN groups'
<1>1. DOMAIN groups \subseteq Nat
  BY PartialFcn, BoundsAssumption DEF TypeOK, GroupIds
<1>2. ASSUME g \notin DOMAIN groups' PROVE FALSE
  <2>1. PICK e \in GroupsOf(groups[g].cap) : e < g
    BY <1>2 DEF SafeWrite
  <2>2. e \in Nat /\ g \in Nat /\ g <= e
    BY <1>1, <2>1 DEF GroupsOf
  <2> QED
    BY <2>1, <2>2
<1> QED
  BY <1>2

\* Whatever fails and however many runs eliminate duplicates at once, a group
\* about to be deleted has an elder of the same name that exists.
THEOREM VictimsHaveEldersAlways == Spec => []VictimsHaveElders
<1>1. EliminationInv => VictimsHaveElders
  BY DEF EliminationInv
<1> QED
  BY <1>1, EliminationInit, EliminationNext, PTL DEF Spec

\* The oldest group of every capability is never deleted.
THEOREM OldestGroupKeptAlways == Spec => OldestGroupKept
<1> DEFINE Kept == \A g \in DOMAIN groups :
                     (\A h \in GroupsOf(groups[g].cap) : g <= h) => g \in DOMAIN groups'
<1>1. EliminationInv /\ [Next]_vars => [Kept]_vars
  BY StepWrites, OldestKept DEF EliminationInv
<1> QED
  BY <1>1, EliminationInit, EliminationNext, PTL DEF Spec, OldestGroupKept

-----------------------------------------------------------------------------
(* One runner by itself *)

(* The orchestrator's schedule, when nobody else runs the handler. *)
Alone == \A q, r \in Runners : q = r

(* Before the second listing a run has cached nothing; what it fetches and  *)
(* what it has cached exists among the groups gs.                           *)
HoldsExisting(run, gs) ==
  /\ run.phase \in {"idle", "list", "eliminate"} => DOMAIN run.azure = {}
  /\ run.phase = "fetch" => run.fetch \subseteq DOMAIN gs
  /\ \A c \in DOMAIN run.azure : run.azure[c].id \in DOMAIN gs

(* Of the groups gs with the name of a known capability, all but the oldest *)
(* are victims, until none is left.                                         *)
LessOne(run, gs) ==
  /\ run.phase = "eliminate" =>
       \A g, h \in DOMAIN gs :
         gs[g].cap = gs[h].cap /\ gs[g].cap \in DOMAIN run.known /\ h < g
         => g \in run.victims
  /\ run.phase \in {"fetch", "sync"} =>
       \A g, h \in DOMAIN gs :
         gs[g].cap = gs[h].cap /\ gs[g].cap \in DOMAIN run.known => g = h

(* The second listing is complete: every group is fetched and cached before *)
(* its capability is seen to.                                               *)
SeesAll(run, gs) ==
  /\ run.phase = "fetch" =>
       \A g \in DOMAIN gs : /\ run.listing[g] = gs[g].cap
                            /\ g \in run.fetch \/ gs[g].cap \in DOMAIN run.azure
  /\ run.phase = "sync" =>
       \A g \in DOMAIN gs : gs[g].cap \in run.todo => gs[g].cap \in DOMAIN run.azure

RunAlone(run, gs, failed) ==
  /\ HoldsExisting(run, gs)
  /\ failed = 0 => LessOne(run, gs) /\ SeesAll(run, gs)

AloneInv == EliminationInv /\ \A r \in Runners : RunAlone(job[r], groups, faults)

LEMMA IdleAlone ==
  ASSUME NEW gs, NEW failed, NEW known
  PROVE  /\ RunAlone(Idle, gs, failed)
         /\ RunAlone([Idle EXCEPT !.phase = "list", !.known = known], gs, failed)
BY DEF RunAlone, HoldsExisting, LessOne, SeesAll, Idle, EmptyFcn

(* The same groups, with other members. *)
SameNames(gs, hs) ==
  DOMAIN hs = DOMAIN gs /\ \A g \in DOMAIN gs : hs[g].cap = gs[g].cap

LEMMA MembersOnly ==
  ASSUME NEW g, NEW u,
         groups' \in {groups, WithMember(g, u), WithoutMember(g, u)}
  PROVE  SameNames(groups, groups')
BY DEF SameNames, WithMember, WithoutMember, SetMembers

LEMMA SameNamesAlone ==
  ASSUME NEW run, NEW gs, NEW hs, NEW failed, RunAlone(run, gs, failed), SameNames(gs, hs)
  PROVE  RunAlone(run, hs, failed)
<1>1. HoldsExisting(run, hs)
  BY DEF RunAlone, HoldsExisting, SameNames
<1>2. LessOne(run, gs) => LessOne(run, hs)
  BY DEF LessOne, SameNames
<1>3. SeesAll(run, gs) => SeesAll(run, hs)
  BY DEF SeesAll, SameNames
<1> QED
  BY <1>1, <1>2, <1>3 DEF RunAlone

\* A complete listing shows the name of every group, and then all victims.
LEMMA CompleteListing ==
  ASSUME TypeOK, NEW known
  PROVE  /\ \A g \in DOMAIN groups : Listing(DOMAIN groups)[g] = groups[g].cap
         /\ \A g, h \in DOMAIN groups :
              groups[g].cap = groups[h].cap /\ groups[g].cap \in DOMAIN known /\ h < g
              => g \in Excess(Listing(DOMAIN groups), known)
<1>1. DOMAIN groups \subseteq GroupIds
  BY PartialFcn DEF TypeOK
<1>2. \A g \in DOMAIN groups : Listing(DOMAIN groups)[g] = groups[g].cap
  BY <1>1 DEF Listing
<1> QED
  BY <1>1, <1>2 DEF Excess

LEMMA ListingsAlone ==
  ASSUME AloneInv, NEW r \in Runners, ListMembers(r) \/ ListAgain(r)
  PROVE  RunAlone(job'[r], groups', faults')
<1>0. DOMAIN job = Runners /\ RunOK(job[r]) /\ faults \in Nat
  BY BoundsAssumption DEF AloneInv, EliminationInv, TypeOK
<1>1. RunAlone(job[r], groups, faults)
  BY DEF AloneInv
<1>2. UNCHANGED groups
  BY DEF ListMembers, ListAgain
<1>3. CASE ListMembers(r)
  <2>1. PICK ids \in SUBSET DOMAIN groups :
          /\ Listed(ids)
          /\ job' = [job EXCEPT ![r].phase = "eliminate",
                                ![r].listing = Listing(ids),
                                ![r].victims = Excess(Listing(ids), job[r].known)]
    BY <1>3 DEF ListMembers
  <2> DEFINE listing == Listing(ids)
             excess  == Excess(listing, job[r].known)
  <2>2. faults' = 0 => ids = DOMAIN groups /\ UNCHANGED faults
    BY <1>0, <2>1 DEF Listed, Fault
  <2>3. /\ ids = DOMAIN groups =>
             \A g, h \in DOMAIN groups :
               groups[g].cap = groups[h].cap /\ groups[g].cap \in DOMAIN job[r].known /\ h < g
               => g \in excess
    BY CompleteListing DEF AloneInv, EliminationInv
  <2>4. job' = [job EXCEPT ![r].phase = "eliminate", ![r].listing = listing,
                           ![r].victims = excess]
    BY <2>1
  <2> HIDE DEF listing, excess
  <2>5. /\ job'[r].phase = "eliminate" /\ job'[r].victims = excess
        /\ job'[r].known = job[r].known /\ job'[r].azure = job[r].azure
    BY <1>0, <2>4 DEF RunOK, Idle
  <2>6. HoldsExisting(job'[r], groups')
    BY <1>1, <1>2, <1>3, <2>5 DEF RunAlone, HoldsExisting, ListMembers
  <2>7. faults' = 0 => LessOne(job'[r], groups') /\ SeesAll(job'[r], groups')
    BY <1>2, <2>2, <2>3, <2>5 DEF LessOne, SeesAll
  <2> QED
    BY <2>6, <2>7 DEF RunAlone
<1>4. CASE ListAgain(r)
  <2>1. PICK ids \in SUBSET DOMAIN groups :
          /\ Listed(ids)
          /\ job' = [job EXCEPT ![r].phase = "fetch", ![r].listing = Listing(ids),
                                ![r].fetch = ids, ![r].cap = NoCapability]
    BY <1>4 DEF ListAgain
  <2> DEFINE listing == Listing(ids)
  <2>2. faults' = 0 => ids = DOMAIN groups /\ UNCHANGED faults
    BY <1>0, <2>1 DEF Listed, Fault
  <2>3. ids = DOMAIN groups => \A g \in DOMAIN groups : listing[g] = groups[g].cap
    BY CompleteListing DEF AloneInv, EliminationInv
  <2>4. job' = [job EXCEPT ![r].phase = "fetch", ![r].listing = listing,
                           ![r].fetch = ids, ![r].cap = NoCapability]
    BY <2>1
  <2> HIDE DEF listing
  <2>5. /\ job'[r].phase = "fetch" /\ job'[r].listing = listing /\ job'[r].fetch = ids
        /\ job'[r].known = job[r].known /\ job'[r].azure = job[r].azure
    BY <1>0, <2>4 DEF RunOK, Idle
  <2>6. HoldsExisting(job'[r], groups')
    BY <1>1, <1>2, <1>4, <2>5 DEF RunAlone, HoldsExisting, ListAgain
  <2>7. faults' = 0 => SeesAll(job'[r], groups')
    BY <1>2, <2>2, <2>3, <2>5 DEF SeesAll
  <2>8. faults' = 0 => LessOne(job'[r], groups')
    <3>1. DOMAIN groups \subseteq Nat
      BY PartialFcn, BoundsAssumption DEF AloneInv, EliminationInv, TypeOK, GroupIds
    <3>2. job[r].victims = {} /\ job[r].phase = "eliminate"
      BY <1>4 DEF ListAgain
    <3>3. ASSUME faults' = 0, NEW g \in DOMAIN groups, NEW h \in DOMAIN groups,
                 groups[g].cap = groups[h].cap, groups[g].cap \in DOMAIN job[r].known
          PROVE  g = h
      <4>1. ~(h < g) /\ ~(g < h)
        BY <1>1, <2>2, <3>2, <3>3 DEF RunAlone, LessOne
      <4> QED
        BY <3>1, <4>1
    <3> QED
      BY <1>2, <2>5, <3>3 DEF LessOne
  <2> QED
    BY <2>6, <2>7, <2>8 DEF RunAlone
<1> QED
  BY <1>3, <1>4

LEMMA EliminateAlone ==
  ASSUME AloneInv, NEW r \in Runners, NEW g \in job[r].victims, EliminateDuplicate(r, g)
  PROVE  RunAlone(job'[r], groups', faults')
<1>0. DOMAIN job = Runners /\ RunOK(job[r])
  BY DEF AloneInv, EliminationInv, TypeOK
<1>1. RunAlone(job[r], groups, faults)
  BY DEF AloneInv
<1>2. CASE Return(r)
  BY <1>0, <1>2, IdleAlone DEF Return
<1>3. CASE /\ groups' = WithoutGroup(g) /\ UNCHANGED faults
           /\ job' = [job EXCEPT ![r].victims = @ \ {g},
                                 ![r].cap = job[r].listing[g]]
  <2>1. /\ job'[r].phase = "eliminate" /\ job'[r].victims = job[r].victims \ {g}
        /\ job'[r].known = job[r].known /\ job'[r].azure = job[r].azure
    BY <1>0, <1>3 DEF RunOK, Idle, EliminateDuplicate
  <2>2. job[r].phase = "eliminate"
    BY DEF EliminateDuplicate
  <2>3. DOMAIN groups' = DOMAIN groups \ {g} /\ \A h \in DOMAIN groups' : groups'[h] = groups[h]
    BY <1>3 DEF WithoutGroup
  <2>4. HoldsExisting(job'[r], groups')
    BY <1>1, <2>1, <2>2 DEF RunAlone, HoldsExisting
  <2>5. LessOne(job[r], groups) => LessOne(job'[r], groups')
    BY <2>1, <2>2, <2>3 DEF LessOne
  <2>6. SeesAll(job'[r], groups')
    BY <2>1 DEF SeesAll
  <2> QED
    BY <1>1, <1>3, <2>4, <2>5, <2>6 DEF RunAlone
<1> QED
  BY <1>2, <1>3 DEF EliminateDuplicate

LEMMA FetchAlone ==
  ASSUME AloneInv, NEW r \in Runners, NEW g \in job[r].fetch, FetchMembers(r, g)
  PROVE  RunAlone(job'[r], groups', faults')
<1>0. DOMAIN job = Runners /\ RunOK(job[r]) /\ faults \in Nat
  BY BoundsAssumption DEF AloneInv, EliminationInv, TypeOK
<1>1. RunAlone(job[r], groups, faults) /\ job[r].phase = "fetch" /\ UNCHANGED groups
  BY DEF AloneInv, FetchMembers
<1>2. g \in DOMAIN groups
  BY <1>1 DEF RunAlone, HoldsExisting
<1>3. ASSUME NEW S, job' = [job EXCEPT ![r].fetch = @ \ {g},
                                       ![r].azure = Store(@, job[r].listing[g], g, S)]
      PROVE  RunAlone(job'[r], groups', faults) /\ RunAlone(job'[r], groups', faults')
  <2> DEFINE azure == Store(job[r].azure, job[r].listing[g], g, S)
  <2>1. /\ DOMAIN azure = DOMAIN job[r].azure \cup {job[r].listing[g]}
        /\ \A c \in DOMAIN azure : azure[c].id = g \/ (c \in DOMAIN job[r].azure
                                                       /\ azure[c] = job[r].azure[c])
    BY DEF Store
  <2>2. job' = [job EXCEPT ![r].fetch = @ \ {g}, ![r].azure = azure]
    BY <1>3
  <2> HIDE DEF azure
  <2>3. /\ job'[r].phase = "fetch" /\ job'[r].fetch = job[r].fetch \ {g}
        /\ job'[r].azure = azure
        /\ job'[r].known = job[r].known /\ job'[r].listing = job[r].listing
    BY <1>0, <1>1, <2>2 DEF RunOK, Idle
  <2>4. HoldsExisting(job'[r], groups')
    BY <1>1, <1>2, <2>1, <2>3 DEF RunAlone, HoldsExisting
  <2>5. LessOne(job[r], groups) => LessOne(job'[r], groups')
    BY <1>1, <2>3 DEF LessOne
  <2>6. SeesAll(job[r], groups) => SeesAll(job'[r], groups')
    BY <1>1, <1>2, <2>1, <2>3 DEF SeesAll
  <2>7. faults' = 0 => faults = 0
    BY <1>0 DEF FetchMembers, Fault
  <2> QED
    BY <1>1, <2>4, <2>5, <2>6, <2>7 DEF RunAlone
<1>4. CASE job' = [job EXCEPT ![r].fetch = @ \ {g}] /\ Fault
  <2>1. /\ job'[r].phase = "fetch" /\ job'[r].fetch = job[r].fetch \ {g}
        /\ job'[r].azure = job[r].azure
    BY <1>0, <1>1, <1>4 DEF RunOK, Idle
  <2>2. faults' # 0
    BY <1>0, <1>4 DEF Fault
  <2> QED
    BY <1>1, <2>1, <2>2 DEF RunAlone, HoldsExisting
<1> QED
  BY <1>3, <1>4 DEF FetchMembers

LEMMA SyncAlone ==
  ASSUME AloneInv, NEW r \in Runners,
         AllFetched(r) \/ \E c \in job[r].todo : UseGroup(r, c)
  PROVE  RunAlone(job'[r], groups', faults')
<1>0. DOMAIN job = Runners /\ RunOK(job[r])
  BY DEF AloneInv, EliminationInv, TypeOK
<1>1. RunAlone(job[r], groups, faults) /\ UNCHANGED <<groups, faults>>
  BY DEF AloneInv, AllFetched, UseGroup
<1>2. CASE AllFetched(r)
  <2>1. /\ job'[r].phase = "sync" /\ job'[r].todo = DOMAIN job[r].known
        /\ job'[r].azure = job[r].azure /\ job'[r].known = job[r].known
    BY <1>0, <1>2 DEF AllFetched, RunOK, Idle
  <2>2. job[r].phase = "fetch" /\ job[r].fetch = {}
    BY <1>2 DEF AllFetched
  <2>3. HoldsExisting(job'[r], groups')
    BY <1>1, <2>1 DEF RunAlone, HoldsExisting
  <2>4. LessOne(job[r], groups) => LessOne(job'[r], groups')
    BY <1>1, <2>1, <2>2 DEF LessOne
  <2>5. SeesAll(job[r], groups) => SeesAll(job'[r], groups')
    BY <1>1, <2>1, <2>2 DEF SeesAll
  <2> QED
    BY <1>1, <2>3, <2>4, <2>5 DEF RunAlone
<1>3. ASSUME NEW c \in job[r].todo, UseGroup(r, c)
      PROVE  RunAlone(job'[r], groups', faults')
  <2>1. /\ job'[r].phase = "sync" /\ job'[r].todo = job[r].todo \ {c}
        /\ job'[r].azure = job[r].azure /\ job'[r].known = job[r].known
    BY <1>0, <1>3 DEF UseGroup, BetweenCapabilities, RunOK, Idle
  <2>2. job[r].phase = "sync"
    BY <1>3 DEF UseGroup, BetweenCapabilities
  <2>3. HoldsExisting(job'[r], groups')
    BY <1>1, <2>1 DEF RunAlone, HoldsExisting
  <2>4. LessOne(job[r], groups) => LessOne(job'[r], groups')
    BY <1>1, <2>1, <2>2 DEF LessOne
  <2>5. SeesAll(job[r], groups) => SeesAll(job'[r], groups')
    BY <1>1, <2>1, <2>2 DEF SeesAll
  <2> QED
    BY <1>1, <2>3, <2>4, <2>5 DEF RunAlone
<1> QED
  BY <1>2, <1>3

LEMMA CreateAlone ==
  ASSUME AloneInv, NEW r \in Runners, NEW c \in job[r].todo, CreateGroup(r, c)
  PROVE  RunAlone(job'[r], groups', faults')
<1>0. DOMAIN job = Runners /\ RunOK(job[r])
  BY DEF AloneInv, EliminationInv, TypeOK
<1>1. RunAlone(job[r], groups, faults) /\ job[r].phase = "sync"
  BY DEF AloneInv, CreateGroup, BetweenCapabilities
<1>2. CASE Return(r)
  BY <1>0, <1>2, IdleAlone DEF Return
<1>3. CASE /\ groups' = WithGroup(nextId, c) /\ UNCHANGED faults
           /\ job' = [job EXCEPT ![r].todo = @ \ {c}, ![r].cap = c,
                                 ![r].group = nextId, ![r].adds = job[r].known[c]]
  <2>1. /\ job'[r].phase = "sync" /\ job'[r].todo = job[r].todo \ {c}
        /\ job'[r].azure = job[r].azure /\ job'[r].known = job[r].known
    BY <1>0, <1>1, <1>3 DEF RunOK, Idle
  <2>2. /\ DOMAIN groups' = DOMAIN groups \cup {nextId}
        /\ groups'[nextId].cap = c
        /\ \A g \in DOMAIN groups \ {nextId} : groups'[g] = groups[g]
    BY <1>3 DEF WithGroup
  <2>3. nextId \notin DOMAIN groups
    BY BoundsAssumption DEF AloneInv, EliminationInv, IdsUsed, TypeOK
  <2>4. HoldsExisting(job'[r], groups')
    BY <1>1, <2>1, <2>2 DEF RunAlone, HoldsExisting
  <2>5. SeesAll(job[r], groups) => \A g \in DOMAIN groups : groups[g].cap # c
    BY <1>1 DEF SeesAll, CreateGroup
  <2>6. LessOne(job[r], groups) /\ SeesAll(job[r], groups) => LessOne(job'[r], groups')
    BY <1>1, <2>1, <2>2, <2>3, <2>5 DEF LessOne
  <2>7. SeesAll(job[r], groups) => SeesAll(job'[r], groups')
    BY <1>1, <2>1, <2>2, <2>3 DEF SeesAll
  <2> QED
    BY <1>1, <1>3, <2>4, <2>6, <2>7 DEF RunAlone
<1> QED
  BY <1>2, <1>3 DEF CreateGroup

LEMMA MemberAlone ==
  ASSUME AloneInv, NEW r \in Runners,
         \/ \E u \in job[r].adds : AddMember(r, u)
         \/ \E u \in job[r].removes : RemoveMember(r, u)
  PROVE  RunAlone(job'[r], groups', faults')
<1>0. DOMAIN job = Runners /\ RunOK(job[r]) /\ faults \in Nat
  BY BoundsAssumption DEF AloneInv, EliminationInv, TypeOK
<1>1. RunAlone(job[r], groups, faults) /\ job[r].phase = "sync"
  BY DEF AloneInv, AddMember, RemoveMember
<1>2. CASE Return(r)
  BY <1>0, <1>2, IdleAlone DEF Return
<1>3. ASSUME NEW u, job' = [job EXCEPT ![r].adds = @ \ {u}]
                    \/ job' = [job EXCEPT ![r].removes = @ \ {u}]
      PROVE  RunAlone(job'[r], groups, faults)
  <2>1. /\ job'[r].phase = "sync" /\ job'[r].todo = job[r].todo
        /\ job'[r].azure = job[r].azure /\ job'[r].known = job[r].known
    BY <1>0, <1>1, <1>3 DEF RunOK, Idle
  <2> QED
    BY <1>1, <2>1 DEF RunAlone, HoldsExisting, LessOne, SeesAll
<1>4. SameNames(groups, groups')
  BY MembersOnly DEF AddMember, RemoveMember
<1>5. faults' = 0 => faults = 0
  BY <1>0 DEF AddMember, RemoveMember, MailUnread, Fault
<1>6. Return(r) \/ \E u : \/ job' = [job EXCEPT ![r].adds = @ \ {u}]
                          \/ job' = [job EXCEPT ![r].removes = @ \ {u}]
  BY DEF AddMember, RemoveMember
<1>7. CASE ~Return(r)
  <2>1. RunAlone(job'[r], groups, faults)
    BY <1>3, <1>6, <1>7
  <2>2. RunAlone(job'[r], groups', faults)
    BY <1>4, <2>1, SameNamesAlone
  <2> QED
    BY <1>5, <2>2 DEF RunAlone
<1> QED
  BY <1>2, <1>7

LEMMA AloneNext ==
  ASSUME Alone, AloneInv, [Next]_vars
  PROVE  AloneInv'
<1>0. EliminationInv' /\ DOMAIN job = Runners
  BY EliminationNext DEF AloneInv, EliminationInv, TypeOK
<1>1. ASSUME NEW r \in Runners, Step(r) \/ Killed(r)
      PROVE  RunAlone(job'[r], groups', faults')
  <2>1. CASE GetCapabilities(r)
    BY <1>0, <2>1, IdleAlone DEF GetCapabilities
  <2>2. CASE Finish(r) \/ Killed(r)
    BY <1>0, <2>2, IdleAlone DEF Finish, Killed, Return
  <2> QED
    BY <1>1, <2>1, <2>2, ListingsAlone, EliminateAlone, FetchAlone, SyncAlone,
       CreateAlone, MemberAlone DEF Step
<1>2. ASSUME NEW r \in Runners, ServiceChange \/ DirectoryChange \/ UNCHANGED vars
      PROVE  RunAlone(job'[r], groups', faults')
  <2>1. UNCHANGED <<job, faults>>
    BY <1>2 DEF ServiceChange, DirectoryChange, vars
  <2>2. SameNames(groups, groups')
    BY <1>2, MembersOnly DEF ServiceChange, DirectoryChange, vars
  <2> QED
    BY <2>1, <2>2, SameNamesAlone DEF AloneInv
<1>3. \A r \in Runners : RunAlone(job'[r], groups', faults')
  BY <1>1, <1>2 DEF Next, Alone
<1> QED
  BY <1>0, <1>3 DEF AloneInv, RunAlone, HoldsExisting, LessOne, SeesAll

LEMMA AloneInit == Init => AloneInv
BY EliminationInit, IdleAlone DEF Init, AloneInv

LEMMA AloneAlways ==
  ASSUME Alone
  PROVE  Spec => []AloneInv
<1>1. AloneInv /\ [Next]_vars => AloneInv'
  BY AloneNext
<1> QED
  BY <1>1, AloneInit, PTL DEF Spec

LEMMA AloneShows == AloneInv => CachedGroupsExist /\ NoDuplicatesLeft
<1>1. AloneInv => CachedGroupsExist
  BY DEF AloneInv, RunAlone, HoldsExisting, CachedGroupsExist
<1>2. AloneInv => NoDuplicatesLeft
  <2> SUFFICES ASSUME AloneInv, NEW r \in Runners,
                      job[r].phase \in {"fetch", "sync"}, faults = 0,
                      NEW c \in DOMAIN job[r].known
               PROVE  Cardinality(GroupsOf(c)) <= 1
    BY DEF NoDuplicatesLeft
  <2>1. \A g, h \in GroupsOf(c) : g = h
    BY DEF AloneInv, RunAlone, LessOne, GroupsOf
  <2>2. CASE GroupsOf(c) = {}
    BY <2>2, FS_EmptySet
  <2>3. ASSUME NEW g \in GroupsOf(c) PROVE Cardinality(GroupsOf(c)) <= 1
    <3>1. GroupsOf(c) = {g}
      BY <2>1
    <3>2. Cardinality({g}) = 1
      BY FS_Singleton
    <3> QED
      BY <3>1, <3>2
  <2> QED
    BY <2>2, <2>3
<1> QED
  BY <1>1, <1>2

\* A runner by itself caches, and hence writes to, no group that it has deleted:
\* it has deleted all it will before it lists the unit again.
THEOREM CachedGroupsExistAlways ==
  ASSUME Alone
  PROVE  Spec => []CachedGroupsExist
BY AloneShows, AloneAlways, PTL

\* Without failures, a runner by itself works on capabilities with one group at
\* most each, those it creates itself included.
THEOREM NoDuplicatesLeftAlways ==
  ASSUME Alone
  PROVE  Spec => []NoDuplicatesLeft
BY AloneShows, AloneAlways, PTL

-----------------------------------------------------------------------------
(* MemberEvents: types and the count of the handlers' writes *)

\* A handler's write to the unit changes the members of one group at most.
HandlerWrites ==
  /\ \/ UNCHANGED groups
     \/ \E g \in DOMAIN groups, u \in Directory :
          groups' \in {WithMember(g, u), WithoutMember(g, u)}
  /\ UNCHANGED <<world, job, faults>>

LEMMA WithoutNobody ==
  ASSUME TypeOK, NEW g, NEW u, u \notin Directory \/ g \notin DOMAIN groups
  PROVE  WithoutMember(g, u) = groups
<1>1. CASE g \notin DOMAIN groups
  BY <1>1 DEF WithoutMember
<1>2. CASE g \in DOMAIN groups /\ u \notin Directory
  <2>1. groups \in [DOMAIN groups -> Group]
    BY PartialFcn DEF TypeOK
  <2>2. groups[g].members \ {u} = groups[g].members
    BY <1>2, <2>1 DEF Group
  <2>3. \A h \in DOMAIN groups :
          groups[h] = [cap |-> groups[h].cap, members |-> groups[h].members]
    BY <2>1 DEF Group
  <2>4. SetMembers(g, groups[g].members) = [h \in DOMAIN groups |-> groups[h]]
    BY <2>3 DEF SetMembers
  <2> QED
    BY <1>2, <2>1, <2>2, <2>4 DEF WithoutMember
<1> QED
  BY <1>1, <1>2

LEMMA HandlersWrite ==
  ASSUME TypeOK, AddJoined \/ DeleteLeft
  PROVE  /\ HandlerWrites
         /\ writes' = IF groups' = groups THEN writes ELSE writes + 1
<1>1. UNCHANGED <<world, job, faults>>
  BY DEF AddJoined, DeleteLeft
<1>2. CASE AddJoined
  <2>1. \/ Write(groups)
        \/ /\ ev.group \in DOMAIN groups /\ log[pos].user \in Directory
           /\ Write(WithMember(ev.group, log[pos].user))
    BY <1>2 DEF AddJoined
  <2> QED
    BY <1>1, <2>1 DEF HandlerWrites, Write
<1>3. CASE DeleteLeft
  <2>1. Write(groups) \/ Write(WithoutMember(ev.group, log[pos].user))
    BY <1>3 DEF DeleteLeft
  <2>2. \/ WithoutMember(ev.group, log[pos].user) = groups
        \/ ev.group \in DOMAIN groups /\ log[pos].user \in Directory
    BY WithoutNobody
  <2> QED
    BY <1>1, <2>1, <2>2 DEF HandlerWrites, Write
<1> QED
  BY <1>2, <1>3

\* A change of the membership is one that CapSvc2Aad allows for.
LEMMA MembershipIsChange ==
  ASSUME TypeOK, MembershipChange \/ CapabilityGoes
  PROVE  /\ UNCHANGED <<groups, nextId, job, faults, writes>> /\ Churn
         /\ \E c \in Capabilities :
              \/ \E S \in SUBSET Users :
                   capabilities' = [d \in DOMAIN capabilities \cup {c} |->
                                      IF d = c THEN S ELSE capabilities[d]]
              \/ /\ c \in DOMAIN capabilities
                 /\ capabilities' = [d \in DOMAIN capabilities \ {c} |-> capabilities[d]]
<1>0. /\ DOMAIN capabilities \subseteq Capabilities
      /\ capabilities \in [DOMAIN capabilities -> SUBSET Users]
  BY PartialFcn DEF TypeOK
<1>1. CASE MembershipChange
  <2>1. PICK c \in DOMAIN capabilities, u \in Users :
          capabilities' = [capabilities EXCEPT
                             ![c] = IF u \notin capabilities[c] THEN @ \cup {u} ELSE @ \ {u}]
    BY <1>1 DEF MembershipChange
  <2> DEFINE S == IF u \notin capabilities[c] THEN capabilities[c] \cup {u}
                                              ELSE capabilities[c] \ {u}
  <2>2. S \in SUBSET Users
    BY <1>0
  <2>3. capabilities' = [d \in DOMAIN capabilities \cup {c} |->
                           IF d = c THEN S ELSE capabilities[d]]
    BY <1>0, <2>1
  <2> HIDE DEF S
  <2> QED
    BY <1>0, <1>1, <2>2, <2>3 DEF MembershipChange, store
<1>2. CASE CapabilityGoes
  BY <1>0, <1>2 DEF CapabilityGoes, eventVars
<1> QED
  BY <1>1, <1>2

\* Whatever happens is a step that CapSvc2Aad allows for, or a handler's write.
LEMMA MemberStep ==
  ASSUME TypeOK, [MemberNext]_memberVars
  PROVE  [Next]_vars \/ HandlerWrites
<1>1. CASE \E r \in Runners : Step(r) \/ Killed(r)
  BY <1>1 DEF Next
<1>2. CASE UNCHANGED vars
  BY <1>2
<1>3. CASE AddJoined \/ DeleteLeft
  BY <1>3, HandlersWrite
<1>4. CASE MembershipChange \/ CapabilityGoes
  BY <1>4, MembershipIsChange DEF Next, ServiceChange
<1> QED
  BY <1>1, <1>2, <1>3, <1>4
  DEF MemberNext, HandlerStep, FindCapability, FindGroup, PatchAws, Redeliver,
      AzureProvisions, memberVars

(* How often the handlers have written: each event at most once in each     *)
(* pass over the log, and a pass is at most as long as the log can grow.    *)
WritesCounted ==
  /\ redeliveries \in 0..MaxRedeliveries
  /\ writes \in Nat
  /\ writes <= MaxChurn * redeliveries + (pos - 1) + (IF ev.phase = "scim" THEN 1 ELSE 0)

MemberTypeOK ==
  /\ log \in Seq(Event) /\ Len(log) <= churn
  /\ pos \in 1..(Len(log) + 1)
  /\ ev \in [phase : EvPhase, group : GroupIds \cup {0}]
  /\ ev.phase # "idle" => pos <= Len(log)

CountInv == TypeOK /\ MemberTypeOK /\ WritesCounted

LEMMA Products ==
  ASSUME NEW m \in Nat, NEW a \in Nat, NEW b \in Nat, a < b
  PROVE  m * a \in Nat /\ m * b \in Nat /\ m * a + m <= m * b
<1>1. PICK d \in Nat : b = a + 1 + d
  <2>1. b - a - 1 \in Nat /\ b = a + 1 + (b - a - 1)
    OBVIOUS
  <2> QED
    BY <2>1
<1>2. m * b = m * a + m + m * d /\ m * d \in Nat /\ m * a \in Nat
  BY <1>1
<1> QED
  BY <1>2

LEMMA MemberTypeInit == MemberInit => CountInv
<1> SUFFICES ASSUME MemberInit PROVE CountInv
  OBVIOUS
<1>1. TypeOK
  BY TypeInit DEF MemberInit
<1>2. ev \in [phase : EvPhase, group : GroupIds \cup {0}] /\ ev.phase = "idle"
  BY DEF MemberInit, EvIdle, EvPhase
<1>3. churn = 0 /\ log = << >> /\ pos = 1 /\ writes = 0 /\ redeliveries = 0
  BY DEF MemberInit, Init
<1>4. MaxChurn * 0 = 0
  BY BoundsAssumption
<1> QED
  BY <1>1, <1>2, <1>3, <1>4, EventBoundsAssumption, BoundsAssumption
  DEF CountInv, MemberTypeOK, WritesCounted

\* A step of anybody keeps the types of CapSvc2Aad.
LEMMA MemberTypeKept ==
  ASSUME TypeOK, [MemberNext]_memberVars
  PROVE  TypeOK'
<1>1. CASE [Next]_vars
  BY <1>1, TypeNext
<1>2. CASE HandlerWrites
  <2>1. IsPartialFcn(groups', GroupIds, Group)
    BY <1>2, MemberTyped DEF TypeOK, HandlerWrites
  <2> QED
    BY <1>2, <2>1 DEF TypeOK, HandlerWrites, world
<1> QED
  BY <1>1, <1>2, MemberStep

\* Steps that leave the handler's place alone.
LEMMA PlaceKept ==
  ASSUME MemberTypeOK, WritesCounted,
         UNCHANGED <<log, pos, ev, writes, redeliveries>>, churn' \in Nat, churn <= churn',
         churn \in Nat
  PROVE  MemberTypeOK' /\ WritesCounted'
<1>1. Len(log) <= churn'
  BY DEF MemberTypeOK
<1> QED
  BY <1>1 DEF MemberTypeOK, WritesCounted

\* Steps of the handler: it goes on to another phase, or the event is settled.
LEMMA HandlerPlace ==
  ASSUME CountInv, HandlerStep
  PROVE  MemberTypeOK' /\ WritesCounted'
<1> DEFINE n == Len(log)
<1>0. /\ n \in Nat /\ pos \in Nat /\ 1 <= pos /\ pos <= n + 1 /\ writes \in Nat
      /\ MaxChurn \in Nat /\ redeliveries \in Nat
  BY EventBoundsAssumption, BoundsAssumption DEF CountInv, MemberTypeOK, WritesCounted
<1>1. PICK b : b = MaxChurn * redeliveries
  OBVIOUS
<1>2. b \in Nat
  BY <1>0, <1>1
<1>3. UNCHANGED <<log, redeliveries, churn>>
  BY DEF HandlerStep, FindCapability, FindGroup, AddJoined, DeleteLeft, PatchAws,
         vars, world
<1>4. /\ ev.phase # "idle" => pos <= n
      /\ writes <= b + (pos - 1) + (IF ev.phase = "scim" THEN 1 ELSE 0)
  BY <1>1 DEF CountInv, MemberTypeOK, WritesCounted
<1>5. ASSUME pos <= n, Done,
             writes' <= b + pos, writes' \in Nat
      PROVE  MemberTypeOK' /\ WritesCounted'
  <2>1. pos' = pos + 1 /\ ev' = EvIdle
    BY <1>5 DEF Done
  <2>2. pos' \in 1..(n + 1)
    BY <1>0, <1>5, <2>1
  <2>3. ev' \in [phase : EvPhase, group : GroupIds \cup {0}] /\ ev'.phase = "idle"
    BY <2>1 DEF EvIdle, EvPhase
  <2>4. MemberTypeOK'
    BY <1>3, <2>2, <2>3 DEF CountInv, MemberTypeOK
  <2>6. writes' <= MaxChurn * redeliveries' + (pos' - 1) + 0
    BY <1>0, <1>1, <1>2, <1>3, <1>5, <2>1
  <2> QED
    BY <1>3, <1>5, <2>3, <2>4, <2>6 DEF CountInv, WritesCounted
<1>6. ASSUME NEW e \in [phase : EvPhase, group : GroupIds \cup {0}],
             pos <= n, ev' = e, UNCHANGED pos, writes' \in Nat,
             writes' <= b + (pos - 1) + (IF e.phase = "scim" THEN 1 ELSE 0)
      PROVE  MemberTypeOK' /\ WritesCounted'
  <2>1. MemberTypeOK'
    BY <1>3, <1>6 DEF CountInv, MemberTypeOK
  <2>2. writes' <= MaxChurn * redeliveries' + (pos' - 1)
                   + (IF ev'.phase = "scim" THEN 1 ELSE 0)
    BY <1>1, <1>3, <1>6
  <2> QED
    BY <1>3, <1>6, <2>1, <2>2 DEF CountInv, WritesCounted
<1>e. ev \in [phase : EvPhase, group : GroupIds \cup {0}]
  BY DEF CountInv, MemberTypeOK
<1>g. DOMAIN groups \subseteq GroupIds
  BY PartialFcn DEF CountInv, TypeOK
<1>7. CASE FindCapability
  <2>1. pos <= n /\ ev.phase = "idle" /\ UNCHANGED writes
    BY <1>7 DEF FindCapability
  <2>2. CASE Done
    BY <1>0, <1>2, <1>4, <1>5, <2>1, <2>2
  <2>3. CASE ev' = [ev EXCEPT !.phase = "list"] /\ UNCHANGED pos
    <3> DEFINE e == [ev EXCEPT !.phase = "list"]
    <3>1. e \in [phase : EvPhase, group : GroupIds \cup {0}] /\ e.phase = "list"
      BY <1>e DEF EvPhase
    <3> HIDE DEF e
    <3> QED
      BY <1>0, <1>4, <1>6, <2>1, <2>3, <3>1 DEF e
  <2> QED
    BY <1>7, <2>2, <2>3 DEF FindCapability
<1>8. CASE FindGroup
  <2>1. pos <= n /\ ev.phase = "list" /\ UNCHANGED writes
    BY <1>4, <1>8 DEF FindGroup
  <2>2. CASE Done
    BY <1>0, <1>2, <1>4, <1>5, <2>1, <2>2
  <2>3. ASSUME NEW g \in DOMAIN groups, ev' = [phase |-> "write", group |-> g],
               UNCHANGED pos
        PROVE  MemberTypeOK' /\ WritesCounted'
    <3> DEFINE e == [phase |-> "write", group |-> g]
    <3>1. e \in [phase : EvPhase, group : GroupIds \cup {0}] /\ e.phase = "write"
      BY <1>g DEF EvPhase
    <3> HIDE DEF e
    <3> QED
      BY <1>0, <1>4, <1>6, <2>1, <2>3, <3>1 DEF e
  <2> QED
    BY <1>8, <2>2, <2>3 DEF FindGroup
<1>9. CASE AddJoined \/ DeleteLeft
  <2>1. pos <= n /\ ev.phase = "write"
    BY <1>4, <1>9 DEF AddJoined, DeleteLeft
  <2>2. writes' \in Nat /\ writes' <= writes + 1
    BY <1>0, <1>9, HandlersWrite DEF CountInv
  <2>3. writes <= b + (pos - 1)
    BY <1>0, <1>2, <1>4, <2>1
  <2>4. writes' <= b + pos
    BY <1>0, <1>2, <2>2, <2>3
  <2>5. CASE Done
    BY <1>5, <2>1, <2>2, <2>4, <2>5
  <2>6. CASE ev' = [ev EXCEPT !.phase = "scim"] /\ UNCHANGED pos
    <3> DEFINE e == [ev EXCEPT !.phase = "scim"]
    <3>1. e \in [phase : EvPhase, group : GroupIds \cup {0}] /\ e.phase = "scim"
      BY <1>e DEF EvPhase
    <3> HIDE DEF e
    <3>2. b + pos = b + (pos - 1) + 1
      BY <1>0, <1>2
    <3> QED
      BY <1>6, <2>1, <2>2, <2>4, <2>6, <3>1, <3>2 DEF e
  <2> QED
    BY <1>9, <2>5, <2>6 DEF AddJoined, DeleteLeft
<1>10. CASE PatchAws
  <2>1. pos <= n /\ ev.phase = "scim" /\ UNCHANGED writes
    BY <1>4, <1>10 DEF PatchAws
  <2>2. writes' <= b + pos
    BY <1>0, <1>2, <1>4, <2>1
  <2> QED
    BY <1>0, <1>5, <1>10, <2>1, <2>2 DEF PatchAws
<1> QED
  BY <1>7, <1>8, <1>9, <1>10 DEF HandlerStep

\* A redelivery begins another pass, for which the count has room.
LEMMA RedeliverPlace ==
  ASSUME CountInv, Redeliver
  PROVE  MemberTypeOK' /\ WritesCounted'
<1> DEFINE n == Len(log)
<1>0. /\ n \in Nat /\ pos \in 1..(n + 1) /\ writes \in Nat /\ redeliveries \in Nat
      /\ MaxChurn \in Nat /\ n <= MaxChurn /\ MaxRedeliveries \in Nat
  BY EventBoundsAssumption, BoundsAssumption DEF CountInv, TypeOK, MemberTypeOK, WritesCounted
<1>1. PICK p \in 1..pos : pos' = p
  BY DEF Redeliver
<1>2. MemberTypeOK'
  <2>1. ev' \in [phase : EvPhase, group : GroupIds \cup {0}] /\ ev'.phase = "idle"
    BY DEF Redeliver, EvIdle, EvPhase
  <2>2. p \in 1..(n + 1)
    BY <1>0
  <2> QED
    BY <1>1, <2>1, <2>2 DEF Redeliver, CountInv, MemberTypeOK, vars
<1>3. PICK b : b = MaxChurn * redeliveries
  OBVIOUS
<1>4. PICK k : k = MaxChurn * (redeliveries + 1)
  OBVIOUS
<1>5. b \in Nat /\ k \in Nat /\ b + MaxChurn <= k
  BY <1>0, <1>3, <1>4, Products
<1>6. writes <= b + n
  <2>1. ev.phase # "idle" => pos <= n
    BY DEF CountInv, MemberTypeOK
  <2>2. writes <= b + (pos - 1) + (IF ev.phase = "scim" THEN 1 ELSE 0)
    BY <1>3 DEF CountInv, WritesCounted
  <2>3. CASE ev.phase = "scim"
    BY <1>0, <1>5, <2>1, <2>2, <2>3
  <2>4. CASE ev.phase # "scim"
    BY <1>0, <1>5, <2>2, <2>4
  <2> QED
    BY <2>3, <2>4
<1>7. writes <= k + (p - 1) + 0
  BY <1>0, <1>5, <1>6
<1>8. redeliveries' = redeliveries + 1 /\ redeliveries < MaxRedeliveries /\ UNCHANGED writes
  BY DEF Redeliver
<1>9. redeliveries' \in 0..MaxRedeliveries
  BY <1>0, <1>8
<1>10. writes' <= MaxChurn * redeliveries' + (pos' - 1) + (IF ev'.phase = "scim" THEN 1 ELSE 0)
  <2>1. ev'.phase = "idle"
    BY DEF Redeliver, EvIdle
  <2> QED
    BY <1>1, <1>4, <1>7, <1>8, <2>1
<1> QED
  BY <1>0, <1>2, <1>8, <1>9, <1>10 DEF WritesCounted

LEMMA MembershipPlace ==
  ASSUME CountInv, MembershipChange
  PROVE  MemberTypeOK' /\ WritesCounted'
<1>1. PICK e \in Event : log' = Append(log, e)
  <2>1. PICK c \in DOMAIN capabilities, u \in Users :
          log' = Append(log, [kind |-> IF u \notin capabilities[c] THEN "joined" ELSE "left",
                              cap |-> c, user |-> u])
    BY DEF MembershipChange
  <2>2. c \in Capabilities
    BY PartialFcn DEF CountInv, TypeOK
  <2>3. [kind |-> IF u \notin capabilities[c] THEN "joined" ELSE "left",
         cap |-> c, user |-> u] \in Event
    BY <2>2 DEF Event
  <2> QED
    BY <2>1, <2>3
<1>2. log' \in Seq(Event) /\ Len(log') = Len(log) + 1 /\ Len(log) \in Nat
  BY <1>1 DEF CountInv, MemberTypeOK
<1>3. UNCHANGED <<pos, ev, writes, redeliveries>> /\ churn' = churn + 1 /\ churn \in Nat
  BY DEF MembershipChange, Churn, CountInv, TypeOK
<1>4. MemberTypeOK'
  <2>1. Len(log) <= churn /\ pos \in 1..(Len(log) + 1)
        /\ (ev.phase # "idle" => pos <= Len(log))
        /\ ev \in [phase : EvPhase, group : GroupIds \cup {0}]
    BY DEF CountInv, MemberTypeOK
  <2>2. Len(log') <= churn' /\ pos \in 1..(Len(log') + 1)
        /\ (ev.phase # "idle" => pos <= Len(log'))
    BY <1>2, <1>3, <2>1
  <2> QED
    BY <1>2, <1>3, <2>1, <2>2 DEF MemberTypeOK
<1> QED
  BY <1>3, <1>4 DEF CountInv, WritesCounted

LEMMA CountNext == CountInv /\ [MemberNext]_memberVars => CountInv'
<1> SUFFICES ASSUME CountInv, [MemberNext]_memberVars
             PROVE  MemberTypeOK' /\ WritesCounted'
  BY MemberTypeKept DEF CountInv
<1>0. churn \in Nat
  BY DEF CountInv, TypeOK
<1>1. ASSUME NEW r \in Runners, Step(r) \/ Killed(r), UNCHANGED eventVars
      PROVE  MemberTypeOK' /\ WritesCounted'
  <2>1. UNCHANGED churn
    BY <1>1, RestStep DEF CountInv, Killed, world
  <2> QED
    BY <1>0, <1>1, <2>1, PlaceKept DEF CountInv, eventVars
<1>2. CASE HandlerStep
  BY <1>2, HandlerPlace
<1>3. CASE Redeliver
  BY <1>3, RedeliverPlace
<1>4. CASE MembershipChange
  BY <1>4, MembershipPlace
<1>5. CASE CapabilityGoes
  <2>1. churn' = churn + 1
    BY <1>5 DEF CapabilityGoes, Churn
  <2> QED
    BY <1>0, <1>5, <2>1, PlaceKept DEF CountInv, CapabilityGoes, eventVars
<1>6. CASE AzureProvisions \/ UNCHANGED memberVars
  <2>1. UNCHANGED <<log, pos, ev, writes, redeliveries, churn>>
    BY <1>6 DEF AzureProvisions, memberVars, eventVars, vars
  <2> QED
    BY <1>0, <2>1, PlaceKept DEF CountInv
<1> QED
  BY <1>1, <1>2, <1>3, <1>4, <1>5, <1>6 DEF MemberNext

LEMMA CountAlways == MemberSpec => []CountInv
BY MemberTypeInit, CountNext, PTL DEF MemberSpec

-----------------------------------------------------------------------------
(* MemberEvents implements CapSvc2Aad *)

\* The operators that the count of changes is not in are the same in both.
LEMMA SameOperators ==
  /\ C!Idle = Idle /\ C!GroupIds = GroupIds
  /\ \A ids : C!Listing(ids) = Listing(ids)
  /\ \A l, k : C!Excess(l, k) = Excess(l, k)
  /\ \A S : C!FirstPage(S) = FirstPage(S)
  /\ \A a, c, g, S : C!Store(a, c, g, S) = Store(a, c, g, S)
  /\ \A r : C!SeenMembers(r) = SeenMembers(r)
  /\ \A w, s : C!ToAdd(w, s) = ToAdd(w, s) /\ C!ToRemove(w, s) = ToRemove(w, s)
  /\ \A g, c : C!WithGroup(g, c) = WithGroup(g, c)
  /\ \A g : C!WithoutGroup(g) = WithoutGroup(g)
  /\ \A g, u : C!WithMember(g, u) = WithMember(g, u)
  /\ \A g, u : C!WithoutMember(g, u) = WithoutMember(g, u)
<1>1. C!Idle = Idle /\ C!GroupIds = GroupIds
  BY DEF C!Idle, Idle, C!GroupIds, GroupIds, C!EmptyFcn, EmptyFcn
<1>2. \A ids : C!Listing(ids) = Listing(ids)
  BY DEF C!Listing, Listing, C!GroupIds, GroupIds
<1>3. \A l, k : C!Excess(l, k) = Excess(l, k)
  BY DEF C!Excess, Excess, C!GroupIds, GroupIds
<1>4. \A S : C!FirstPage(S) = FirstPage(S)
  BY DEF C!FirstPage, FirstPage, C!Cardinality, Cardinality, C!IsFiniteSet, IsFiniteSet
<1>5. \A a, c, g, S : C!Store(a, c, g, S) = Store(a, c, g, S)
  BY DEF C!Store, Store
<1>6. \A r : C!SeenMembers(r) = SeenMembers(r)
  BY DEF C!SeenMembers, SeenMembers
<1>7. \A w, s : C!ToAdd(w, s) = ToAdd(w, s) /\ C!ToRemove(w, s) = ToRemove(w, s)
  BY DEF C!ToAdd, ToAdd, C!ToRemove, ToRemove
<1>8. \A g, c : C!WithGroup(g, c) = WithGroup(g, c)
  BY DEF C!WithGroup, WithGroup
<1>9. \A g : C!WithoutGroup(g) = WithoutGroup(g)
  BY DEF C!WithoutGroup, WithoutGroup
<1>10. \A g, u : C!WithMember(g, u) = WithMember(g, u)
  BY DEF C!WithMember, WithMember, C!SetMembers, SetMembers
<1>11. \A g, u : C!WithoutMember(g, u) = WithoutMember(g, u)
  BY DEF C!WithoutMember, WithoutMember, C!SetMembers, SetMembers
<1> QED
  BY <1>1, <1>2, <1>3, <1>4, <1>5, <1>6, <1>7, <1>8, <1>9, <1>10, <1>11

LEMMA SameGuards ==
  /\ \A r : C!Return(r) <=> Return(r)
  /\ C!Fault <=> Fault
  /\ \A ids : C!Listed(ids) <=> Listed(ids)
  /\ \A r : C!BetweenCapabilities(r) <=> BetweenCapabilities(r)
  /\ \A u : C!NotFoundViaEmail(u) <=> NotFoundViaEmail(u)
  /\ \A u : C!MailUnread(u) <=> MailUnread(u)
<1>1. \A r : C!Return(r) <=> Return(r)
  BY SameOperators DEF C!Return, Return
<1>2. C!Fault <=> Fault
  BY DEF C!Fault, Fault
<1>3. \A ids : C!Listed(ids) <=> Listed(ids)
  BY <1>2 DEF C!Listed, Listed
<1>4. \A r : C!BetweenCapabilities(r) <=> BetweenCapabilities(r)
  BY DEF C!BetweenCapabilities, BetweenCapabilities
<1>5. \A u : C!NotFoundViaEmail(u) <=> NotFoundViaEmail(u)
  BY DEF C!NotFoundViaEmail, NotFoundViaEmail
<1>6. \A u : C!MailUnread(u) <=> MailUnread(u)
  BY <1>2 DEF C!MailUnread, MailUnread
<1> QED
  BY <1>1, <1>2, <1>3, <1>4, <1>5, <1>6

\* The job's steps are the same steps.
LEMMA SameSteps ==
  ASSUME NEW r \in Runners, Step(r) \/ Killed(r), UNCHANGED writes
  PROVE  C!Step(r) \/ C!Killed(r)
<1>w. UNCHANGED world => UNCHANGED C!world
  BY DEF world, C!world
<1>1. GetCapabilities(r) => C!GetCapabilities(r)
  BY <1>w, SameOperators DEF GetCapabilities, C!GetCapabilities
<1>2. ListMembers(r) => C!ListMembers(r)
  BY <1>w, SameOperators, SameGuards DEF ListMembers, C!ListMembers
<1>3. \A g : EliminateDuplicate(r, g) => C!EliminateDuplicate(r, g)
  BY <1>w, SameOperators, SameGuards DEF EliminateDuplicate, C!EliminateDuplicate
<1>4. ListAgain(r) => C!ListAgain(r)
  BY <1>w, SameOperators, SameGuards DEF ListAgain, C!ListAgain
<1>5. \A g : FetchMembers(r, g) => C!FetchMembers(r, g)
  BY <1>w, SameOperators, SameGuards DEF FetchMembers, C!FetchMembers
<1>6. AllFetched(r) => C!AllFetched(r)
  BY <1>w DEF AllFetched, C!AllFetched
<1>7. \A c : UseGroup(r, c) => C!UseGroup(r, c)
  BY <1>w, SameOperators, SameGuards DEF UseGroup, C!UseGroup
<1>8. \A c : CreateGroup(r, c) => C!CreateGroup(r, c)
  BY SameOperators, SameGuards DEF CreateGroup, C!CreateGroup
<1>9. \A u : AddMember(r, u) => C!AddMember(r, u)
  BY <1>w, SameOperators, SameGuards DEF AddMember, C!AddMember
<1>10. \A u : RemoveMember(r, u) => C!RemoveMember(r, u)
  BY <1>w, SameOperators, SameGuards DEF RemoveMember, C!RemoveMember
<1>11. Finish(r) => C!Finish(r)
  BY <1>w, SameGuards DEF Finish, C!Finish
<1>12. Killed(r) => C!Killed(r)
  BY <1>w, SameGuards DEF Killed, C!Killed
<1> QED
  BY <1>1, <1>2, <1>3, <1>4, <1>5, <1>6, <1>7, <1>8, <1>9, <1>10, <1>11, <1>12
  DEF Step, C!Step

\* The count of changes by others has room for the writes of the handlers.
LEMMA RoomForWrites ==
  ASSUME CountInv
  PROVE  /\ churn \in Nat /\ writes \in Nat /\ MaxChurn \in Nat
         /\ MaxChurn * (MaxRedeliveries + 1) \in Nat
         /\ churn <= MaxChurn
         /\ writes <= MaxChurn * (MaxRedeliveries + 1)
         /\ ev.phase = "write" => writes < MaxChurn * (MaxRedeliveries + 1)
<1> DEFINE n == Len(log)
<1>0. /\ n \in Nat /\ pos \in 1..(n + 1) /\ writes \in Nat /\ redeliveries \in Nat
      /\ MaxChurn \in Nat /\ n <= MaxChurn /\ MaxRedeliveries \in Nat
      /\ redeliveries <= MaxRedeliveries /\ churn \in Nat /\ churn <= MaxChurn
  BY EventBoundsAssumption, BoundsAssumption DEF CountInv, TypeOK, MemberTypeOK, WritesCounted
<1>1. PICK b : b = MaxChurn * redeliveries
  OBVIOUS
<1>2. PICK k : k = MaxChurn * (MaxRedeliveries + 1)
  OBVIOUS
<1>3. b \in Nat /\ k \in Nat /\ b + MaxChurn <= k
  BY <1>0, <1>1, <1>2, Products
<1>4. /\ ev.phase # "idle" => pos <= n
      /\ writes <= b + (pos - 1) + (IF ev.phase = "scim" THEN 1 ELSE 0)
  BY <1>1 DEF CountInv, MemberTypeOK, WritesCounted
<1>5. CASE ev.phase = "scim"
  BY <1>0, <1>2, <1>3, <1>4, <1>5
<1>6. CASE ev.phase # "scim"
  BY <1>0, <1>2, <1>3, <1>4, <1>6
<1> QED
  BY <1>5, <1>6

LEMMA MemberStepImplements ==
  ASSUME CountInv, [MemberNext]_memberVars
  PROVE  [C!Next]_C!vars
<1>1. ASSUME NEW r \in Runners, Step(r) \/ Killed(r), UNCHANGED eventVars
      PROVE  C!Next
  BY <1>1, SameSteps DEF eventVars, C!Next
<1>2. ASSUME UNCHANGED <<vars, writes>> PROVE UNCHANGED C!vars
  BY <1>2 DEF vars, C!vars
<1>3. CASE AddJoined \/ DeleteLeft
  <2>1. /\ HandlerWrites
        /\ writes' = IF groups' = groups THEN writes ELSE writes + 1
    BY <1>3, HandlersWrite DEF CountInv
  <2>2. CASE groups' = groups
    BY <1>2, <2>1, <2>2 DEF HandlerWrites, world, vars
  <2>3. CASE groups' # groups
    <3>1. writes < MaxChurn * (MaxRedeliveries + 1)
      BY <1>3, RoomForWrites DEF AddJoined, DeleteLeft
    <3>2. writes' = writes + 1 /\ UNCHANGED <<capabilities, nextId, churn, job, faults>>
      BY <2>1, <2>3 DEF HandlerWrites, world
    <3>3. PICK k : k = MaxChurn * (MaxRedeliveries + 1)
      OBVIOUS
    <3>4. churn + writes < MaxChurn + k /\ churn' + writes' = churn + writes + 1
      BY <3>1, <3>2, <3>3, RoomForWrites
    <3>5. C!Churn
      BY <3>3, <3>4 DEF C!Churn
    <3>6. \E g \in DOMAIN groups, u \in Directory :
            groups' \in {C!WithMember(g, u), C!WithoutMember(g, u)}
      BY <2>1, <2>3, SameOperators DEF HandlerWrites
    <3>7. C!DirectoryChange
      BY <3>2, <3>5, <3>6 DEF C!DirectoryChange
    <3> QED
      BY <3>7 DEF C!Next
  <2> QED
    BY <2>2, <2>3
<1>4. CASE MembershipChange \/ CapabilityGoes
  <2>1. /\ UNCHANGED <<groups, nextId, job, faults, writes>> /\ Churn
        /\ \E c \in Capabilities :
             \/ \E S \in SUBSET Users :
                  capabilities' = [d \in DOMAIN capabilities \cup {c} |->
                                     IF d = c THEN S ELSE capabilities[d]]
             \/ /\ c \in DOMAIN capabilities
                /\ capabilities' = [d \in DOMAIN capabilities \ {c} |-> capabilities[d]]
    BY <1>4, MembershipIsChange DEF CountInv
  <2>2. PICK k : k = MaxChurn * (MaxRedeliveries + 1)
    OBVIOUS
  <2>3. churn + writes < MaxChurn + k /\ churn' + writes' = churn + writes + 1
    BY <2>1, <2>2, RoomForWrites DEF Churn
  <2>4. C!Churn
    BY <2>2, <2>3 DEF C!Churn
  <2>5. C!ServiceChange
    BY <2>1, <2>4 DEF C!ServiceChange
  <2> QED
    BY <2>5 DEF C!Next
<1> QED
  BY <1>1, <1>2, <1>3, <1>4
  DEF MemberNext, HandlerStep, FindCapability, FindGroup, PatchAws, Redeliver,
      AzureProvisions, memberVars, eventVars

LEMMA MemberInitImplements == MemberInit => C!Init
<1> SUFFICES ASSUME MemberInit PROVE C!Init
  OBVIOUS
<1>1. churn + writes = 0
  BY DEF MemberInit, Init
<1>2. C!Group = Group
  BY DEF C!Group, Group
<1> QED
  BY <1>1, <1>2, SameOperators DEF MemberInit, Init, C!Init

\* The event handlers do nothing that the model of the job by itself does not
\* allow for: each write to the unit is one change of a member by others, as
\* often as events are redelivered.  What holds there holds here.
THEOREM AbstractsAlways == MemberSpec => Abstracts
<1>1. CountInv /\ [MemberNext]_memberVars => [C!Next]_C!vars
  BY MemberStepImplements
<1> QED
  BY <1>1, MemberInitImplements, CountAlways, PTL DEF MemberSpec, Abstracts, C!Spec

-----------------------------------------------------------------------------
(* The job's own invariants hold beside the event handlers too *)

LEMMA HandlersSafe ==
  ASSUME EliminationInv, HandlerWrites
  PROVE  SafeWrite /\ SameNames(groups, groups')
<1>1. nextId' = nextId
  BY DEF HandlerWrites, world
<1>2. CASE UNCHANGED groups
  BY <1>1, <1>2, GroupWrites, MembersOnly
<1>3. CASE \E g \in DOMAIN groups, u \in Directory :
             groups' \in {WithMember(g, u), WithoutMember(g, u)}
  BY <1>1, <1>3, GroupWrites, MembersOnly
<1> QED
  BY <1>2, <1>3 DEF HandlerWrites

LEMMA MemberWrites ==
  ASSUME EliminationInv, [MemberNext]_memberVars
  PROVE  SafeWrite
BY MemberStep, StepWrites, HandlersSafe DEF EliminationInv

LEMMA MemberEliminationNext ==
  EliminationInv /\ [MemberNext]_memberVars => EliminationInv'
<1> SUFFICES ASSUME EliminationInv, [MemberNext]_memberVars PROVE EliminationInv'
  OBVIOUS
<1>1. CASE [Next]_vars
  BY <1>1, EliminationNext
<1>2. CASE HandlerWrites
  <2>1. TypeOK'
    BY MemberTypeKept DEF EliminationInv
  <2>2. job' = job
    BY <1>2 DEF HandlerWrites
  <2> QED
    BY <1>2, <2>1, <2>2, HandlersSafe, EliminationKept
<1> QED
  BY <1>1, <1>2, MemberStep DEF EliminationInv

LEMMA MemberAloneNext ==
  ASSUME Alone, AloneInv, [MemberNext]_memberVars
  PROVE  AloneInv'
<1>1. CASE [Next]_vars
  BY <1>1, AloneNext
<1>2. CASE HandlerWrites
  <2>1. EliminationInv' /\ SameNames(groups, groups')
    BY <1>2, MemberEliminationNext, HandlersSafe DEF AloneInv
  <2>2. job' = job /\ faults' = faults
    BY <1>2 DEF HandlerWrites
  <2>3. \A r \in Runners : RunAlone(job[r], groups', faults)
    BY <2>1, SameNamesAlone DEF AloneInv
  <2> QED
    BY <2>1, <2>2, <2>3 DEF AloneInv, RunAlone, HoldsExisting, LessOne, SeesAll
<1> QED
  BY <1>1, <1>2, MemberStep DEF AloneInv, EliminationInv

\* Beside the handlers too, however many runs there are: the oldest group of
\* every capability is never deleted.
THEOREM OldestGroupKeptBesideEvents == MemberSpec => OldestGroupKept
<1> DEFINE Kept == \A g \in DOMAIN groups :
                     (\A h \in GroupsOf(groups[g].cap) : g <= h) => g \in DOMAIN groups'
<1>1. MemberInit => EliminationInv
  BY EliminationInit DEF MemberInit
<1>2. EliminationInv /\ [MemberNext]_memberVars => [Kept]_vars
  BY MemberWrites, OldestKept DEF EliminationInv
<1> QED
  BY <1>1, <1>2, MemberEliminationNext, PTL DEF MemberSpec, OldestGroupKept

\* Beside the handlers too, a runner by itself works on groups that exist and,
\* without failures, on one per capability.
THEOREM AloneBesideEvents ==
  ASSUME Alone
  PROVE  MemberSpec => [](CachedGroupsExist /\ NoDuplicatesLeft)
<1>1. MemberInit => AloneInv
  BY AloneInit DEF MemberInit
<1>2. AloneInv /\ [MemberNext]_memberVars => AloneInv'
  BY MemberAloneNext
<1> QED
  BY <1>1, <1>2, AloneShows, PTL DEF MemberSpec

-----------------------------------------------------------------------------
(* The last event decides: what is proved between the events *)

About(i, c, u) == log[i].cap = c /\ log[i].user = u

(* The log has an event about the user, and the last one is at s or before. *)
Decided(c, u, s) ==
  /\ \E i \in DOMAIN log : i <= s /\ About(i, c, u)
  /\ \A i \in DOMAIN log : i > s => ~About(i, c, u)

(* The last event whose write to the unit is done. *)
Handled == IF ev.phase = "scim" THEN pos ELSE pos - 1

(* The last event about a user says whether it is a member. *)
LogTells ==
  \A i \in DOMAIN log :
    /\ log[i].cap \in DOMAIN capabilities
    /\ \A k \in DOMAIN log : k > i => ~About(k, log[i].cap, log[i].user)
    => (log[i].kind = "joined" <=> log[i].user \in capabilities[log[i].cap])

OneGroup == \A g, h \in DOMAIN groups : groups[g].cap = groups[h].cap => g = h

(* What a run has read is current, and it writes to the right group. *)
KnowsCurrent(run) ==
  /\ run.phase # "idle" =>
       \A c \in DOMAIN capabilities :
         c \in DOMAIN run.known /\ run.known[c] = capabilities[c]
  /\ \A c \in DOMAIN run.azure : run.azure[c].id \in GroupsOf(c)
  /\ run.adds \cup run.removes # {} =>
       /\ run.phase = "sync" /\ run.cap \in DOMAIN run.known
       /\ run.group \in GroupsOf(run.cap)
  /\ run.adds # {} => run.adds \subseteq run.known[run.cap]

HandlerKnows == ev.phase = "write" => ev.group \in GroupsOf(log[pos].cap)

(* What is in AWS has come from the unit, members as users. *)
AwsKnown == \A c \in DOMAIN aws : aws[c] \subseteq awsUsers /\ GroupsOf(c) # {}

(* The run has created the group and has not yet come to the user. *)
Adding(run, g, c, u) ==
  /\ run.phase = "sync" /\ run.cap = c /\ run.group = g
  /\ c \notin DOMAIN run.azure /\ u \in run.adds

(* The group is right about the user, but for what a run is about to add to *)
(* a group it has created.                                                   *)
Shows(g, c, u) ==
  /\ u \in groups[g].members => u \in capabilities[c]
  /\ u \in capabilities[c] =>
       u \in groups[g].members \/ \E r \in Runners : Adding(job[r], g, c, u)

(* The unit is right about every user with no event left to handle.         *)
AzureRight ==
  \A c \in DOMAIN capabilities, u \in Directory :
    Decided(c, u, Handled) => \A g \in GroupsOf(c) : Shows(g, c, u)

(* AWS is handled after the unit, and keeps nobody who has left.             *)
AwsRight ==
  \A c \in DOMAIN capabilities \cap DOMAIN aws, u \in Directory :
    Decided(c, u, pos - 1) /\ u \in aws[c] => u \in capabilities[c]

Undisturbed == /\ failures = 0 /\ faults = 0 /\ ~crossed
               /\ External \subseteq Directory

Settled == /\ OneGroup /\ (\A r \in Runners : KnowsCurrent(job[r])) /\ HandlerKnows
           /\ AwsKnown /\ AzureRight /\ AwsRight

DecideInv ==
  /\ CountInv /\ AloneInv
  /\ failures \in Nat
  /\ crossed \in BOOLEAN
  /\ LogTells
  /\ Undisturbed => Settled

LEMMA DecideTypes ==
  ASSUME DecideInv
  PROVE  /\ DOMAIN job = Runners /\ \A r \in Runners : RunOK(job[r])
         /\ DOMAIN groups \subseteq GroupIds /\ groups \in [DOMAIN groups -> Group]
         /\ DOMAIN capabilities \subseteq Capabilities
         /\ capabilities \in [DOMAIN capabilities -> SUBSET Users]
         /\ log \in Seq(Event) /\ Len(log) \in Nat /\ DOMAIN log = 1..Len(log)
         /\ pos \in 1..(Len(log) + 1)
         /\ ev.phase # "idle" => pos \in DOMAIN log
         /\ ev \in [phase : EvPhase, group : GroupIds \cup {0}]
         /\ Handled \in 0..Len(log) /\ pos - 1 <= Handled
         /\ faults \in Nat /\ failures \in Nat
<1>1. TypeOK /\ MemberTypeOK /\ failures \in Nat
  BY DEF DecideInv, CountInv
<1>2. /\ log \in Seq(Event) /\ pos \in 1..(Len(log) + 1)
      /\ ev.phase # "idle" => pos <= Len(log)
  BY <1>1 DEF MemberTypeOK
<1>3. Len(log) \in Nat /\ DOMAIN log = 1..Len(log)
  BY <1>2
<1>4. Handled \in 0..Len(log) /\ pos - 1 <= Handled
  BY <1>2, <1>3 DEF Handled
<1>5. ev \in [phase : EvPhase, group : GroupIds \cup {0}]
  BY <1>1 DEF MemberTypeOK
<1> QED
  BY <1>1, <1>2, <1>3, <1>4, <1>5, PartialFcn, BoundsAssumption DEF TypeOK

\* Of a user whom the event in hand is not about, nothing changes with it.
LEMMA DecidedBefore ==
  ASSUME DecideInv, NEW c, NEW u, Decided(c, u, pos), pos \in DOMAIN log => ~About(pos, c, u)
  PROVE  Decided(c, u, pos - 1)
<1>1. /\ pos \in Nat /\ DOMAIN log \subseteq Nat
  BY DecideTypes
<1>2. PICK i \in DOMAIN log : i <= pos /\ About(i, c, u)
  BY DEF Decided
<1>3. i <= pos - 1
  BY <1>1, <1>2
<1>4. \A k \in DOMAIN log : k > pos - 1 => k = pos \/ k > pos
  BY <1>1
<1> QED
  BY <1>2, <1>3, <1>4 DEF Decided

\* What is decided early is decided later.
LEMMA DecidedLater ==
  ASSUME DecideInv, NEW c, NEW u, NEW s \in Nat, NEW t \in Nat, s <= t, Decided(c, u, s)
  PROVE  Decided(c, u, t)
<1>1. DOMAIN log \subseteq Nat
  BY DecideTypes
<1> QED
  BY <1>1 DEF Decided

\* The event in hand is the last about its user: it says what is right.
LEMMA LastTells ==
  ASSUME DecideInv, NEW c \in DOMAIN capabilities, NEW u, pos \in DOMAIN log,
         About(pos, c, u), Decided(c, u, pos)
  PROVE  log[pos].kind = "joined" <=> u \in capabilities[c]
BY DEF DecideInv, LogTells, Decided, About

\* Nothing that disturbs goes away again.
LEMMA StaysDisturbed ==
  ASSUME DecideInv, [MemberNext]_memberVars, Undisturbed'
  PROVE  /\ Undisturbed /\ Settled
         /\ UNCHANGED <<failures, faults>> /\ ~Fault /\ ~Fails
<1>0. failures \in Nat /\ faults \in Nat
  BY DecideTypes
<1>1. HandlerStep => UNCHANGED failures \/ Fails
  BY DEF HandlerStep, FindCapability, FindGroup, AddJoined, DeleteLeft, PatchAws
<1>2. HandlerStep => UNCHANGED <<faults, crossed>>
  BY DEF HandlerStep, FindCapability, FindGroup, AddJoined, DeleteLeft, PatchAws, vars
<1>3. \A r \in Runners : Step(r) \/ Killed(r) => UNCHANGED faults \/ Fault
  BY RestStep DEF DecideInv, CountInv, Killed
<1>4. \/ HandlerStep
      \/ (\E r \in Runners : Step(r) \/ Killed(r)) /\ UNCHANGED <<failures, crossed>>
      \/ UNCHANGED <<failures, faults>> /\ (crossed => crossed')
  BY DEF MemberNext, Redeliver, MembershipChange, CapabilityGoes, AzureProvisions,
         memberVars, eventVars, vars
<1>5. /\ UNCHANGED failures \/ Fails
      /\ UNCHANGED faults \/ Fault
      /\ crossed => crossed'
  BY <1>1, <1>2, <1>3, <1>4
<1>6. failures' = 0 /\ faults' = 0 /\ ~crossed' /\ External \subseteq Directory
  BY DEF Undisturbed
<1>7. UNCHANGED <<failures, faults>> /\ ~Fault /\ ~Fails
  BY <1>0, <1>5, <1>6 DEF Fault, Fails
<1> QED
  BY <1>5, <1>6, <1>7 DEF DecideInv, Undisturbed

-----------------------------------------------------------------------------
(* The last event decides: the steps of the job *)

\* A step of a run deletes no group, and where a group was right it stays so.
LEMMA JobSettles ==
  ASSUME Alone, Settled, NEW r \in Runners,
         UNCHANGED <<capabilities, eventVars>>,
         OneGroup', KnowsCurrent(job[r])',
         \A c : GroupsOf(c) \subseteq GroupsOf(c)',
         \A g \in DOMAIN groups : g \in DOMAIN groups' /\ groups'[g].cap = groups[g].cap,
         \A c \in DOMAIN capabilities, u \in Directory : \A g :
           g \in GroupsOf(c)' /\ (g \in GroupsOf(c) => Shows(g, c, u)) => Shows(g, c, u)'
  PROVE  Settled'
<1>1. UNCHANGED <<log, pos, ev, aws, awsUsers, capabilities>>
  BY DEF eventVars, store
<1>2. \A q \in Runners : KnowsCurrent(job[q])'
  BY DEF Alone
<1>3. HandlerKnows'
  BY <1>1 DEF Settled, HandlerKnows, GroupsOf
<1>4. AwsKnown'
  BY <1>1 DEF Settled, AwsKnown
<1>5. AwsRight'
  BY <1>1 DEF Settled, AwsRight, Decided, About
<1>6. AzureRight'
  <2>1. Handled' = Handled
    BY <1>1 DEF Handled
  <2>2. ASSUME NEW c, NEW u, Decided(c, u, Handled)' PROVE Decided(c, u, Handled)
    BY <1>1, <2>1, <2>2 DEF Decided, About
  <2> QED
    BY <1>1, <2>2 DEF Settled, AzureRight
<1> QED
  BY <1>2, <1>3, <1>4, <1>5, <1>6 DEF Settled

\* While the unit does not change, only the run's own knowledge is at stake.
LEMMA QuietSettles ==
  ASSUME Alone, Settled, NEW r \in Runners,
         UNCHANGED <<capabilities, groups, eventVars>>,
         KnowsCurrent(job[r])',
         job[r].phase # "sync" \/ job[r].adds = {}
  PROVE  Settled'
<1>1. OneGroup'
  BY DEF Settled, OneGroup
<1>2. \A c : GroupsOf(c)' = GroupsOf(c)
  BY DEF GroupsOf
<1>3. \A g, c, u : \A q \in Runners : ~Adding(job[q], g, c, u)
  BY DEF Adding, Alone
<1>4. \A g, c, u : Shows(g, c, u) => Shows(g, c, u)'
  BY <1>3 DEF Shows
<1> QED
  BY <1>1, <1>2, <1>4, JobSettles

\* A run that begins reads the capabilities; one that returns knows nothing.
LEMMA BeginsCurrent ==
  ASSUME DecideInv, NEW r \in Runners,
         GetCapabilities(r) \/ (Return(r) /\ UNCHANGED <<capabilities, groups>>)
  PROVE  KnowsCurrent(job[r])'
<1>0. DOMAIN job = Runners
  BY DecideTypes
<1>1. CASE GetCapabilities(r)
  <2> DEFINE run == [Idle EXCEPT !.phase = "list", !.known = capabilities]
  <2>1. job'[r] = run /\ UNCHANGED <<capabilities, groups>>
    BY <1>0, <1>1 DEF GetCapabilities, world
  <2>2. /\ run.known = capabilities /\ DOMAIN run.azure = {}
        /\ run.adds = {} /\ run.removes = {}
    BY DEF Idle, EmptyFcn
  <2> HIDE DEF run
  <2> QED
    BY <2>1, <2>2 DEF KnowsCurrent
<1>2. CASE Return(r)
  <2>1. job'[r] = Idle
    BY <1>0, <1>2 DEF Return
  <2>2. /\ Idle.phase = "idle" /\ DOMAIN Idle.azure = {}
        /\ Idle.adds = {} /\ Idle.removes = {}
    BY DEF Idle, EmptyFcn
  <2> QED
    BY <2>1, <2>2 DEF KnowsCurrent
<1> QED
  BY <1>1, <1>2

\* Nothing is deleted: what has an elder would have a second group's name.
LEMMA NothingToDelete ==
  ASSUME DecideInv, Settled, NEW r \in Runners, NEW g \in job[r].victims
  PROVE  g \notin DOMAIN groups
<1>1. g \in DOMAIN groups => \E h \in GroupsOf(groups[g].cap) : h < g
  BY DEF DecideInv, AloneInv, EliminationInv, VictimsHaveElders
<1>2. DOMAIN groups \subseteq Nat
  BY DecideTypes, BoundsAssumption DEF GroupIds
<1> QED
  BY <1>1, <1>2 DEF Settled, OneGroup, GroupsOf

\* The steps of a run before it comes to the members.
LEMMA PreparesCurrent ==
  ASSUME DecideInv, Settled, faults' = 0, NEW r \in Runners,
         \/ ListMembers(r) \/ ListAgain(r) \/ AllFetched(r)
         \/ \E g \in job[r].fetch : FetchMembers(r, g)
         \/ \E c \in job[r].todo : UseGroup(r, c)
  PROVE  /\ UNCHANGED <<capabilities, groups>>
         /\ KnowsCurrent(job[r])'
         /\ job[r].phase # "sync" \/ job[r].adds = {}
<1>0. DOMAIN job = Runners /\ RunOK(job[r]) /\ KnowsCurrent(job[r]) /\ faults \in Nat
  BY DecideTypes DEF Settled
<1>1. UNCHANGED <<capabilities, groups>>
  BY DEF ListMembers, ListAgain, AllFetched, FetchMembers, UseGroup, world
<1>2. job[r].phase # "sync" \/ (job[r].adds = {} /\ job[r].removes = {})
  BY DEF ListMembers, ListAgain, AllFetched, FetchMembers, UseGroup, BetweenCapabilities
<1>3. job[r].phase # "idle" /\ job[r].adds = {} /\ job[r].removes = {}
  BY <1>0, <1>2 DEF ListMembers, ListAgain, AllFetched, FetchMembers, UseGroup,
     BetweenCapabilities, KnowsCurrent
<1>4. ASSUME /\ job'[r].phase # "idle" /\ job'[r].known = job[r].known
             /\ job'[r].azure = job[r].azure
             /\ job'[r].adds = {} /\ job'[r].removes = {}
      PROVE  KnowsCurrent(job[r])'
  BY <1>0, <1>1, <1>3, <1>4 DEF KnowsCurrent, GroupsOf
<1>5. CASE ListMembers(r)
  <2>1. PICK l, x : job' = [job EXCEPT ![r].phase = "eliminate", ![r].listing = l,
                                       ![r].victims = x]
    BY <1>5 DEF ListMembers
  <2>2. /\ job'[r].phase = "eliminate" /\ job'[r].known = job[r].known
        /\ job'[r].azure = job[r].azure
        /\ job'[r].adds = job[r].adds /\ job'[r].removes = job[r].removes
    BY <1>0, <2>1 DEF RunOK, Idle
  <2> QED
    BY <1>1, <1>3, <1>4, <2>2
<1>6. CASE ListAgain(r)
  <2>1. PICK l, x : job' = [job EXCEPT ![r].phase = "fetch", ![r].listing = l,
                                       ![r].fetch = x, ![r].cap = NoCapability]
    BY <1>6 DEF ListAgain
  <2>2. /\ job'[r].phase = "fetch" /\ job'[r].known = job[r].known
        /\ job'[r].azure = job[r].azure
        /\ job'[r].adds = job[r].adds /\ job'[r].removes = job[r].removes
    BY <1>0, <2>1 DEF RunOK, Idle
  <2> QED
    BY <1>1, <1>3, <1>4, <2>2
<1>7. CASE AllFetched(r)
  <2>1. /\ job'[r].phase = "sync" /\ job'[r].known = job[r].known
        /\ job'[r].azure = job[r].azure
        /\ job'[r].adds = job[r].adds /\ job'[r].removes = job[r].removes
    BY <1>0, <1>7 DEF AllFetched, RunOK, Idle
  <2> QED
    BY <1>1, <1>3, <1>4, <2>1
<1>8. ASSUME NEW g \in job[r].fetch, FetchMembers(r, g)
      PROVE  KnowsCurrent(job[r])'
  <2>1. PICK S : job' = [job EXCEPT ![r].fetch = @ \ {g},
                                    ![r].azure = Store(@, job[r].listing[g], g, S)]
    <3>1. ~Fault
      BY <1>0 DEF Fault
    <3> QED
      BY <1>8, <3>1 DEF FetchMembers
  <2> DEFINE azure == Store(job[r].azure, job[r].listing[g], g, S)
  <2>2. g \in GroupsOf(job[r].listing[g])
    <3>1. job[r].phase = "fetch" /\ faults = 0 /\ RunAlone(job[r], groups, faults)
      BY <1>0, <1>8 DEF FetchMembers, Fault, DecideInv, AloneInv
    <3> QED
      BY <3>1 DEF RunAlone, HoldsExisting, SeesAll, GroupsOf
  <2>3. \A c \in DOMAIN azure : azure[c].id \in GroupsOf(c)
    BY <1>0, <2>2 DEF Store, KnowsCurrent
  <2>4. job' = [job EXCEPT ![r].fetch = @ \ {g}, ![r].azure = azure]
    BY <2>1
  <2> HIDE DEF azure
  <2>5. /\ job'[r].phase = job[r].phase /\ job'[r].known = job[r].known
        /\ job'[r].azure = azure
        /\ job'[r].adds = job[r].adds /\ job'[r].removes = job[r].removes
    BY <1>0, <2>4 DEF RunOK, Idle
  <2> QED
    BY <1>0, <1>1, <1>3, <2>3, <2>5 DEF KnowsCurrent, GroupsOf
<1>9. ASSUME NEW c \in job[r].todo, UseGroup(r, c)
      PROVE  KnowsCurrent(job[r])'
  <2> DEFINE cached == job[r].azure[c]
             wanted == job[r].known[c]
             adds == ToAdd(wanted, cached.members)
             removes == ToRemove(wanted, cached.members)
  <2>1. job' = [job EXCEPT ![r].todo = @ \ {c}, ![r].cap = c, ![r].group = cached.id,
                           ![r].adds = adds, ![r].removes = removes]
    BY <1>9 DEF UseGroup
  <2>2. adds \subseteq wanted /\ c \in DOMAIN job[r].known /\ cached.id \in GroupsOf(c)
    BY <1>0, <1>9 DEF UseGroup, ToAdd, RunOK, KnowsCurrent
  <2>3. job[r].phase = "sync"
    BY <1>9 DEF UseGroup, BetweenCapabilities
  <2> HIDE DEF adds, removes
  <2>4. /\ job'[r].phase = "sync" /\ job'[r].known = job[r].known
        /\ job'[r].azure = job[r].azure /\ job'[r].cap = c /\ job'[r].group = cached.id
        /\ job'[r].adds = adds
    BY <1>0, <2>1, <2>3 DEF RunOK, Idle
  <2> QED
    BY <1>0, <1>1, <1>3, <2>2, <2>4 DEF KnowsCurrent, GroupsOf
<1> QED
  BY <1>1, <1>3, <1>5, <1>6, <1>7, <1>8, <1>9

\* A group is created for a capability that has none, and its members are all
\* still to be added.
LEMMA CreateSettles ==
  ASSUME Alone, DecideInv, Settled, UNCHANGED eventVars, faults' = 0,
         NEW r \in Runners, NEW c \in job[r].todo, CreateGroup(r, c)
  PROVE  Settled'
<1>0. /\ DOMAIN job = Runners /\ RunOK(job[r]) /\ KnowsCurrent(job[r])
      /\ faults \in Nat /\ c \in DOMAIN job[r].known
  BY DecideTypes DEF Settled, RunOK
<1>1. ~Fault
  BY <1>0 DEF Fault
<1>2. /\ groups' = WithGroup(nextId, c) /\ UNCHANGED <<capabilities, faults>>
      /\ job' = [job EXCEPT ![r].todo = @ \ {c}, ![r].cap = c,
                            ![r].group = nextId, ![r].adds = job[r].known[c]]
  BY <1>1 DEF CreateGroup
<1>3. /\ job[r].phase = "sync" /\ job[r].adds = {} /\ job[r].removes = {}
      /\ c \notin DOMAIN job[r].azure
  BY DEF CreateGroup, BetweenCapabilities
<1>4. /\ job'[r].phase = "sync" /\ job'[r].known = job[r].known
      /\ job'[r].azure = job[r].azure /\ job'[r].cap = c /\ job'[r].group = nextId
      /\ job'[r].adds = job[r].known[c] /\ job'[r].removes = {}
  BY <1>0, <1>2, <1>3 DEF RunOK, Idle
<1>5. /\ DOMAIN groups' = DOMAIN groups \cup {nextId}
      /\ groups'[nextId].cap = c /\ groups'[nextId].members = {}
      /\ \A g \in DOMAIN groups \ {nextId} : groups'[g] = groups[g]
  BY <1>2 DEF WithGroup
<1>6. nextId \notin DOMAIN groups
  BY BoundsAssumption DEF DecideInv, AloneInv, EliminationInv, IdsUsed, TypeOK
<1>7. \A g \in DOMAIN groups : groups[g].cap # c
  <2>1. RunAlone(job[r], groups, faults) /\ faults = 0
    BY <1>2 DEF DecideInv, AloneInv
  <2> QED
    BY <1>3, <2>1 DEF RunAlone, SeesAll
<1>8. OneGroup'
  BY <1>5, <1>7 DEF Settled, OneGroup
<1>9. \A d : GroupsOf(d) \subseteq GroupsOf(d)'
  BY <1>5, <1>6 DEF GroupsOf
<1>10. KnowsCurrent(job[r])'
  <2>1. nextId \in GroupsOf(c)'
    BY <1>5 DEF GroupsOf
  <2>2. \A d \in DOMAIN job[r].azure : job[r].azure[d].id \in GroupsOf(d)'
    BY <1>0, <1>9 DEF KnowsCurrent
  <2> QED
    BY <1>0, <1>2, <1>3, <1>4, <2>1, <2>2 DEF KnowsCurrent
<1>11. ASSUME NEW d \in DOMAIN capabilities, NEW u \in Directory, NEW g,
              g \in GroupsOf(d)', g \in GroupsOf(d) => Shows(g, d, u)
       PROVE  Shows(g, d, u)'
  <2>1. CASE g = nextId
    <3>1. d = c /\ capabilities'[d] = job'[r].adds
      BY <1>0, <1>2, <1>3, <1>4, <1>5, <1>11, <2>1 DEF GroupsOf, KnowsCurrent
    <3> QED
      BY <1>3, <1>4, <1>5, <2>1, <3>1 DEF Shows, Adding
  <2>2. CASE g # nextId
    <3>1. g \in GroupsOf(d) /\ groups'[g] = groups[g]
      BY <1>5, <1>11, <2>2 DEF GroupsOf
    <3>2. \A q \in Runners : ~Adding(job[q], g, d, u)
      BY <1>3 DEF Adding, Alone
    <3> QED
      BY <1>2, <1>11, <3>1, <3>2 DEF Shows
  <2> QED
    BY <2>1, <2>2
<1> QED
  BY <1>2, <1>5, <1>6, <1>8, <1>9, <1>10, <1>11, JobSettles

\* A write of members leaves the names and every other member.
LEMMA MemberWrite ==
  ASSUME NEW g, NEW u
  PROVE  /\ groups' = WithMember(g, u) =>
              \A h \in DOMAIN groups : \A v :
                v \in groups'[h].members <=> v \in groups[h].members \/ (h = g /\ v = u)
         /\ groups' = WithoutMember(g, u) =>
              \A h \in DOMAIN groups : \A v :
                v \in groups'[h].members <=> v \in groups[h].members /\ ~(h = g /\ v = u)
BY DEF WithMember, WithoutMember, SetMembers

\* With the same names, what only depends on the names stays.
LEMMA NamesKept ==
  ASSUME Settled, SameNames(groups, groups')
  PROVE  OneGroup' /\ \A c : GroupsOf(c)' = GroupsOf(c)
BY DEF Settled, OneGroup, SameNames, GroupsOf

\* A run adds whom the capability lists, and forgets nobody it has to add to a
\* group it has created.
LEMMA AddSettles ==
  ASSUME Alone, DecideInv, Settled, UNCHANGED eventVars, faults' = 0,
         External \subseteq Directory,
         NEW r \in Runners, NEW u \in job[r].adds, AddMember(r, u)
  PROVE  Settled'
<1>0. /\ DOMAIN job = Runners /\ RunOK(job[r]) /\ KnowsCurrent(job[r])
      /\ faults \in Nat
  BY DecideTypes DEF Settled
<1>1. ~Fault /\ ~NotFoundViaEmail(u)
  BY <1>0 DEF Fault, NotFoundViaEmail
<1>2. /\ job' = [job EXCEPT ![r].adds = @ \ {u}]
      /\ groups' = IF u \in Directory \ SeenMembers(r)
                   THEN WithMember(job[r].group, u) ELSE groups
      /\ UNCHANGED capabilities
  BY <1>1 DEF AddMember, world
<1>3. /\ job'[r].phase = job[r].phase /\ job'[r].known = job[r].known
      /\ job'[r].azure = job[r].azure /\ job'[r].cap = job[r].cap
      /\ job'[r].group = job[r].group /\ job'[r].adds = job[r].adds \ {u}
      /\ job'[r].removes = job[r].removes
  BY <1>0, <1>2 DEF RunOK, Idle
<1>4. SameNames(groups, groups')
  BY <1>2, MembersOnly
<1>5. OneGroup' /\ \A c : GroupsOf(c)' = GroupsOf(c)
  BY <1>4, NamesKept
<1>6. KnowsCurrent(job[r])'
  BY <1>0, <1>2, <1>3, <1>5 DEF KnowsCurrent
<1>7. /\ job[r].phase = "sync" /\ u \in job[r].known[job[r].cap]
      /\ job[r].group \in GroupsOf(job[r].cap)
      /\ \A c \in DOMAIN capabilities : job[r].known[c] = capabilities[c]
  BY <1>0 DEF KnowsCurrent, AddMember
<1>8. ASSUME NEW c \in DOMAIN capabilities, NEW v \in Directory, NEW g \in GroupsOf(c),
             Shows(g, c, v)
      PROVE  Shows(g, c, v)'
  <2>0. g \in DOMAIN groups /\ capabilities'[c] = capabilities[c]
    BY <1>2 DEF GroupsOf
  <2>1. /\ v \in groups[g].members => v \in groups'[g].members
        /\ v \in groups'[g].members => v \in groups[g].members \/ (g = job[r].group /\ v = u)
    BY <1>2, <2>0, MemberWrite
  <2>2. g = job[r].group => c = job[r].cap
    BY <1>7 DEF GroupsOf
  <2>3. v \in groups'[g].members => v \in capabilities[c]
    BY <1>7, <1>8, <2>1, <2>2 DEF Shows
  <2>4. ASSUME Adding(job[r], g, c, v)
        PROVE  v \in groups'[g].members \/ Adding(job'[r], g, c, v)
    <3>1. CASE v = u
      <4>1. groups' = WithMember(job[r].group, u) /\ g = job[r].group
        BY <1>2, <2>4, <3>1 DEF Adding, SeenMembers
      <4> QED
        BY <2>0, <3>1, <4>1, MemberWrite
    <3>2. CASE v # u
      BY <1>3, <2>4, <3>2 DEF Adding
    <3> QED
      BY <3>1, <3>2
  <2>5. v \in capabilities[c] => v \in groups'[g].members \/ Adding(job'[r], g, c, v)
    BY <1>8, <2>1, <2>4 DEF Shows, Alone
  <2> QED
    BY <2>0, <2>3, <2>5 DEF Shows
<1> QED
  BY <1>2, <1>4, <1>5, <1>6, <1>8, JobSettles DEF SameNames

\* A run removes whom the capability does not list.
LEMMA RemoveSettles ==
  ASSUME Alone, DecideInv, Settled, UNCHANGED eventVars, faults' = 0,
         NEW r \in Runners, NEW u \in job[r].removes, RemoveMember(r, u)
  PROVE  Settled'
<1>0. /\ DOMAIN job = Runners /\ RunOK(job[r]) /\ KnowsCurrent(job[r])
      /\ faults \in Nat
  BY DecideTypes DEF Settled
<1>1. ~Fault /\ ~MailUnread(u)
  BY <1>0 DEF Fault, MailUnread
<1>2. /\ job' = [job EXCEPT ![r].removes = @ \ {u}]
      /\ groups' = IF u \in job[r].known[job[r].cap] THEN groups
                   ELSE WithoutMember(job[r].group, u)
      /\ UNCHANGED capabilities
  BY <1>1 DEF RemoveMember, world
<1>3. /\ job'[r].phase = job[r].phase /\ job'[r].known = job[r].known
      /\ job'[r].azure = job[r].azure /\ job'[r].cap = job[r].cap
      /\ job'[r].group = job[r].group /\ job'[r].adds = job[r].adds
      /\ job'[r].removes = job[r].removes \ {u}
  BY <1>0, <1>2 DEF RunOK, Idle
<1>4. SameNames(groups, groups')
  BY <1>2, MembersOnly
<1>5. OneGroup' /\ \A c : GroupsOf(c)' = GroupsOf(c)
  BY <1>4, NamesKept
<1>6. KnowsCurrent(job[r])'
  BY <1>0, <1>2, <1>3, <1>5 DEF KnowsCurrent
<1>7. /\ job[r].phase = "sync" /\ job[r].adds = {}
      /\ job[r].group \in GroupsOf(job[r].cap)
      /\ \A c \in DOMAIN capabilities : job[r].known[c] = capabilities[c]
  BY <1>0 DEF KnowsCurrent, RemoveMember
<1>8. ASSUME NEW c \in DOMAIN capabilities, NEW v \in Directory, NEW g \in GroupsOf(c),
             Shows(g, c, v)
      PROVE  Shows(g, c, v)'
  <2>0. g \in DOMAIN groups /\ capabilities'[c] = capabilities[c]
    BY <1>2 DEF GroupsOf
  <2>1. g = job[r].group => c = job[r].cap
    BY <1>7 DEF GroupsOf
  <2>2. /\ v \in groups'[g].members => v \in groups[g].members
        /\ v \in groups[g].members /\ v \in capabilities[c] => v \in groups'[g].members
    BY <1>2, <1>7, <2>0, <2>1, MemberWrite
  <2>3. \A q \in Runners : ~Adding(job[q], g, c, v)
    BY <1>7 DEF Adding, Alone
  <2> QED
    BY <1>8, <2>0, <2>2, <2>3 DEF Shows
<1> QED
  BY <1>2, <1>4, <1>5, <1>6, <1>8, JobSettles DEF SameNames

-----------------------------------------------------------------------------
(* The last event decides: the steps of the handlers and of the world *)

\* The log tells the truth about the capabilities, and goes on to: each change
\* of a membership is published as it is made.
LEMMA LogTellsNext ==
  ASSUME DecideInv, [MemberNext]_memberVars
  PROVE  LogTells'
<1>0. /\ LogTells /\ log \in Seq(Event) /\ DOMAIN log = 1..Len(log) /\ Len(log) \in Nat
      /\ capabilities \in [DOMAIN capabilities -> SUBSET Users]
  BY DecideTypes DEF DecideInv
<1>1. CASE /\ UNCHANGED log
           /\ DOMAIN capabilities' \subseteq DOMAIN capabilities
           /\ \A c \in DOMAIN capabilities' : capabilities'[c] = capabilities[c]
  BY <1>0, <1>1 DEF LogTells, About
<1>2. CASE MembershipChange
  <2>1. PICK c \in DOMAIN capabilities, u \in Users :
          /\ capabilities' = [capabilities EXCEPT
                                ![c] = IF u \notin capabilities[c] THEN @ \cup {u} ELSE @ \ {u}]
          /\ log' = Append(log, [kind |-> IF u \notin capabilities[c] THEN "joined" ELSE "left",
                                 cap |-> c, user |-> u])
    BY <1>2 DEF MembershipChange
  <2> DEFINE n == Len(log)
             e == [kind |-> IF u \notin capabilities[c] THEN "joined" ELSE "left",
                   cap |-> c, user |-> u]
  <2>2. /\ DOMAIN capabilities' = DOMAIN capabilities
        /\ u \in capabilities'[c] <=> u \notin capabilities[c]
        /\ \A d \in DOMAIN capabilities : \A v : d # c \/ v # u =>
             (v \in capabilities'[d] <=> v \in capabilities[d])
    BY <2>1
  <2>3. /\ e.kind = "joined" <=> u \notin capabilities[c]
        /\ e.cap = c /\ e.user = u
    OBVIOUS
  <2>4. c \in Capabilities /\ e \in Event
    BY DecideTypes DEF Event
  <2>5. log' = Append(log, e)
    BY <2>1
  <2> HIDE DEF e
  <2>6. /\ DOMAIN log' = 1..(n + 1) /\ log'[n + 1] = e
        /\ \A i \in 1..n : log'[i] = log[i]
    BY <1>0, <2>4, <2>5
  <2>7. ASSUME NEW i \in DOMAIN log', log'[i].cap \in DOMAIN capabilities',
               \A k \in DOMAIN log' : k > i =>
                 ~(log'[k].cap = log'[i].cap /\ log'[k].user = log'[i].user)
        PROVE  log'[i].kind = "joined" <=> log'[i].user \in capabilities'[log'[i].cap]
    <3>1. CASE i = n + 1
      BY <2>2, <2>3, <2>6, <3>1
    <3>2. CASE i # n + 1
      <4>1. i \in 1..n /\ n + 1 > i /\ log'[i] = log[i] /\ n + 1 \in DOMAIN log'
        BY <1>0, <2>6, <3>2
      <4>2. log[i].cap # c \/ log[i].user # u
        BY <2>3, <2>6, <2>7, <4>1
      <4>3. \A k \in DOMAIN log : k > i => ~About(k, log[i].cap, log[i].user)
        BY <1>0, <2>6, <2>7, <4>1 DEF About
      <4> QED
        BY <1>0, <2>2, <2>7, <4>1, <4>2, <4>3 DEF LogTells
    <3> QED
      BY <3>1, <3>2
  <2> QED
    BY <2>7 DEF LogTells, About
<1>3. CASE \E r \in Runners : (Step(r) \/ Killed(r)) /\ UNCHANGED eventVars
  <2>1. UNCHANGED <<capabilities, log>>
    BY <1>3, RestStep DEF DecideInv, CountInv, Killed, world, eventVars
  <2> QED
    BY <1>1, <2>1
<1>4. CASE HandlerStep \/ Redeliver \/ AzureProvisions \/ UNCHANGED memberVars
  <2>1. UNCHANGED <<capabilities, log>>
    BY <1>4 DEF HandlerStep, FindCapability, FindGroup, AddJoined, DeleteLeft, PatchAws,
       Redeliver, AzureProvisions, memberVars, eventVars, vars, world
  <2> QED
    BY <1>1, <2>1
<1>5. CASE CapabilityGoes
  BY <1>1, <1>5 DEF CapabilityGoes, eventVars
<1> QED
  BY <1>2, <1>3, <1>4, <1>5 DEF MemberNext

\* A step of a handler keeps the names, and where the unit and AWS are right
\* about the users handled so far they are right about those handled now.
LEMMA HandlerSettles ==
  ASSUME Settled, SameNames(groups, groups'),
         UNCHANGED <<capabilities, job, log, awsUsers>>,
         HandlerKnows',
         \A c \in DOMAIN capabilities, u \in Directory : \A g \in GroupsOf(c) :
           /\ Decided(c, u, Handled')
           /\ Decided(c, u, Handled) => Shows(g, c, u)
           => Shows(g, c, u)',
         DOMAIN aws' = DOMAIN aws /\ \A c \in DOMAIN aws : aws'[c] \subseteq awsUsers,
         \A c \in DOMAIN capabilities \cap DOMAIN aws, u \in Directory :
           /\ Decided(c, u, pos' - 1) /\ u \in aws'[c]
           /\ Decided(c, u, pos - 1) /\ u \in aws[c] => u \in capabilities[c]
           => u \in capabilities[c]
  PROVE  Settled'
<1>1. OneGroup' /\ \A c : GroupsOf(c)' = GroupsOf(c)
  BY NamesKept
<1>2. \A r \in Runners : KnowsCurrent(job[r])'
  BY <1>1 DEF Settled, KnowsCurrent
<1>3. AwsKnown'
  BY <1>1 DEF Settled, AwsKnown
<1>4. AzureRight'
  <2>1. ASSUME NEW c, NEW u, Decided(c, u, Handled)' PROVE Decided(c, u, Handled')
    BY <2>1 DEF Decided, About
  <2> QED
    BY <1>1, <2>1 DEF Settled, AzureRight
<1>5. AwsRight'
  <2>1. ASSUME NEW c, NEW u, Decided(c, u, pos - 1)' PROVE Decided(c, u, pos' - 1)
    BY <2>1 DEF Decided, About
  <2> QED
    BY <2>1 DEF Settled, AwsRight
<1> QED
  BY <1>1, <1>2, <1>3, <1>4, <1>5 DEF Settled

\* Where a handler changes no membership, the groups show what they showed.
LEMMA ShowsKept ==
  ASSUME UNCHANGED <<capabilities, groups, job>>
  PROVE  \A g, c, u : Shows(g, c, u)' <=> Shows(g, c, u)
BY DEF Shows, Adding

\* A handler goes on to its next call, or settles an event that can be about
\* nobody who matters, and writes nothing.
LEMMA NoWriteSettles ==
  ASSUME DecideInv, Settled, UNCHANGED <<vars, log, store>>, HandlerKnows',
         \/ Handled' = Handled /\ UNCHANGED pos
         \/ /\ ev.phase # "scim" /\ Handled' = pos /\ pos' = pos + 1 /\ pos \in DOMAIN log
            /\ \A c \in DOMAIN capabilities, u \in Directory :
                 About(pos, c, u) => GroupsOf(c) = {}
  PROVE  Settled'
<1>0. UNCHANGED <<capabilities, groups, job, aws, awsUsers>> /\ pos \in Nat
  BY DecideTypes DEF vars, store
<1>1. SameNames(groups, groups')
  BY <1>0 DEF SameNames
<1>2. CASE Handled' = Handled /\ UNCHANGED pos
  <2>1. \A c, u, g : Shows(g, c, u) => Shows(g, c, u)'
    BY <1>0, ShowsKept
  <2>2. \A c \in DOMAIN aws : aws[c] \subseteq awsUsers
    BY DEF Settled, AwsKnown
  <2> QED
    BY <1>0, <1>1, <1>2, <2>1, <2>2, HandlerSettles
<1>3. CASE /\ ev.phase # "scim" /\ Handled' = pos /\ pos' = pos + 1 /\ pos \in DOMAIN log
           /\ \A c \in DOMAIN capabilities, u \in Directory :
                About(pos, c, u) => GroupsOf(c) = {}
  <2>0. Handled = pos - 1 /\ pos' - 1 = pos
    BY <1>0, <1>3 DEF Handled
  <2>1. \A c \in DOMAIN capabilities, u \in Directory :
          Decided(c, u, pos) /\ GroupsOf(c) # {} => Decided(c, u, pos - 1)
    BY <1>3, DecidedBefore
  <2>2. \A c \in DOMAIN capabilities, u \in Directory : \A g \in GroupsOf(c) :
          /\ Decided(c, u, Handled')
          /\ Decided(c, u, Handled) => Shows(g, c, u)
          => Shows(g, c, u)'
    BY <1>0, <1>3, <2>0, <2>1, ShowsKept
  <2>3. \A c \in DOMAIN aws : aws[c] \subseteq awsUsers /\ GroupsOf(c) # {}
    BY DEF Settled, AwsKnown
  <2>4. \A c \in DOMAIN capabilities \cap DOMAIN aws, u \in Directory :
          Decided(c, u, pos' - 1) => Decided(c, u, pos - 1)
    BY <2>0, <2>1, <2>3
  <2> QED
    BY <1>0, <1>1, <2>2, <2>3, <2>4, HandlerSettles
<1> QED
  BY <1>2, <1>3

\* The look-ups: an event whose capability or group does not exist is settled.
LEMMA FindSettles ==
  ASSUME DecideInv, Settled, ~Fails, FindCapability \/ FindGroup
  PROVE  Settled'
<1>0. /\ UNCHANGED <<vars, log, store, capabilities, groups>> /\ ev.phase # "scim"
      /\ pos \in DOMAIN log
      /\ ev \in [phase : EvPhase, group : GroupIds \cup {0}]
  BY DecideTypes DEF FindCapability, FindGroup, vars
<1>1. CASE Done /\ (\A c \in DOMAIN capabilities : log[pos].cap = c => GroupsOf(c) = {})
  <2>1. Handled' = pos /\ pos' = pos + 1 /\ HandlerKnows'
    BY <1>1, DecideTypes DEF Done, EvIdle, Handled, HandlerKnows
  <2> QED
    BY <1>0, <1>1, <2>1, NoWriteSettles DEF About
<1>2. CASE ev' = [ev EXCEPT !.phase = "list"] /\ UNCHANGED pos
  <2>1. ev'.phase = "list"
    BY <1>0, <1>2
  <2>2. Handled' = Handled /\ HandlerKnows'
    BY <1>0, <1>2, <2>1 DEF Handled, HandlerKnows
  <2> QED
    BY <1>0, <1>2, <2>2, NoWriteSettles
<1>3. ASSUME NEW g \in GroupsOf(log[pos].cap), ev' = [phase |-> "write", group |-> g],
             UNCHANGED pos
      PROVE  Settled'
  <2>1. ev'.phase = "write" /\ ev'.group = g
    BY <1>3
  <2>2. Handled' = Handled /\ HandlerKnows'
    BY <1>0, <1>3, <2>1 DEF Handled, HandlerKnows, GroupsOf
  <2> QED
    BY <1>0, <1>3, <2>2, NoWriteSettles
<1>4. CASE FindCapability
  <2>1. \/ ev' = [ev EXCEPT !.phase = "list"] /\ UNCHANGED pos
        \/ log[pos].cap \notin DOMAIN capabilities /\ Done
    BY <1>4 DEF FindCapability
  <2> QED
    BY <1>1, <1>2, <2>1
<1>5. CASE FindGroup
  <2>1. \/ GroupsOf(log[pos].cap) = {} /\ Done
        \/ \E g \in GroupsOf(log[pos].cap) :
             ev' = [phase |-> "write", group |-> g] /\ UNCHANGED pos
    BY <1>5 DEF FindGroup, GroupsOf
  <2> QED
    BY <1>1, <1>3, <2>1
<1> QED
  BY <1>4, <1>5

\* The write of a handler: the event in hand, the last about its user, is
\* carried out; the others see no change.
LEMMA WriteSettles ==
  ASSUME DecideInv, Settled, UNCHANGED <<world, job, faults, log, store>>,
         ev.phase = "write", pos \in DOMAIN log,
         \/ log[pos].kind = "joined" /\ groups' = WithMember(ev.group, log[pos].user)
         \/ log[pos].kind = "left" /\ groups' = WithoutMember(ev.group, log[pos].user),
         ev' = [ev EXCEPT !.phase = "scim"], UNCHANGED pos
  PROVE  Settled'
<1>0. /\ UNCHANGED <<capabilities, log, aws, awsUsers>>
      /\ ev \in [phase : EvPhase, group : GroupIds \cup {0}]
      /\ ev.group \in GroupsOf(log[pos].cap) /\ log[pos] \in Event
  BY DecideTypes DEF Settled, HandlerKnows, world, store
<1>1. ev'.phase = "scim" /\ Handled' = pos /\ Handled = pos - 1 /\ HandlerKnows'
  BY <1>0 DEF Handled, HandlerKnows
<1>2. SameNames(groups, groups')
  BY MembersOnly
<1>3. \A c \in DOMAIN aws : aws[c] \subseteq awsUsers
  BY DEF Settled, AwsKnown
<1>4. ASSUME NEW c \in DOMAIN capabilities, NEW u \in Directory, NEW g \in GroupsOf(c),
             Decided(c, u, pos), Decided(c, u, pos - 1) => Shows(g, c, u)
      PROVE  Shows(g, c, u)'
  <2>0. g \in DOMAIN groups
    BY DEF GroupsOf
  <2>1. CASE About(pos, c, u)
    <3>1. log[pos].kind = "joined" <=> u \in capabilities[c]
      BY <1>4, <2>1, LastTells
    <3>2. g = ev.group /\ u = log[pos].user
      BY <1>0, <2>0, <2>1 DEF Settled, OneGroup, GroupsOf, About
    <3>3. u \in groups'[g].members <=> log[pos].kind = "joined"
      BY <2>0, <3>2, MemberWrite
    <3> QED
      BY <1>0, <3>1, <3>3 DEF Shows
  <2>2. CASE ~About(pos, c, u)
    <3>1. Shows(g, c, u)
      BY <1>4, <2>2, DecidedBefore
    <3>2. ~(g = ev.group /\ u = log[pos].user)
      BY <1>0, <2>2 DEF GroupsOf, About
    <3>3. u \in groups'[g].members <=> u \in groups[g].members
      BY <2>0, <3>2, MemberWrite
    <3> QED
      BY <1>0, <3>1, <3>3 DEF Shows, Adding
  <2> QED
    BY <2>1, <2>2
<1> QED
  BY <1>0, <1>1, <1>2, <1>3, <1>4, HandlerSettles

\* The two handlers' writes.  The group exists, so that only who has no account
\* cannot be written.
LEMMA HandlersWriteSettles ==
  ASSUME DecideInv, Settled, ~Fails, AddJoined \/ DeleteLeft
  PROVE  Settled'
<1>0. /\ UNCHANGED <<world, job, faults, log, store, capabilities, nextId, churn>>
      /\ ev.phase = "write" /\ pos \in DOMAIN log
      /\ ev.group \in GroupsOf(log[pos].cap)
  BY DecideTypes DEF AddJoined, DeleteLeft, world, Settled, HandlerKnows
<1>1. \/ /\ log[pos].kind = "joined" /\ groups' = WithMember(ev.group, log[pos].user)
         /\ ev' = [ev EXCEPT !.phase = "scim"] /\ UNCHANGED pos
      \/ /\ log[pos].kind = "left" /\ groups' = WithoutMember(ev.group, log[pos].user)
         /\ ev' = [ev EXCEPT !.phase = "scim"] /\ UNCHANGED pos
      \/ log[pos].user \notin Directory /\ UNCHANGED groups /\ Done
  BY <1>0 DEF AddJoined, DeleteLeft, Write, GroupsOf
<1>2. CASE log[pos].user \notin Directory /\ UNCHANGED groups /\ Done
  <2>1. Handled' = pos /\ pos' = pos + 1 /\ HandlerKnows'
    BY <1>2, DecideTypes DEF Done, EvIdle, Handled, HandlerKnows
  <2>2. UNCHANGED vars
    BY <1>0, <1>2 DEF vars
  <2> QED
    BY <1>0, <1>2, <2>1, <2>2, NoWriteSettles DEF About
<1> QED
  BY <1>0, <1>1, <1>2, WriteSettles

\* AWS follows the unit: who has left is gone from a provisioned group, and is
\* in no other.
LEMMA PatchSettles ==
  ASSUME DecideInv, Settled, ~Fails, PatchAws
  PROVE  Settled'
<1>0. /\ UNCHANGED <<vars, log, awsUsers, capabilities, groups, job>> /\ ev.phase = "scim"
      /\ pos \in DOMAIN log /\ pos \in Nat /\ aws' = Patched(log[pos])
      /\ log[pos] \in Event /\ Done
  BY DecideTypes DEF PatchAws, vars
<1>1. Handled' = pos /\ Handled = pos /\ pos' - 1 = pos /\ HandlerKnows'
  BY <1>0 DEF Done, EvIdle, Handled, HandlerKnows
<1>2. SameNames(groups, groups')
  BY <1>0 DEF SameNames
<1>3. \A c \in DOMAIN aws : aws[c] \subseteq awsUsers
  BY DEF Settled, AwsKnown
<1>4. /\ DOMAIN aws' = DOMAIN aws
      /\ \A c \in DOMAIN aws : aws'[c] \subseteq awsUsers
      /\ \A c \in DOMAIN aws, u \in Directory :
           u \in aws'[c] => u \in aws[c] \/ (log[pos].kind = "joined" /\ About(pos, c, u))
      /\ \A c \in DOMAIN aws, u \in Directory :
           u \in aws'[c] /\ About(pos, c, u) => log[pos].kind # "left"
  BY <1>0, <1>3 DEF Patched, Provisioned, About
<1>5. ASSUME NEW c \in DOMAIN capabilities \cap DOMAIN aws, NEW u \in Directory,
             Decided(c, u, pos), u \in aws'[c],
             Decided(c, u, pos - 1) /\ u \in aws[c] => u \in capabilities[c]
      PROVE  u \in capabilities[c]
  <2>1. CASE About(pos, c, u)
    BY <1>0, <1>4, <1>5, <2>1, LastTells DEF Event
  <2>2. CASE ~About(pos, c, u)
    BY <1>4, <1>5, <2>2, DecidedBefore
  <2> QED
    BY <2>1, <2>2
<1>6. \A c, u, g : Shows(g, c, u) => Shows(g, c, u)'
  BY <1>0, ShowsKept
<1> QED
  BY <1>0, <1>1, <1>2, <1>4, <1>5, <1>6, HandlerSettles

\* Going back, a handler has handled less.
LEMMA RedeliverSettles ==
  ASSUME DecideInv, Settled, Redeliver
  PROVE  Settled'
<1>0. /\ UNCHANGED <<vars, log, store, capabilities, groups, job, aws, awsUsers>>
      /\ pos \in Nat /\ pos' \in 1..pos /\ Handled \in Nat /\ pos - 1 <= Handled
  BY DecideTypes DEF Redeliver, vars, store
<1>1. Handled' = pos' - 1 /\ HandlerKnows'
  BY DEF Redeliver, EvIdle, Handled, HandlerKnows
<1>2. SameNames(groups, groups')
  BY <1>0 DEF SameNames
<1>3. pos' - 1 \in Nat /\ pos' - 1 <= Handled /\ pos' - 1 <= pos - 1 /\ pos - 1 \in Nat
  <2>1. PICK h \in Nat : h = Handled
    BY <1>0
  <2>2. PICK p \in 1..pos : p = pos'
    BY <1>0
  <2>3. p - 1 \in Nat /\ p - 1 <= h /\ p - 1 <= pos - 1 /\ pos - 1 \in Nat
    BY <1>0, <2>1
  <2> QED
    BY <2>1, <2>2, <2>3
<1>4. \A c, u : Decided(c, u, pos' - 1) => Decided(c, u, Handled) /\ Decided(c, u, pos - 1)
  BY <1>0, <1>3, DecidedLater
<1>5. \A c \in DOMAIN aws : aws[c] \subseteq awsUsers
  BY DEF Settled, AwsKnown
<1>6. \A c, u, g : Shows(g, c, u) => Shows(g, c, u)'
  BY <1>0, ShowsKept
<1> QED
  BY <1>0, <1>1, <1>2, <1>4, <1>5, <1>6, HandlerSettles

\* A change of a membership between runs: its event is still to be handled.
LEMMA MembershipSettles ==
  ASSUME Alone, DecideInv, Settled, ~crossed', MembershipChange
  PROVE  Settled'
<1>0. /\ UNCHANGED <<groups, job, pos, ev, aws, awsUsers>>
      /\ \A r \in Runners : job[r].phase = "idle" /\ KnowsCurrent(job[r])
      /\ log \in Seq(Event) /\ DOMAIN log = 1..Len(log) /\ Len(log) \in Nat
      /\ pos \in 1..(Len(log) + 1) /\ Handled \in 0..Len(log)
      /\ ev.phase # "idle" => pos \in DOMAIN log
  BY DecideTypes DEF MembershipChange, store, Settled
<1>1. PICK c \in DOMAIN capabilities, u \in Users :
        /\ capabilities' = [capabilities EXCEPT
                              ![c] = IF u \notin capabilities[c] THEN @ \cup {u} ELSE @ \ {u}]
        /\ log' = Append(log, [kind |-> IF u \notin capabilities[c] THEN "joined" ELSE "left",
                               cap |-> c, user |-> u])
  BY DEF MembershipChange
<1> DEFINE n == Len(log)
           e == [kind |-> IF u \notin capabilities[c] THEN "joined" ELSE "left",
                 cap |-> c, user |-> u]
<1>2. /\ DOMAIN capabilities' = DOMAIN capabilities
      /\ \A d \in DOMAIN capabilities : \A v : d # c \/ v # u =>
           (v \in capabilities'[d] <=> v \in capabilities[d])
  BY <1>1
<1>3. c \in Capabilities /\ e \in Event /\ e.cap = c /\ e.user = u
  BY DecideTypes DEF Event
<1>4. log' = Append(log, e)
  BY <1>1
<1> HIDE DEF e
<1>5. /\ DOMAIN log' = 1..(n + 1) /\ log'[n + 1] = e
      /\ \A i \in 1..n : log'[i] = log[i]
  BY <1>0, <1>3, <1>4
<1>6. ASSUME NEW d, NEW v, NEW s \in 0..n, Decided(d, v, s)'
      PROVE  Decided(d, v, s) /\ (d # c \/ v # u)
  <2>1. PICK i \in DOMAIN log' : i <= s /\ log'[i].cap = d /\ log'[i].user = v
    BY <1>6 DEF Decided, About
  <2>2. i \in DOMAIN log /\ log'[i] = log[i] /\ n + 1 > s /\ n + 1 \in DOMAIN log'
    BY <1>0, <1>5, <2>1
  <2>3. d # c \/ v # u
    BY <1>3, <1>5, <1>6, <2>2 DEF Decided, About
  <2>4. \A k \in DOMAIN log : k > s => ~About(k, d, v)
    BY <1>0, <1>5, <1>6 DEF Decided, About
  <2> QED
    BY <2>1, <2>2, <2>3, <2>4 DEF Decided, About
<1>7. Handled' = Handled
  BY <1>0 DEF Handled
<1>8. OneGroup' /\ \A d : GroupsOf(d)' = GroupsOf(d)
  BY <1>0 DEF Settled, OneGroup, GroupsOf
<1>9. HandlerKnows'
  BY <1>0, <1>5, <1>8 DEF Settled, HandlerKnows
<1>10. AwsKnown'
  BY <1>0, <1>8 DEF Settled, AwsKnown
<1>11. \A r \in Runners : KnowsCurrent(job[r])'
  BY <1>0, <1>8 DEF KnowsCurrent
<1>12. AzureRight'
  <2>1. ASSUME NEW d \in DOMAIN capabilities, NEW v \in Directory,
               Decided(d, v, Handled)', NEW g \in GroupsOf(d)
        PROVE  Shows(g, d, v)'
    <3>1. PICK h \in 0..n : h = Handled
      BY <1>0
    <3>2. Decided(d, v, h)'
      BY <1>7, <2>1, <3>1 DEF Decided, About
    <3>3. Decided(d, v, Handled) /\ (d # c \/ v # u)
      BY <1>6, <3>1, <3>2
    <3>4. Shows(g, d, v)
      BY <2>1, <3>3 DEF Settled, AzureRight
    <3> QED
      BY <1>0, <1>2, <3>3, <3>4 DEF Shows, Adding
  <2> QED
    BY <1>2, <1>8, <2>1 DEF AzureRight
<1>13. AwsRight'
  <2>1. ASSUME NEW d \in DOMAIN capabilities \cap DOMAIN aws, NEW v \in Directory,
               Decided(d, v, pos - 1)', v \in aws[d]
        PROVE  v \in capabilities'[d]
    <3>1. PICK h \in 0..n : h = pos - 1
      BY <1>0
    <3>2. Decided(d, v, h)'
      BY <1>0, <2>1, <3>1 DEF Decided, About
    <3>3. Decided(d, v, pos - 1) /\ (d # c \/ v # u)
      BY <1>6, <3>1, <3>2
    <3>4. v \in capabilities[d]
      BY <2>1, <3>3 DEF Settled, AwsRight
    <3> QED
      BY <1>2, <3>3, <3>4
  <2> QED
    BY <1>0, <1>2, <2>1 DEF AwsRight
<1> QED
  BY <1>8, <1>9, <1>10, <1>11, <1>12, <1>13 DEF Settled

\* A capability that goes takes what was to be right about it with it.
LEMMA GoesSettles ==
  ASSUME Settled, CapabilityGoes
  PROVE  Settled'
<1>0. /\ UNCHANGED <<groups, job, log, pos, ev, aws, awsUsers>>
      /\ DOMAIN capabilities' \subseteq DOMAIN capabilities
      /\ \A c \in DOMAIN capabilities' : capabilities'[c] = capabilities[c]
  BY DEF CapabilityGoes, eventVars, store
<1>1. OneGroup' /\ \A c : GroupsOf(c)' = GroupsOf(c)
  BY <1>0 DEF Settled, OneGroup, GroupsOf
<1>2. \A r \in Runners : KnowsCurrent(job[r])'
  BY <1>0, <1>1 DEF Settled, KnowsCurrent
<1>3. HandlerKnows' /\ AwsKnown'
  BY <1>0, <1>1 DEF Settled, HandlerKnows, AwsKnown
<1>4. \A c \in DOMAIN capabilities' : \A u, g : Shows(g, c, u) => Shows(g, c, u)'
  BY <1>0 DEF Shows, Adding
<1>5. \A c, u : /\ Decided(c, u, Handled)' => Decided(c, u, Handled)
                /\ Decided(c, u, pos - 1)' => Decided(c, u, pos - 1)
  <2>1. Handled' = Handled /\ pos' = pos
    BY <1>0 DEF Handled
  <2> QED
    BY <1>0, <2>1 DEF Decided, About
<1>6. AzureRight'
  BY <1>0, <1>1, <1>4, <1>5 DEF Settled, AzureRight
<1>7. AwsRight'
  BY <1>0, <1>5 DEF Settled, AwsRight
<1> QED
  BY <1>1, <1>2, <1>3, <1>6, <1>7 DEF Settled

\* What Azure provisions is as right as the unit is, and the unit is ahead.
LEMMA ProvisionSettles ==
  ASSUME DecideInv, Settled, AzureProvisions
  PROVE  Settled'
<1>0. /\ UNCHANGED <<capabilities, groups, job, log, pos, ev>>
      /\ pos \in Nat /\ pos >= 1 /\ Handled \in Nat /\ pos - 1 <= Handled
  BY DecideTypes DEF AzureProvisions, vars
<1>1. PICK g \in DOMAIN groups :
        /\ aws' = [d \in DOMAIN aws \cup {groups[g].cap} |->
                     IF d = groups[g].cap THEN groups[g].members ELSE aws[d]]
        /\ awsUsers' = awsUsers \cup groups[g].members
  BY DEF AzureProvisions
<1>2. OneGroup' /\ \A c : GroupsOf(c)' = GroupsOf(c)
  BY <1>0 DEF Settled, OneGroup, GroupsOf
<1>3. \A r \in Runners : KnowsCurrent(job[r])'
  BY <1>0, <1>2 DEF Settled, KnowsCurrent
<1>4. HandlerKnows'
  BY <1>0, <1>2 DEF Settled, HandlerKnows
<1>5. AwsKnown'
  <2>1. GroupsOf(groups[g].cap) # {}
    BY DEF GroupsOf
  <2> QED
    BY <1>1, <1>2, <2>1 DEF Settled, AwsKnown
<1>6. \A c, u, h : Shows(h, c, u) => Shows(h, c, u)'
  BY <1>0, ShowsKept
<1>7. \A c, u : /\ Decided(c, u, Handled)' => Decided(c, u, Handled)
                /\ Decided(c, u, pos - 1)' => Decided(c, u, pos - 1)
  <2>1. Handled' = Handled /\ pos' = pos
    BY <1>0 DEF Handled
  <2> QED
    BY <1>0, <2>1 DEF Decided, About
<1>8. AzureRight'
  BY <1>0, <1>2, <1>6, <1>7 DEF Settled, AzureRight
<1>9. ASSUME NEW c \in DOMAIN capabilities \cap DOMAIN aws', NEW u \in Directory,
             Decided(c, u, pos - 1), u \in aws'[c]
      PROVE  u \in capabilities[c]
  <2>1. CASE c = groups[g].cap
    <3>1. pos - 1 \in Nat
      BY <1>0
    <3>2. Decided(c, u, Handled)
      BY <1>0, <1>9, <3>1, DecidedLater
    <3>3. u \in groups[g].members /\ g \in GroupsOf(c)
      BY <1>1, <1>9, <2>1 DEF GroupsOf
    <3> QED
      BY <1>9, <3>2, <3>3 DEF Settled, AzureRight, Shows
  <2>2. CASE c # groups[g].cap
    BY <1>1, <1>9, <2>2 DEF Settled, AwsRight
  <2> QED
    BY <2>1, <2>2
<1>10. AwsRight'
  BY <1>0, <1>7, <1>9 DEF AwsRight
<1> QED
  BY <1>2, <1>3, <1>4, <1>5, <1>8, <1>10 DEF Settled

-----------------------------------------------------------------------------
(* The last event decides *)

LEMMA DecideInit == MemberInit => DecideInv
<1> SUFFICES ASSUME MemberInit PROVE DecideInv
  OBVIOUS
<1>1. CountInv /\ AloneInv /\ failures = 0 /\ crossed \in BOOLEAN
  BY MemberTypeInit, AloneInit DEF MemberInit
<1>2. log = << >> /\ ev.phase = "idle" /\ DOMAIN log = {}
  BY DEF MemberInit, EvIdle
<1>3. LogTells
  BY <1>2 DEF LogTells
<1>4. ASSUME Undisturbed PROVE OneGroup
  <2>1. PICK n \in Nat : groups \in [1..n -> Group]
    BY DEF MemberInit, Init
  <2>2. IsFiniteSet(1..n)
    BY <2>1, FS_Interval
  <2>3. ASSUME NEW g \in DOMAIN groups, NEW h \in DOMAIN groups,
               groups[g].cap = groups[h].cap
        PROVE  g = h
    <3> DEFINE S == GroupsOf(groups[g].cap)
    <3>1. g \in S /\ h \in S /\ S \subseteq 1..n
      BY <2>1, <2>3 DEF GroupsOf
    <3>2. IsFiniteSet(S) /\ Cardinality(S) \in Nat
      BY <2>2, <3>1, FS_Subset, FS_CardinalityType
    <3>3. groups[g].cap \in Capabilities
      BY <2>1 DEF Group
    <3>4. ~(Cardinality(S) > 1)
      BY <1>4, <3>3 DEF MemberInit, Undisturbed
    <3>5. Cardinality(S) # 0
      BY <3>1, <3>2, FS_EmptySet
    <3>6. Cardinality(S) = 1
      BY <3>2, <3>4, <3>5
    <3>7. \E x : S = {x}
      BY <3>2, <3>6, FS_Singleton
    <3> QED
      BY <3>1, <3>7
  <2> QED
    BY <2>3 DEF OneGroup
<1>5. \A r \in Runners : KnowsCurrent(job[r])
  <2>1. /\ Idle.phase = "idle" /\ DOMAIN Idle.azure = {}
        /\ Idle.adds = {} /\ Idle.removes = {}
    BY DEF Idle, EmptyFcn
  <2>2. \A r \in Runners : job[r] = Idle
    BY DEF MemberInit, Init
  <2> QED
    BY <2>1, <2>2 DEF KnowsCurrent
<1>6. AwsKnown
  BY DEF MemberInit, AwsKnown, GroupsOf
<1>7. HandlerKnows /\ AzureRight /\ AwsRight
  BY <1>2 DEF HandlerKnows, AzureRight, AwsRight, Decided
<1> QED
  BY <1>1, <1>3, <1>4, <1>5, <1>6, <1>7 DEF DecideInv, Settled

\* A step of the job, undisturbed.
LEMMA JobStepSettles ==
  ASSUME Alone, DecideInv, Settled, ~Fault, faults' = 0, External \subseteq Directory,
         NEW r \in Runners, Step(r) \/ Killed(r), UNCHANGED eventVars
  PROVE  Settled'
<1>1. ASSUME KnowsCurrent(job[r])', UNCHANGED <<capabilities, groups>>,
             job[r].phase # "sync" \/ job[r].adds = {}
      PROVE  Settled'
  BY <1>1, QuietSettles
<1>2. CASE GetCapabilities(r)
  BY <1>1, <1>2, BeginsCurrent DEF GetCapabilities, world
<1>3. CASE \/ ListMembers(r) \/ ListAgain(r) \/ AllFetched(r)
           \/ \E g \in job[r].fetch : FetchMembers(r, g)
           \/ \E c \in job[r].todo : UseGroup(r, c)
  BY <1>1, <1>3, PreparesCurrent
<1>4. ASSUME NEW g \in job[r].victims, EliminateDuplicate(r, g) PROVE Settled'
  <2>1. g \notin DOMAIN groups
    BY NothingToDelete
  <2>2. Return(r) /\ UNCHANGED <<capabilities, groups>> /\ job[r].phase = "eliminate"
    BY <1>4, <2>1 DEF EliminateDuplicate, world
  <2> QED
    BY <1>1, <2>2, BeginsCurrent
<1>5. CASE Finish(r)
  BY <1>1, <1>5, BeginsCurrent DEF Finish, BetweenCapabilities, world
<1>6. ~Killed(r)
  BY DEF Killed
<1> QED
  BY <1>2, <1>3, <1>4, <1>5, <1>6, CreateSettles, AddSettles, RemoveSettles DEF Step

LEMMA DecideNext ==
  ASSUME Alone, DecideInv, [MemberNext]_memberVars
  PROVE  DecideInv'
<1>1. CountInv' /\ AloneInv' /\ LogTells'
  BY CountNext, MemberAloneNext, LogTellsNext DEF DecideInv
<1>2. failures' \in Nat /\ crossed' \in BOOLEAN
  <2>1. HandlerStep => failures' \in {failures, failures + 1} /\ UNCHANGED crossed
    BY DEF HandlerStep, FindCapability, FindGroup, AddJoined, DeleteLeft, PatchAws, Fails
  <2>2. \/ HandlerStep
        \/ UNCHANGED failures /\ (UNCHANGED crossed \/ crossed' \in BOOLEAN)
    BY DEF MemberNext, Redeliver, MembershipChange, CapabilityGoes, AzureProvisions,
           memberVars, eventVars
  <2> QED
    BY <2>1, <2>2 DEF DecideInv
<1>3. ASSUME Undisturbed' PROVE Settled'
  <2>1. Settled /\ ~Fault /\ ~Fails
    BY <1>3, StaysDisturbed
  <2>2. faults' = 0 /\ ~crossed' /\ External \subseteq Directory
    BY <1>3 DEF Undisturbed
  <2>3. ASSUME NEW r \in Runners, Step(r) \/ Killed(r), UNCHANGED eventVars
        PROVE  Settled'
    BY <2>1, <2>2, <2>3, JobStepSettles
  <2>4. CASE HandlerStep
    BY <2>1, <2>4, FindSettles, HandlersWriteSettles, PatchSettles DEF HandlerStep
  <2>5. CASE UNCHANGED memberVars
    <3>1. UNCHANGED <<vars, capabilities, groups, job, log, store, pos, ev>>
      BY <2>5 DEF memberVars, eventVars, vars
    <3>2. Handled' = Handled /\ HandlerKnows'
      BY <2>1, <3>1 DEF Settled, Handled, HandlerKnows, GroupsOf
    <3> QED
      BY <2>1, <3>1, <3>2, NoWriteSettles
  <2> QED
    BY <2>1, <2>2, <2>3, <2>4, <2>5, RedeliverSettles, MembershipSettles, GoesSettles,
       ProvisionSettles DEF MemberNext
<1> QED
  BY <1>1, <1>2, <1>3 DEF DecideInv

\* As long as no call fails, no membership changes during a run and no external
\* user is without account, the last event about a user decides between the runs
\* of the job, in the unit and, for those who left, in AWS: for one runner, and
\* any topic, redeliveries and interleaving of handlers and runs.
THEOREM EventsDecideAlways ==
  ASSUME Alone
  PROVE  MemberSpec => []EventsDecide
<1>1. DecideInv => EventsDecide
  <2> SUFFICES ASSUME DecideInv, Undisturbed, pos > Len(log),
                      \A r \in Runners : job[r].phase = "idle",
                      NEW i \in DOMAIN log, NEW g \in GroupsOf(log[i].cap),
                      log[i].cap \in DOMAIN capabilities, log[i].user \in Directory
               PROVE  /\ log[i].user \in groups[g].members
                           <=> log[i].user \in capabilities[log[i].cap]
                      /\ log[i].cap \in DOMAIN aws /\ log[i].user \in aws[log[i].cap]
                           => log[i].user \in capabilities[log[i].cap]
    BY DEF EventsDecide, Undisturbed
  <2> DEFINE c == log[i].cap
             u == log[i].user
             n == Len(log)
  <2>1. Settled
    BY DEF DecideInv
  <2>2. n \in Nat /\ DOMAIN log = 1..n /\ pos = n + 1 /\ ev.phase = "idle"
    BY DecideTypes DEF EvPhase
  <2>3. Handled = n /\ pos - 1 = n
    BY <2>2 DEF Handled
  <2>4. Decided(c, u, n)
    BY <2>2 DEF Decided, About
  <2>5. Shows(g, c, u)
    BY <2>1, <2>3, <2>4 DEF Settled, AzureRight
  <2>6. \A r \in Runners : ~Adding(job[r], g, c, u)
    BY DEF Adding
  <2> QED
    BY <2>1, <2>3, <2>4, <2>5, <2>6 DEF Shows, Settled, AwsRight
<1>2. DecideInv /\ [MemberNext]_memberVars => DecideInv'
  BY DecideNext
<1> QED
  BY <1>1, <1>2, DecideInit, PTL DEF MemberSpec
=============================================================================
