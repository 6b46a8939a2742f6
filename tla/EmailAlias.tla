------------------------------ MODULE EmailAlias ------------------------------
(***************************************************************************)
(* The job capabilityEmailAlias: it keeps the mail aliases of capabilities,*)
(* distribution groups of Exchange, in line with the capability service    *)
(* (internal/handler/capability_email_alias.go, internal/ssu_exchange).    *)
(*                                                                         *)
(* Aliases are listed in Exchange, their members in Azure AD, to which     *)
(* Exchange copies its groups after a while.  What the job adds and takes  *)
(* away is decided on that copy.  Every remote call is one step; the first *)
(* error ends the run, for all capabilities.                               *)
(***************************************************************************)
EXTENDS Naturals, FiniteSets

CONSTANTS
  Runners,        \* processes that run the handler
  Capabilities,   \* root ids
  NoCapability,
  Users,          \* addresses a capability can list
  External,       \* those that are not of the internal domain
  Upn,            \* what the account of each is called in Azure AD and Exchange
  Cc,             \* CcEmail, which belongs to every main alias
  SubAliases,     \* the aliases a capability has beside its main one
  MaxFaults,      \* bound: failed calls and killed runs
  MaxChanges      \* bound: changes by others

UpnsOf(S) == {Upn[a] : a \in S}

ASSUME AliasAssumption == /\ NoCapability \notin Capabilities
                          /\ MaxFaults \in Nat /\ MaxChanges \in Nat
\* An account of the internal domain is called by its address.  CcEmail is of that
\* domain, and no user's.
ASSUME UpnAssumption == /\ External \subseteq Users
                        /\ \A a \in Users \ External : Upn[a] = a
                        /\ Cc \notin Users \cup UpnsOf(Users)

VARIABLES
  capabilities,   \* capability service: root id -> members
  users,          \* the Users that have an account
  mail,           \* Exchange: main alias -> members
  subs,           \* Exchange: the sub aliases, whose members nobody looks at
  auth,           \* aliases that require senders to be authenticated
  azure,          \* the copy of mail in Azure AD
  job,            \* local state of each run
  ccTaken,        \* history: main aliases that an administrator took Cc out of
  faults, changes

exchange == <<mail, subs, auth>>
world    == <<capabilities, users, azure, ccTaken, changes>>
vars     == <<world, exchange, job, faults>>

-----------------------------------------------------------------------------
(* State *)

IsPartialFcn(f, S, T) == \E D \in SUBSET S : f \in [D -> T]
EmptyFcn == [x \in {} |-> x]

Members   == UpnsOf(Users) \cup {Cc}
Main      == Capabilities \X {"root"}
Sub       == Capabilities \X SubAliases
AllListed == {<<c, "root">> : c \in DOMAIN mail} \cup subs

Idle == [
  phase   |-> "idle",
  known   |-> EmptyFcn,       \* Cache.Capabilities
  listed  |-> {},             \* EmailAliasesByDisplayName
  auth    |-> {},             \*   those that are misconfigured
  fetch   |-> {},             \* GetGroupMembers in flight
  groups  |-> EmptyFcn,       \* DistributionsGroupsInAzureByDisplayName
  todo    |-> {},             \* aliases not yet seen to
  cap     |-> NoCapability,   \* the capability whose members are compared
  adds    |-> {},
  removes |-> {}]

RunOK(run) ==
  /\ DOMAIN run = DOMAIN Idle
  /\ run.phase \in {"idle", "aliases", "groups", "fetch", "main", "members", "sub"}
  /\ IsPartialFcn(run.known, Capabilities, SUBSET Users)
  /\ run.auth \subseteq run.listed /\ run.listed \subseteq Main \cup Sub
  /\ run.fetch \in SUBSET Capabilities
  /\ IsPartialFcn(run.groups, Capabilities, SUBSET Members)
  /\ run.todo \subseteq IF run.phase = "sub" THEN Sub ELSE Main
  /\ run.cap \in Capabilities \cup {NoCapability}
  /\ run.phase = "members" => <<run.cap, "root">> \in run.todo \cap run.listed
  /\ run.adds \subseteq Members /\ run.removes \subseteq Members
  /\ run.phase # "members" => run.adds = {} /\ run.removes = {}

\* The type invariant.
TypeOK ==
  /\ IsPartialFcn(capabilities, Capabilities, SUBSET Users)
  /\ users \in SUBSET Users
  /\ IsPartialFcn(mail, Capabilities, SUBSET Members)
  /\ subs \subseteq Sub
  /\ auth \subseteq AllListed
  /\ IsPartialFcn(azure, Capabilities, SUBSET Members) /\ DOMAIN azure \subseteq DOMAIN mail
  /\ DOMAIN job = Runners /\ \A r \in Runners : RunOK(job[r])
  /\ ccTaken \in SUBSET Capabilities
  /\ faults \in 0..MaxFaults
  /\ changes \in 0..MaxChanges

\* Some capabilities, with everybody in them; accounts for all or for nobody; some
\* main aliases, copied.  The rest is left to changes.
Init ==
  /\ \E D \in SUBSET Capabilities : capabilities = [c \in D |-> Users]
  /\ users \in {{}, Users}
  /\ \E D \in SUBSET Capabilities : mail = [c \in D |-> UpnsOf(users) \cup {Cc}]
  /\ subs = {}
  /\ auth = {}
  /\ azure = mail
  /\ job = [r \in Runners |-> Idle]
  /\ ccTaken = {}
  /\ faults = 0
  /\ changes = 0

-----------------------------------------------------------------------------
(* Set-up of a run *)

Fault == faults < MaxFaults /\ faults' = faults + 1
Return(r) == job' = [job EXCEPT ![r] = Idle]

GetCapabilities(r) ==
  /\ job[r].phase = "idle"
  /\ job' = [job EXCEPT ![r].phase = "aliases", ![r].known = capabilities]
  /\ UNCHANGED <<world, exchange, faults>>

\* GetAliases.  No alias at all is taken for an error.
GetAliases(r) ==
  /\ job[r].phase = "aliases"
  /\ IF AllListed = {} THEN Return(r)
     ELSE job' = [job EXCEPT ![r].phase = "groups", ![r].listed = AllListed,
                             ![r].auth = auth]
  /\ UNCHANGED <<world, exchange, faults>>

\* GetGroups does not look at the status: a failure cuts the list short.
GetGroups(r) ==
  /\ job[r].phase = "groups"
  /\ \E D \in SUBSET DOMAIN azure :
       /\ IF D = DOMAIN azure THEN UNCHANGED faults ELSE Fault
       /\ job' = [job EXCEPT ![r].phase = "fetch", ![r].fetch = D]
  /\ UNCHANGED <<world, exchange>>

\* GetGroupMembers, in any order (FanOut).  An error it does not see leaves no
\* members; one that it sees kills the process.
FetchMembers(r, c) ==
  /\ job[r].phase = "fetch"
  /\ c \in job[r].fetch
  /\ \E S \in {azure[c], {}} :
       /\ IF S = azure[c] THEN UNCHANGED faults ELSE Fault
       /\ job' = [job EXCEPT
                    ![r].fetch = @ \ {c},
                    ![r].groups = [d \in DOMAIN @ \cup {c} |->
                                     IF d = c THEN S ELSE @[d]]]
  /\ UNCHANGED <<world, exchange>>

\* Variant: the sub aliases come first.
AllFetchedSubsFirst(r) ==
  /\ job[r].phase = "fetch"
  /\ job[r].fetch = {}
  /\ job' = [job EXCEPT ![r].phase = "sub",
                        ![r].todo = (DOMAIN job[r].known) \X SubAliases]
  /\ UNCHANGED <<world, exchange, faults>>

\* All answers are there.
AllFetched(r) ==
  /\ job[r].phase = "fetch"
  /\ job[r].fetch = {}
  /\ job' = [job EXCEPT ![r].phase = "main",
                        ![r].todo = (DOMAIN job[r].known) \X {"root"}]
  /\ UNCHANGED <<world, exchange, faults>>

-----------------------------------------------------------------------------
(* ReconcileMainAlias *)

\* Variant: external members are passed over.
WantedInternal(r, c) == UpnsOf(job[r].known[c] \ External) \cup {Cc}

\* capaWithCcMembers: CcEmail, and the members by what the copy calls them.  An
\* external one is looked up by the address, and so must have an account.
Wanted(r, c) == UpnsOf(job[r].known[c]) \cup {Cc}

\* The members of an alias that exists are compared with those of its copy.
\* An external member without account, or an alias that has not been copied,
\* ends the run.
CompareMembers(r, c) ==
  /\ job[r].phase = "main"
  /\ <<c, "root">> \in job[r].todo \cap job[r].listed
  /\ IF job[r].known[c] \cap External \subseteq users /\ c \in DOMAIN job[r].groups
     THEN job' = [job EXCEPT ![r].phase = "members", ![r].cap = c,
                             ![r].adds = Wanted(r, c) \ job[r].groups[c],
                             ![r].removes = job[r].groups[c] \ Wanted(r, c)]
     ELSE Return(r)
  /\ UNCHANGED <<world, exchange, faults>>

\* A write, after which the run goes on, unless the answer is an error all the
\* same.  Writes that fail without effect are in Killed.
Write(r, Effect, run) ==
  /\ Effect
  /\ \/ job' = [job EXCEPT ![r] = run] /\ UNCHANGED faults
     \/ Return(r) /\ Fault

\* AddDistributionGroupMember.  Somebody without account (404) is passed over;
\* somebody who has been added since the copy may be refused.
AddMember(r, u) ==
  LET c   == job[r].cap
      run == [job[r] EXCEPT !.adds = @ \ {u}]
      Effect == mail' = [mail EXCEPT ![c] = @ \cup {u}] /\ UNCHANGED <<subs, auth>>
  IN  /\ job[r].phase = "members"
      /\ u \in job[r].adds
      /\ IF u \in UpnsOf(Users \ users)
         THEN job' = [job EXCEPT ![r] = run] /\ UNCHANGED <<exchange, faults>>
         ELSE \/ Write(r, Effect, run)
              \/ u \in mail[c] /\ Return(r) /\ UNCHANGED <<exchange, faults>>
      /\ UNCHANGED world

\* Variant: the two loops change places.
RemoveMemberFirst(r, u) ==
  LET c   == job[r].cap
      run == [job[r] EXCEPT !.removes = @ \ {u}]
      Effect == mail' = [mail EXCEPT ![c] = @ \ {u}] /\ UNCHANGED <<subs, auth>>
  IN  /\ job[r].phase = "members"
      /\ u \in job[r].removes
      /\ \/ Write(r, Effect, run)
         \/ u \notin mail[c] /\ Return(r) /\ UNCHANGED <<exchange, faults>>
      /\ UNCHANGED world

\* RemoveDistributionGroupMember, when all are added.
RemoveMember(r, u) ==
  LET c   == job[r].cap
      run == [job[r] EXCEPT !.removes = @ \ {u}]
      Effect == mail' = [mail EXCEPT ![c] = @ \ {u}] /\ UNCHANGED <<subs, auth>>
  IN  /\ job[r].phase = "members"
      /\ job[r].adds = {}
      /\ u \in job[r].removes
      /\ \/ Write(r, Effect, run)
         \/ u \notin mail[c] /\ Return(r) /\ UNCHANGED <<exchange, faults>>
      /\ UNCHANGED world

\* Variant: the second loop is left before its end.
MainDoneEarly(r) ==
  LET a   == <<job[r].cap, "root">>
      run == [job[r] EXCEPT !.phase = "main", !.cap = NoCapability,
                            !.todo = @ \ {a}]
  IN  /\ job[r].phase = "members"
      /\ job[r].adds = {}
      /\ job' = [job EXCEPT ![r] = run]
      /\ UNCHANGED <<world, exchange, faults>>

\* The alias' last call, UpdateAlias, and the next iteration.
MainDone(r) ==
  LET a   == <<job[r].cap, "root">>
      run == [job[r] EXCEPT !.phase = "main", !.cap = NoCapability,
                            !.todo = @ \ {a}]
      Effect == auth' = auth \ {a} /\ UNCHANGED <<mail, subs>>
  IN  /\ job[r].phase = "members"
      /\ job[r].adds = {} /\ job[r].removes = {}
      /\ IF a \in job[r].auth THEN Write(r, Effect, run)
         ELSE job' = [job EXCEPT ![r] = run] /\ UNCHANGED <<exchange, faults>>
      /\ UNCHANGED world

\* CreateAlias with the addresses of the members, which Exchange resolves, but
\* without CcEmail.  It refuses a name that is taken, and members it does not know.
CreateMain(r, c) ==
  LET a   == <<c, "root">>
      run == [job[r] EXCEPT !.todo = @ \ {a}]
      Effect == /\ mail' = [d \in DOMAIN mail \cup {c} |->
                              IF d = c THEN UpnsOf(job[r].known[c]) ELSE mail[d]]
                /\ UNCHANGED <<subs, auth>>
  IN  /\ job[r].phase = "main"
      /\ a \in job[r].todo \ job[r].listed
      /\ IF c \notin DOMAIN mail /\ job[r].known[c] \subseteq users
         THEN Write(r, Effect, run)
         ELSE Return(r) /\ UNCHANGED <<exchange, faults>>
      /\ UNCHANGED world

-----------------------------------------------------------------------------
(* ReconcileSubAliases *)

\* The sub aliases that take a call.
ToSubs(r) ==
  /\ job[r].phase = "main"
  /\ job[r].todo = {}
  /\ job' = [job EXCEPT ![r].phase = "sub",
                        ![r].todo = {a \in (DOMAIN job[r].known) \X SubAliases :
                                       a \notin job[r].listed \ job[r].auth}]
  /\ UNCHANGED <<world, exchange, faults>>

CreateSub(r, a) ==
  LET run == [job[r] EXCEPT !.todo = @ \ {a}]
      Effect == subs' = subs \cup {a} /\ UNCHANGED <<mail, auth>>
  IN  /\ job[r].phase = "sub"
      /\ a \in job[r].todo \ job[r].listed
      /\ IF a \notin subs THEN Write(r, Effect, run)
         ELSE Return(r) /\ UNCHANGED <<exchange, faults>>
      /\ UNCHANGED world

UpdateSub(r, a) ==
  LET run == [job[r] EXCEPT !.todo = @ \ {a}]
      Effect == auth' = auth \ {a} /\ UNCHANGED <<mail, subs>>
  IN  /\ job[r].phase = "sub"
      /\ a \in job[r].todo \cap job[r].listed
      /\ Write(r, Effect, run)
      /\ UNCHANGED world

Finish(r) ==
  /\ job[r].phase = "sub"
  /\ job[r].todo = {}
  /\ Return(r)
  /\ UNCHANGED <<world, exchange, faults>>

\* A call fails, or the process dies: in PopulateGroupsWithMembers it does so
\* by itself.
Killed(r) ==
  /\ job[r].phase # "idle"
  /\ Fault
  /\ Return(r)
  /\ UNCHANGED <<world, exchange>>

Step(r) ==
  \/ GetCapabilities(r) \/ GetAliases(r) \/ GetGroups(r)
  \/ \E c \in Capabilities :
       FetchMembers(r, c) \/ CompareMembers(r, c) \/ CreateMain(r, c)
  \/ AllFetched(r)
  \/ \E u \in Members : AddMember(r, u) \/ RemoveMember(r, u)
  \/ MainDone(r)
  \/ ToSubs(r)
  \/ \E a \in Sub : CreateSub(r, a) \/ UpdateSub(r, a)
  \/ Finish(r)

-----------------------------------------------------------------------------
(* Exchange, Azure AD and people (external) *)

\* A group is copied as it is.
AzureCopies(c) ==
  /\ c \in DOMAIN mail
  /\ azure' = [d \in DOMAIN azure \cup {c} |-> IF d = c THEN mail[c] ELSE azure[d]]
  /\ UNCHANGED <<capabilities, users, ccTaken, changes, exchange, job, faults>>

Change == changes < MaxChanges /\ changes' = changes + 1

\* A capability appears, goes, or has other members.
ServiceChange ==
  /\ Change
  /\ \E c \in Capabilities :
       \/ capabilities' = [d \in DOMAIN capabilities \ {c} |-> capabilities[d]]
       \/ \E S \in SUBSET Users :
            capabilities' = [d \in DOMAIN capabilities \cup {c} |->
                               IF d = c THEN S ELSE capabilities[d]]
  /\ UNCHANGED <<users, azure, ccTaken, exchange, job, faults>>

AccountCreated ==
  /\ Change
  /\ \E u \in Users \ users : users' = users \cup {u}
  /\ UNCHANGED <<capabilities, azure, ccTaken, exchange, job, faults>>

\* An administrator edits the members or the settings of an alias.
AliasEdited ==
  /\ Change
  /\ \/ /\ \E c \in DOMAIN mail, u \in UpnsOf(users) \cup {Cc} :
             /\ mail' = [mail EXCEPT ![c] = IF u \in @ THEN @ \ {u} ELSE @ \cup {u}]
             /\ ccTaken' = IF u = Cc /\ u \in mail[c] THEN ccTaken \cup {c}
                                                      ELSE ccTaken
        /\ UNCHANGED auth
     \/ /\ \E a \in AllListed : auth' = auth \cup {a}
        /\ UNCHANGED <<mail, ccTaken>>
  /\ UNCHANGED <<capabilities, users, azure, subs, job, faults>>

Next ==
  \/ \E r \in Runners : Step(r) \/ Killed(r)
  \/ \E c \in Capabilities : AzureCopies(c)
  \/ ServiceChange
  \/ AccountCreated
  \/ AliasEdited

Spec == Init /\ [][Next]_vars
\* The scheduler starts the job again and again, a run goes on by itself, and
\* Exchange copies its groups.
FairSpec == /\ Spec
            /\ \A r \in Runners : WF_vars(Step(r))
            /\ \A c \in Capabilities : WF_vars(AzureCopies(c))

-----------------------------------------------------------------------------
(* Properties *)

\* Sub aliases forward to the main alias: there is none without it, wherever a
\* run was cut off.
SubsHaveMain == \A a \in subs : a[1] \in DOMAIN mail

\* A main alias is created without CcEmail.  A run that takes somebody out of it
\* leaves CcEmail in, so that mail never goes to nobody: also when another run, or
\* an earlier one that was cut off, has made the alias, and the copy of its members
\* is old or could not be read.
CcReceives ==
  [][changes' = changes =>
       \A c \in DOMAIN mail \ ccTaken :
         mail[c] \ mail'[c] # {} => Cc \in mail'[c]]_vars

\* What a run needs to get to its end, faults aside: one alias at least, and
\* accounts for all members it has to look up or to name at once.
Possible ==
  /\ AllListed # {}
  /\ \A c \in DOMAIN capabilities :
       /\ capabilities[c] \cap External \subseteq users
       /\ c \notin DOMAIN mail => capabilities[c] \subseteq users

\* Every capability has its aliases, the main one with the members of the
\* capability who have an account, and anybody may write to them.
AllAliased ==
  \A c \in DOMAIN capabilities :
    /\ c \in DOMAIN mail
    /\ mail[c] = UpnsOf(capabilities[c] \cap users) \cup {Cc}
    /\ {c} \X SubAliases \subseteq subs
    /\ ~\E a \in auth : a[1] = c

\* Although the first error ends a run, and runs decide on an old copy of the
\* members, the aliases are right in the end.
Converges == <>[](Possible => AllAliased)
=============================================================================
