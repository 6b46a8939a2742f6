----------------------------- MODULE MemberEvents -----------------------------
(***************************************************************************)
(* The handlers of the events "member joined" and "member left"            *)
(* (internal/event/handlers), beside the job of CapSvc2Aad, which writes   *)
(* to the same groups.                                                     *)
(*                                                                         *)
(* The events are read as Delivery promises: in order, each until it is    *)
(* settled, and again from an earlier place after a crash, a rebalance or  *)
(* a commit that failed.  A handler that returns an error settles its      *)
(* event too: the loop forwards it to the DLQ, which nobody reads.         *)
(*                                                                         *)
(* The handlers take the user id of an event for the name of the account   *)
(* (UPN); the job looks that of an external user up by the e-mail address. *)
(* Users stands for both: what holds here holds for topics whose user ids  *)
(* are UPNs.                                                               *)
(***************************************************************************)
EXTENDS CapSvc2Aad, Sequences

CONSTANTS
  MaxRedeliveries,   \* bound: times the reader goes back
  MaxFailures        \* bound: calls of the handlers that fail

ASSUME EventBoundsAssumption ==
  MaxRedeliveries \in Nat /\ MaxFailures \in Nat

VARIABLES
  log,       \* the topic: the events, oldest first
  pos,       \* place in the log of the next event, or of the one in hand
  ev,        \* local state of the handler
  aws,       \* identity store of AWS: provisioned group -> its members
  awsUsers,  \* identity store of AWS: provisioned users
  writes,    \* counts how often the handlers have changed the unit
  redeliveries,
  failures,
  crossed    \* a membership has changed during a run of the job, or the unit
             \*   began with two groups of one name

store      == <<aws, awsUsers>>
eventVars  == <<log, pos, ev, store, writes, redeliveries, failures, crossed>>
memberVars == <<vars, eventVars>>

-----------------------------------------------------------------------------
(* State *)

Event   == [kind : {"joined", "left"}, cap : Capabilities, user : Users]
EvIdle  == [phase |-> "idle", group |-> 0]
EvPhase == {"idle", "list", "write", "scim"}

MemberInit ==
  /\ Init
  /\ log = << >>
  /\ pos = 1
  /\ ev = EvIdle
  /\ awsUsers \in SUBSET Directory
  /\ \E D \in SUBSET {groups[g].cap : g \in DOMAIN groups} :
       aws \in [D -> SUBSET awsUsers]
  /\ writes = 0
  /\ redeliveries = 0
  /\ failures = 0
  /\ crossed = (\E c \in Capabilities : Cardinality(GroupsOf(c)) > 1)

-----------------------------------------------------------------------------
(* One event and its handler *)

Done == pos' = pos + 1 /\ ev' = EvIdle

Fails == failures < MaxFailures /\ failures' = failures + 1

\* GetCapabilities; the capability of the event is looked for.
FindCapability ==
  /\ ev.phase = "idle"
  /\ pos <= Len(log)
  /\ \/ /\ log[pos].cap \in DOMAIN capabilities
        /\ ev' = [ev EXCEPT !.phase = "list"]
        /\ UNCHANGED <<pos, failures>>
     \/ /\ log[pos].cap \notin DOMAIN capabilities
        /\ Done
        /\ UNCHANGED failures
     \/ Fails /\ Done
  /\ UNCHANGED <<vars, log, store, writes, redeliveries>>

\* The unit is listed, perhaps cut short, as in CapSvc2Aad.  Of two groups with
\* the name the last one listed is taken; without any the event fails.
FindGroup ==
  /\ ev.phase = "list"
  /\ \E ids \in SUBSET DOMAIN groups :
       LET found == ids \cap GroupsOf(log[pos].cap)
       IN  /\ IF ids = DOMAIN groups THEN UNCHANGED failures ELSE Fails
           /\ IF found = {} THEN Done
              ELSE /\ \E g \in found : ev' = [phase |-> "write", group |-> g]
                   /\ UNCHANGED pos
  /\ UNCHANGED <<vars, log, store, writes, redeliveries>>

\* A handler sets the unit to s.
Write(s) ==
  /\ groups' = s
  /\ writes' = IF s = groups THEN writes ELSE writes + 1

\* AddGroupMember.  404, no such user or group, fails the event; 400 is taken
\* for "a member already", whatever it means.
AddJoined ==
  /\ ev.phase = "write"
  /\ log[pos].kind = "joined"
  /\ LET possible == log[pos].user \in Directory /\ ev.group \in DOMAIN groups
     IN  \/ /\ possible
            /\ Write(WithMember(ev.group, log[pos].user))
            /\ ev' = [ev EXCEPT !.phase = "scim"]
            /\ UNCHANGED <<pos, failures>>
         \/ /\ ~possible
            /\ Write(groups) /\ Done
            /\ UNCHANGED failures
         \/ /\ Fails /\ Done
            /\ \/ Write(groups)
               \/ possible /\ Write(WithMember(ev.group, log[pos].user))
         \/ /\ Fails /\ Write(groups)                              \* 400
            /\ ev' = [ev EXCEPT !.phase = "scim"]
            /\ UNCHANGED pos
  /\ UNCHANGED <<world, job, faults, log, store, redeliveries>>

\* Variant: 404, not a member, fails the event.
DeleteLeftStrict ==
  /\ ev.phase = "write"
  /\ log[pos].kind = "left"
  /\ Write(WithoutMember(ev.group, log[pos].user))
  /\ IF groups' = groups THEN Done
     ELSE ev' = [ev EXCEPT !.phase = "scim"] /\ UNCHANGED pos
  /\ UNCHANGED <<world, job, faults, log, store, redeliveries, failures>>

\* Variant: a group without members is deleted.
DeleteLeftAndEmpty ==
  /\ ev.phase = "write"
  /\ log[pos].kind = "left"
  /\ Write(IF ev.group \in DOMAIN groups
              /\ groups[ev.group].members \subseteq {log[pos].user}
           THEN WithoutGroup(ev.group)
           ELSE WithoutMember(ev.group, log[pos].user))
  /\ ev' = [ev EXCEPT !.phase = "scim"]
  /\ UNCHANGED <<world, job, faults, log, store, redeliveries, pos, failures>>

\* GetUserViaUPN, then DeleteGroupMember.  404, not a member or no such group,
\* counts as done, as does 403.  A user that is not found gives the empty id,
\* and a DELETE that removes nobody: whatever comes of it, the event is settled.
DeleteLeft ==
  /\ ev.phase = "write"
  /\ log[pos].kind = "left"
  /\ \/ /\ log[pos].user \in Directory
        /\ Write(WithoutMember(ev.group, log[pos].user))
        /\ ev' = [ev EXCEPT !.phase = "scim"]
        /\ UNCHANGED <<pos, failures>>
     \/ /\ log[pos].user \notin Directory
        /\ Write(groups) /\ Done
        /\ UNCHANGED failures
     \/ /\ Fails /\ Done
        /\ \/ Write(groups)
           \/ Write(WithoutMember(ev.group, log[pos].user))
     \/ /\ Fails /\ Write(groups)                                  \* 403
        /\ ev' = [ev EXCEPT !.phase = "scim"]
        /\ UNCHANGED pos
  /\ UNCHANGED <<world, job, faults, log, store, redeliveries>>

\* The user and the group are looked up in AWS: what is not provisioned, or
\* cannot be looked up, is left to Azure's own provisioning.
Provisioned(e) == e.user \in awsUsers /\ e.cap \in DOMAIN aws

\* AWS after PatchAddMembersToGroup or PatchRemoveMembersFromGroup.
Patched(e) ==
  IF ~Provisioned(e) THEN aws
  ELSE [aws EXCEPT ![e.cap] = IF e.kind = "joined" THEN @ \cup {e.user}
                                                   ELSE @ \ {e.user}]

PatchAws ==
  /\ ev.phase = "scim"
  /\ Done
  /\ \/ aws' = Patched(log[pos]) /\ UNCHANGED failures
     \/ aws' \in {aws, Patched(log[pos])} /\ Fails
  /\ UNCHANGED <<vars, log, awsUsers, writes, redeliveries>>

HandlerStep ==
  /\ FindCapability \/ FindGroup \/ AddJoined \/ DeleteLeft \/ PatchAws
  /\ UNCHANGED crossed

\* The process ends in the middle of an event, or the reader goes back: what
\* Delivery calls a commit of an earlier offset.
Redeliver ==
  /\ redeliveries < MaxRedeliveries
  /\ redeliveries' = redeliveries + 1
  /\ pos' \in 1..pos
  /\ ev' = EvIdle
  /\ UNCHANGED <<vars, log, store, writes, failures, crossed>>

-----------------------------------------------------------------------------
(* The rest of the world (external) *)

\* A user joins or leaves a capability, and the service publishes it.
MembershipChange ==
  /\ Churn
  /\ \E c \in DOMAIN capabilities, u \in Users :
       LET joins == u \notin capabilities[c]
       IN  /\ capabilities' = [capabilities EXCEPT
                                 ![c] = IF joins THEN @ \cup {u} ELSE @ \ {u}]
           /\ log' = Append(log, [kind |-> IF joins THEN "joined" ELSE "left",
                                  cap |-> c, user |-> u])
  /\ crossed' = (crossed \/ \E r \in Runners : job[r].phase # "idle")
  /\ UNCHANGED <<groups, nextId, job, faults, pos, ev, store, writes, redeliveries,
                 failures>>

\* A capability goes.  Root ids are not used twice: those that exist at the
\* start stand for all that are ever created.
CapabilityGoes ==
  /\ Churn
  /\ \E c \in DOMAIN capabilities :
       capabilities' = [d \in DOMAIN capabilities \ {c} |-> capabilities[d]]
  /\ UNCHANGED <<groups, nextId, job, faults, eventVars>>

\* Azure provisions a group and its members to AWS.
AzureProvisions ==
  /\ \E g \in DOMAIN groups :
       /\ aws' = [d \in DOMAIN aws \cup {groups[g].cap} |->
                    IF d = groups[g].cap THEN groups[g].members ELSE aws[d]]
       /\ awsUsers' = awsUsers \cup groups[g].members
  /\ UNCHANGED <<vars, log, pos, ev, writes, redeliveries, failures, crossed>>

MemberNext ==
  \/ \E r \in Runners : (Step(r) \/ Killed(r)) /\ UNCHANGED eventVars
  \/ HandlerStep
  \/ Redeliver
  \/ MembershipChange
  \/ CapabilityGoes
  \/ AzureProvisions

MemberSpec == MemberInit /\ [][MemberNext]_memberVars
\* Only the job has to go on: it repairs what the events have not done.
MemberFairSpec ==
  MemberSpec /\ \A r \in Runners : WF_memberVars(Step(r) /\ UNCHANGED eventVars)

-----------------------------------------------------------------------------
(* Properties *)

\* As long as no call fails, no membership changes during a run of the job, which
\* would go on with what it has read, and the unit began without duplicates, the
\* last event about a user decides between runs, in Azure AD and, for those who
\* left, in AWS: however events and runs interleave, however often events are
\* delivered again and wherever a handler is cut off.  Every external user must
\* have an account: the job gives up at the first who has none, and may leave a
\* group it has just created without members whose event found no group.
EventsDecide ==
  /\ failures = 0 /\ faults = 0 /\ ~crossed
  /\ External \subseteq Directory
  /\ pos > Len(log)
  /\ \A r \in Runners : job[r].phase = "idle"
  => \A i \in DOMAIN log : LET c == log[i].cap
                               u == log[i].user
       IN  \A g \in GroupsOf(c) :
             GroupsOf(c) = {g} /\ c \in DOMAIN capabilities /\ u \in Directory =>
               /\ u \in groups[g].members <=> u \in capabilities[c]
               /\ c \in DOMAIN aws /\ u \in aws[c] => u \in capabilities[c]

\* What CapSvc2Aad leaves to DirectoryChange and ServiceChange is all that
\* happens here: what holds there holds here.
C == INSTANCE CapSvc2Aad WITH
       churn    <- churn + writes,
       MaxChurn <- MaxChurn + MaxChurn * (MaxRedeliveries + 1)
Abstracts == C!Spec
=============================================================================
