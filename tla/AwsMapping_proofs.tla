-------------------------- MODULE AwsMapping_proofs --------------------------
(***************************************************************************)
(* Theorems about AwsMapping, for any number of runs that overlap, any     *)
(* capabilities, groups and shared accounts, and any faults and changes.   *)
(***************************************************************************)
EXTENDS AwsMapping, TLAPS

(***************************************************************************)
(* RolesInTurn says what a run has done when it leaves a role.  On the way *)
(* there, what is not done is still in todo (Begun); a run that has listed *)
(* no groups yet is at the first role; and since groups are compared by    *)
(* name, a listing must hold every name once, as the identity store does   *)
(* at the time (NamesUnique).  had stands for Had, before or after a step. *)
(***************************************************************************)
ServedBy(q, i, had) ==
  IF i = 0
  THEN \A a \in DOMAIN q.known, g \in q.groups :
         name[g] = a /\ q.known[a] = "active" =>
           a \in foreign \/ \E h \in GroupIds : <<0, a, h>> \in had
  ELSE \A g \in q.groups : name[g] \in Prefixed => <<i, Shared[i], g>> \in had

Begun(q, had) ==
  IF q.role = 0
  THEN \A a \in DOMAIN q.known, g \in q.groups :
         name[g] = a /\ q.known[a] = "active" =>
           \/ a \in foreign
           \/ \E h \in GroupIds : <<0, a, h>> \in had
           \/ <<a, g>> \in q.todo
  ELSE \A g \in q.groups : name[g] \in Prefixed =>
         <<q.role, Shared[q.role], g>> \in had \/ <<Shared[q.role], g>> \in q.todo

InTurn(q, had) ==
  /\ q.groups \subseteq DOMAIN name
  /\ q.phase # "assign" => q.todo = {}
  /\ q.phase \in {"idle", "groups"} => q.role = 0
  /\ \A g, h \in q.groups : name[g] = name[h] => g = h
  /\ \A i \in 0..(q.role - 1) : ServedBy(q, i, had)
  /\ q.phase = "assign" => Begun(q, had)

IInv == TypeOK /\ NamesUnique /\ \A r \in Runners : InTurn(job[r], Had)

LEMMA SharedTypes ==
  /\ Len(Shared) \in Nat /\ DOMAIN Shared = 1..Len(Shared)
  /\ \A i \in 1..Len(Shared) : Shared[i] \in Accounts
  BY SharedAssumption DEF SharedSet, Accounts

LEMMA IdleType == Idle \in Run
  <1>1. NoAccounts \in [{} -> Status]
    BY DEF NoAccounts
  <1>2. NoAccounts \in UNION {[A -> Status] : A \in SUBSET Accounts}
    BY <1>1
  <1> QED BY <1>2, SharedTypes DEF Idle, Run, Roles

LEMMA IdleInTurn == ASSUME NEW had PROVE InTurn(Idle, had)
  BY SharedTypes DEF Idle, InTurn

LEMMA IInvInit == Init => IInv
  <1> SUFFICES ASSUME Init PROVE IInv
    OBVIOUS
  <1>1. job \in [Runners -> Run] /\ \A r \in Runners : job[r] = Idle
    BY IdleType DEF Init
  <1>2. \A r \in Runners : /\ job[r].groups = {} /\ job[r].todo = {}
                           /\ job[r].phase = "idle"
    BY <1>1 DEF Idle
  <1>3. \E A \in SUBSET Accounts : accounts \in [A -> Status]
    BY DEF Init, Status
  <1>4. name \in Seq(Names) /\ Len(name) <= MaxGroups
    BY MappingBoundsAssumption DEF Init
  <1>5. /\ foreign \in SUBSET Accounts /\ live \in SUBSET DOMAIN name
        /\ assigned = {} /\ pending = {} /\ lost = {}
        /\ faults = 0 /\ changes = 0
    <2>1. DOMAIN accounts \subseteq Accounts
      BY <1>3
    <2> QED BY <2>1 DEF Init
  <1>6. TypeOK
    BY <1>1, <1>2, <1>3, <1>4, <1>5, MappingBoundsAssumption DEF TypeOK
  <1>7. NamesUnique
    BY DEF Init
  <1> QED BY <1>1, <1>6, <1>7, IdleInTurn DEF IInv

(* What a step leaves of a run that is q after it: groups keep their names, and  *)
(* what AWS had it has, has been asked for, or is known to have lost.            *)
LEMMA StaysInTurn ==
  ASSUME NEW r \in Runners, NEW q \in Run, job'[r] = q,
         NEW had, InTurn(q, had), had \subseteq Had',
         foreign' = foreign, DOMAIN name \subseteq DOMAIN name',
         \A g \in DOMAIN name : name'[g] = name[g]
  PROVE  InTurn(job[r], Had)'
  <1>1. /\ q.groups \subseteq DOMAIN name /\ q.role \in Roles
        /\ \A g \in q.groups : name'[g] = name[g]
    BY DEF InTurn, Run
  <1>2. \A i \in 0..(q.role - 1) : ServedBy(q, i, had)
    BY DEF InTurn
  <1>3. \A i \in 0..(q.role - 1) : ServedBy(job[r], i, Had)'
    <2> TAKE i \in 0..(q.role - 1)
    <2>1. CASE i = 0
      BY <1>1, <1>2, <2>1 DEF ServedBy
    <2>2. CASE i # 0
      BY <1>1, <1>2, <2>2 DEF ServedBy
    <2> QED BY <2>1, <2>2
  <1>4. q.phase = "assign" => Begun(job[r], Had)'
    <2> HAVE q.phase = "assign"
    <2>1. Begun(q, had)
      BY DEF InTurn
    <2>2. CASE q.role = 0
      BY <1>1, <2>1, <2>2 DEF Begun
    <2>3. CASE q.role # 0
      BY <1>1, <2>1, <2>3 DEF Begun
    <2> QED BY <2>2, <2>3
  <1>5. /\ q.groups \subseteq DOMAIN name'
        /\ q.phase # "assign" => q.todo = {}
        /\ q.phase \in {"idle", "groups"} => q.role = 0
        /\ \A g, h \in q.groups : name'[g] = name'[h] => g = h
    BY <1>1 DEF InTurn
  <1> QED BY <1>3, <1>4, <1>5 DEF InTurn

(* A step of one runner. *)
LEMMA OneRun ==
  ASSUME IInv, NEW r \in Runners, NEW q \in Run,
         job' = [job EXCEPT ![r] = q],
         InTurn(q, Had'), Had \subseteq Had',
         UNCHANGED <<others, assigned>>,
         faults' \in 0..MaxFaults,
         pending' \in SUBSET Assignment, lost' \in SUBSET Assignment
  PROVE  IInv'
  <1>1. job' \in [Runners -> Run]
    BY DEF IInv, TypeOK
  <1>2. \A s \in Runners : job'[s] = IF s = r THEN q ELSE job[s]
    BY DEF IInv, TypeOK
  <1>3. /\ accounts' = accounts /\ name' = name /\ live' = live
        /\ foreign' = foreign /\ changes' = changes /\ assigned' = assigned
    BY DEF others
  <1>4. ASSUME NEW s \in Runners PROVE InTurn(job[s], Had)'
    <2>1. CASE s = r
      <3> DEFINE had == Had'
      <3>1. InTurn(q, had) /\ had \subseteq Had'
        OBVIOUS
      <3> HIDE DEF had
      <3> QED BY <1>2, <1>3, <2>1, <3>1, StaysInTurn
    <2>2. CASE s # r
      <3>1. job[s] \in Run /\ InTurn(job[s], Had) /\ job'[s] = job[s]
        BY <1>2, <2>2 DEF IInv, TypeOK
      <3> QED BY <1>3, <3>1, StaysInTurn
    <2> QED BY <2>1, <2>2
  <1>5. TypeOK'
    <2>1. \A s \in Runners : /\ job'[s].groups \subseteq DOMAIN name'
                             /\ job'[s].phase # "assign" => job'[s].todo = {}
      BY <1>4 DEF InTurn
    <2> QED BY <1>1, <1>3, <2>1 DEF IInv, TypeOK
  <1>6. NamesUnique'
    BY <1>3 DEF IInv, NamesUnique
  <1> QED BY <1>4, <1>5, <1>6 DEF IInv

LEMMA FaultType == IInv /\ (Fault \/ UNCHANGED faults) => faults' \in 0..MaxFaults
  BY MappingBoundsAssumption DEF IInv, TypeOK, Fault

LEMMA AwsTypes ==
  IInv => pending \in SUBSET Assignment /\ lost \in SUBSET Assignment
  BY DEF IInv, TypeOK

LEMMA IdleRun ==
  ASSUME IInv, NEW r \in Runners, Return(r), Had \subseteq Had',
         UNCHANGED <<others, assigned>>, faults' \in 0..MaxFaults,
         pending' \in SUBSET Assignment, lost' \in SUBSET Assignment
  PROVE  IInv'
  <1>1. InTurn(Idle, Had')
    <2> DEFINE had == Had'
    <2>1. InTurn(Idle, had)
      BY IdleInTurn
    <2> QED BY <2>1
  <1> QED BY <1>1, IdleType, OneRun DEF Return

LEMMA SameAws ==
  ASSUME IInv, UNCHANGED aws
  PROVE  /\ Had' = Had /\ Had \subseteq Had' /\ UNCHANGED assigned
         /\ pending' \in SUBSET Assignment /\ lost' \in SUBSET Assignment
  BY AwsTypes DEF aws, Had

(* Each list leaves out only those who have what the role gives, or somebody    *)
(* else in their place.                                                          *)
LEMMA MissingBegins ==
  ASSUME IInv, NEW r \in Runners, job[r].role = 0,
         NEW a \in DOMAIN job[r].known, NEW g \in job[r].groups,
         name[g] = a, job[r].known[a] = "active"
  PROVE  \/ a \in foreign
         \/ \E h \in GroupIds : <<0, a, h>> \in Had
         \/ <<a, g>> \in Missing(r)
  <1>1. CASE a \in Provisioned
    BY <1>1 DEF Provisioned, Had
  <1>2. CASE a \notin Provisioned
    <2>1. <<a, g>> \in (DOMAIN job[r].known \ Provisioned) \X job[r].groups
      BY <1>2
    <2> QED BY <2>1 DEF Missing
  <1> QED BY <1>1, <1>2

LEMMA NotAssignedBegins ==
  ASSUME IInv, NEW r \in Runners, job[r].role # 0,
         NEW g \in job[r].groups, name[g] \in Prefixed
  PROVE  \/ <<job[r].role, Shared[job[r].role], g>> \in Had
         \/ <<Shared[job[r].role], g>> \in NotAssigned(r)
  <1> DEFINE a == Shared[job[r].role]
             S == {h \in job[r].groups : <<job[r].role, a, h>> \in assigned}
             names == {name[h] : h \in S}
  <1>1. CASE name[g] \in names
    <2>1. PICK h \in S : name[h] = name[g]
      BY <1>1
    <2>2. h = g
      BY <2>1 DEF IInv, InTurn
    <2> QED BY <2>1, <2>2 DEF Had
  <1>2. CASE name[g] \notin names
    BY <1>2 DEF NotAssigned
  <1> QED BY <1>1, <1>2

LEMMA ListTypes ==
  ASSUME IInv, NEW r \in Runners
  PROVE  /\ Missing(r) \in SUBSET (Accounts \X GroupIds)
         /\ job[r].role # 0 => NotAssigned(r) \in SUBSET (Accounts \X GroupIds)
  <1>1. DOMAIN job[r].known \subseteq Accounts /\ job[r].groups \subseteq GroupIds
    BY DEF IInv, TypeOK, Run
  <1>2. job[r].role # 0 => Shared[job[r].role] \in Accounts
    BY SharedTypes DEF IInv, TypeOK, Run, Roles
  <1> QED BY <1>1, <1>2 DEF Missing, NotAssigned

LEMMA RunnerStep ==
  ASSUME IInv, NEW r \in Runners, Step(r) \/ Killed(r)
  PROVE  IInv'
  <1>0. /\ job \in [Runners -> Run] /\ job[r] \in Run
        /\ InTurn(job[r], Had)
        /\ job[r].role \in 0..Len(Shared)
    BY DEF IInv, TypeOK, Run, Roles
  <1>1. CASE ListAccounts(r)
    <2>1. PICK A \in SUBSET DOMAIN accounts :
            /\ Fault \/ UNCHANGED faults
            /\ job' = [job EXCEPT ![r].phase = "groups",
                                  ![r].known = [a \in A |-> accounts[a]]]
      BY <1>1 DEF ListAccounts
    <2> DEFINE k == [a \in A |-> accounts[a]]
               q == [job[r] EXCEPT !.phase = "groups", !.known = k]
    <2>2. k \in [A -> Status] /\ A \in SUBSET Accounts
      BY DEF IInv, TypeOK
    <2>3. k \in UNION {[B -> Status] : B \in SUBSET Accounts}
      BY <2>2
    <2>4. job' = [job EXCEPT ![r] = q]
      BY <2>1, <1>0
    <2> HIDE DEF k
    <2>5. /\ q \in Run /\ q.groups = job[r].groups /\ q.todo = {}
          /\ q.phase = "groups" /\ q.role = 0
      BY <1>0, <1>1, <2>3 DEF Run, ListAccounts, InTurn
    <2>6. faults' \in 0..MaxFaults
      BY <2>1, FaultType
    <2> HIDE DEF q
    <2>7. InTurn(q, Had)
      BY <1>0, <2>5 DEF InTurn
    <2> QED BY <1>1, <2>4, <2>5, <2>6, <2>7, OneRun, SameAws DEF ListAccounts
  <1>2. CASE ListGroups(r)
    <2> DEFINE q == [job[r] EXCEPT !.phase = "list", !.groups = live]
    <2>1. job' = [job EXCEPT ![r] = q]
      BY <1>0, <1>2 DEF ListGroups
    <2>2. live \in SUBSET GroupIds /\ live \subseteq DOMAIN name
      BY MappingBoundsAssumption DEF IInv, TypeOK, GroupIds
    <2>3. /\ q \in Run /\ q.groups = live /\ q.todo = {} /\ q.phase = "list"
          /\ q.role = 0
      BY <1>0, <1>2, <2>2 DEF Run, ListGroups, InTurn
    <2>4. faults' \in 0..MaxFaults
      BY <1>2, FaultType DEF ListGroups
    <2> HIDE DEF q
    <2>5. InTurn(q, Had)
      BY <2>2, <2>3 DEF InTurn, IInv, NamesUnique
    <2>6. UNCHANGED <<others, aws>>
      BY <1>2 DEF ListGroups
    <2> QED BY <2>1, <2>3, <2>4, <2>5, <2>6, OneRun, SameAws
  <1>3. CASE ListRole(r)
    <2>1. faults' \in 0..MaxFaults
      BY <1>3, FaultType DEF ListRole
    <2>2. CASE Return(r)
      BY <1>3, <2>1, <2>2, IdleRun, SameAws DEF ListRole
    <2>3. CASE ~Return(r)
      <3> DEFINE d == IF job[r].role = 0 THEN Missing(r) ELSE NotAssigned(r)
                 q == [job[r] EXCEPT !.phase = "assign", !.todo = d]
      <3>1. job' = [job EXCEPT ![r] = q]
        BY <1>0, <1>3, <2>3 DEF ListRole
      <3>2. d \in SUBSET (Accounts \X GroupIds)
        BY ListTypes
      <3>3. /\ q \in Run /\ q.groups = job[r].groups /\ q.todo = d
            /\ q.phase = "assign" /\ q.role = job[r].role /\ q.known = job[r].known
        <4> HIDE DEF d
        <4> QED BY <1>0, <3>2 DEF Run
      <3>4. Begun(q, Had)
        <4> HIDE DEF q
        <4>1. CASE job[r].role = 0
          BY <3>3, <4>1, MissingBegins DEF Begun
        <4>2. CASE job[r].role # 0
          BY <3>3, <4>2, NotAssignedBegins DEF Begun
        <4> QED BY <4>1, <4>2
      <3> HIDE DEF d, q
      <3>5. InTurn(q, Had)
        BY <1>0, <3>3, <3>4 DEF InTurn, ServedBy
      <3> QED BY <1>3, <2>1, <3>1, <3>3, <3>5, OneRun, SameAws DEF ListRole
    <2> QED BY <2>2, <2>3
  <1>4. ASSUME NEW p \in job[r].todo, CreateAssignment(r, p)
        PROVE  IInv'
    <2> DEFINE t == <<job[r].role, p[1], p[2]>>
    <2>1. t \in Assignment /\ p = <<p[1], p[2]>> /\ p[2] \in GroupIds
      BY <1>0 DEF Run, Assignment
    <2>2. /\ pending' \subseteq pending \cup {t} /\ lost' \subseteq lost
          /\ UNCHANGED <<others, assigned>> /\ (Fault \/ UNCHANGED faults)
      BY <1>4 DEF CreateAssignment
    <2>3. Had \subseteq Had'
      BY <1>4 DEF CreateAssignment, Had
    <2>4. /\ pending' \in SUBSET Assignment /\ lost' \in SUBSET Assignment
          /\ faults' \in 0..MaxFaults
      <3> HIDE DEF t
      <3> QED BY <2>1, <2>2, AwsTypes, FaultType
    <2>5. CASE Return(r)
      <3> HIDE DEF t
      <3>1. UNCHANGED <<others, assigned>>
        BY <2>2
      <3> QED BY <2>3, <2>4, <2>5, <3>1, IdleRun
    <2>6. CASE ~Return(r)
      <3> DEFINE q == [job[r] EXCEPT !.todo = @ \ {p}]
      <3>1. job' = [job EXCEPT ![r] = q] /\ t \in Had'
        BY <1>0, <1>4, <2>6 DEF CreateAssignment, Had
      <3>2. /\ q \in Run /\ q.groups = job[r].groups /\ q.todo = job[r].todo \ {p}
            /\ q.phase = "assign" /\ q.role = job[r].role /\ q.known = job[r].known
        BY <1>0, <1>4 DEF Run, CreateAssignment
      <3> HIDE DEF q
      <3>3. Begun(job[r], Had)
        BY <1>0, <1>4 DEF InTurn, CreateAssignment
      <3>4. Begun(q, Had')
        <4>1. CASE job[r].role = 0
          BY <2>1, <2>3, <3>1, <3>2, <3>3, <4>1 DEF Begun
        <4>2. CASE job[r].role # 0
          BY <2>1, <2>3, <3>1, <3>2, <3>3, <4>2 DEF Begun
        <4> QED BY <4>1, <4>2
      <3>5. \A i \in 0..(q.role - 1) : ServedBy(q, i, Had')
        <4> TAKE i \in 0..(q.role - 1)
        <4>1. ServedBy(job[r], i, Had)
          BY <1>0, <3>2 DEF InTurn
        <4> QED BY <2>3, <3>2, <4>1 DEF ServedBy
      <3>6. InTurn(q, Had')
        BY <1>0, <3>2, <3>4, <3>5 DEF InTurn
      <3>7. UNCHANGED <<others, assigned>>
        BY <2>2
      <3> HIDE DEF t
      <3>8. job' = [job EXCEPT ![r] = q]
        BY <3>1
      <3> QED BY <2>3, <2>4, <3>2, <3>6, <3>7, <3>8, OneRun
    <2> QED BY <2>5, <2>6
  <1>5. CASE NextRole(r)
    <2>1. faults' \in 0..MaxFaults
      BY <1>5, FaultType DEF NextRole
    <2>2. CASE Return(r)
      BY <1>5, <2>1, <2>2, IdleRun, SameAws DEF NextRole
    <2>3. CASE ~Return(r)
      <3> DEFINE q == [job[r] EXCEPT !.phase = "list", !.role = @ + 1]
      <3>1. /\ job' = [job EXCEPT ![r] = q] /\ job[r].role # Len(Shared)
            /\ job[r].phase = "assign" /\ job[r].todo = {}
        BY <1>0, <1>5, <2>3 DEF NextRole
      <3>2. job[r].role + 1 \in Roles
        BY <1>0, <3>1, SharedTypes DEF Roles
      <3>3. /\ q \in Run /\ q.groups = job[r].groups /\ q.todo = {}
            /\ q.phase = "list" /\ q.known = job[r].known
            /\ q.role = job[r].role + 1
        BY <1>0, <3>1, <3>2 DEF Run
      <3> HIDE DEF q
      <3>4. ServedBy(job[r], job[r].role, Had)
        <4>1. Begun(job[r], Had)
          BY <1>0, <3>1 DEF InTurn
        <4> QED BY <3>1, <4>1 DEF Begun, ServedBy
      <3>5. \A i \in 0..(q.role - 1) : ServedBy(q, i, Had)
        <4> TAKE i \in 0..(q.role - 1)
        <4>1. i \in 0..(job[r].role - 1) \/ i = job[r].role
          BY <1>0, <3>3, SharedTypes
        <4>2. ServedBy(job[r], i, Had)
          BY <1>0, <3>4, <4>1 DEF InTurn
        <4> QED BY <3>3, <4>2 DEF ServedBy
      <3>6. InTurn(q, Had)
        BY <1>0, <3>3, <3>5 DEF InTurn
      <3> QED BY <1>5, <2>1, <3>1, <3>3, <3>6, OneRun, SameAws DEF NextRole
    <2> QED BY <2>2, <2>3
  <1>6. CASE Killed(r)
    <2>1. faults' \in 0..MaxFaults
      BY <1>6, FaultType DEF Killed
    <2> QED BY <1>6, <2>1, IdleRun, SameAws DEF Killed
  <1> QED BY <1>1, <1>2, <1>3, <1>4, <1>5, <1>6 DEF Step

(* What AWS and others do leaves the runs as they are. *)
LEMMA IInvStep == IInv /\ [Next]_vars => IInv'
  <1> SUFFICES ASSUME IInv, [Next]_vars PROVE IInv'
    OBVIOUS
  <1>1. ASSUME NEW r \in Runners, Step(r) \/ Killed(r) PROVE IInv'
    BY <1>1, RunnerStep
  <1>r. ASSUME job' = job, Had \subseteq Had', foreign' = foreign,
               DOMAIN name \subseteq DOMAIN name',
               \A g \in DOMAIN name : name'[g] = name[g]
        PROVE  \A r \in Runners : InTurn(job[r], Had)'
    <2> TAKE r \in Runners
    <2>1. job[r] \in Run /\ InTurn(job[r], Had)
      BY DEF IInv, TypeOK
    <2> QED BY <1>r, <2>1, StaysInTurn
  <1>2. ASSUME NEW t \in pending, Settles(t) PROVE IInv'
    <2>1. faults' \in 0..MaxFaults
      BY <1>2, FaultType DEF Settles
    <2>2. /\ pending' \subseteq pending /\ assigned' \subseteq assigned \cup pending
          /\ lost' \subseteq lost \cup pending
          /\ UNCHANGED <<others, job>>
      BY <1>2 DEF Settles
    <2>3. Had \subseteq Had'
      BY <1>2 DEF Settles, Had
    <2>4. \A r \in Runners : InTurn(job[r], Had)'
      BY <1>r, <2>2, <2>3 DEF others
    <2> QED BY <2>1, <2>2, <2>4 DEF IInv, TypeOK, NamesUnique, others
  <1>3. ASSUME Change PROVE changes' \in 0..MaxChanges
    BY <1>3, MappingBoundsAssumption DEF Change, IInv, TypeOK
  <1>4. CASE AccountChanged
    <2>1. PICK a \in Accounts, s \in Status :
            accounts' = [b \in DOMAIN accounts \cup {a} |->
                           IF b = a THEN s ELSE accounts[b]]
      BY <1>4 DEF AccountChanged
    <2>2. PICK A \in SUBSET Accounts : accounts \in [A -> Status]
      BY DEF IInv, TypeOK
    <2>3. A \cup {a} \in SUBSET Accounts /\ accounts' \in [A \cup {a} -> Status]
      BY <2>1, <2>2
    <2>4. \E B \in SUBSET Accounts : accounts' \in [B -> Status]
      BY <2>3
    <2>5. \A r \in Runners : InTurn(job[r], Had)'
      BY <1>4, <1>r DEF AccountChanged, aws, Had
    <2> QED BY <1>3, <1>4, <2>4, <2>5
            DEF AccountChanged, IInv, TypeOK, NamesUnique, aws
  <1>5. CASE GroupProvisioned
    <2>1. PICK n \in Prefixed : (\A g \in live : name[g] # n) /\ name' = Append(name, n)
      BY <1>5 DEF GroupProvisioned
    <2>2. /\ name \in Seq(Names) /\ n \in Names
          /\ Len(name) \in Nat /\ DOMAIN name = 1..Len(name)
          /\ Len(name) < MaxGroups
      BY <1>5 DEF GroupProvisioned, IInv, TypeOK, Names
    <2>3. /\ name' \in Seq(Names)
          /\ Len(name') = Len(name) + 1
          /\ DOMAIN name' = 1..(Len(name) + 1)
          /\ \A g \in DOMAIN name : name'[g] = name[g]
          /\ name'[Len(name) + 1] = n
      BY <2>1, <2>2
    <2>4. /\ DOMAIN name \subseteq DOMAIN name'
          /\ Len(name) + 1 \in DOMAIN name' /\ Len(name') <= MaxGroups
      BY <2>2, <2>3, MappingBoundsAssumption
    <2>5. /\ live' \subseteq DOMAIN name' /\ live' = live \cup {Len(name) + 1}
          /\ UNCHANGED <<accounts, foreign, aws, job, faults>>
      BY <1>5, <2>4 DEF GroupProvisioned, IInv, TypeOK
    <2>6. TypeOK'
      BY <1>3, <1>5, <2>3, <2>4, <2>5 DEF GroupProvisioned, IInv, TypeOK, aws
    <2>7. \A r \in Runners : InTurn(job[r], Had)'
      BY <1>r, <2>3, <2>4, <2>5 DEF aws, Had
    <2>8. NamesUnique'
      <3>1. live \subseteq DOMAIN name /\ NamesUnique
        BY DEF IInv, TypeOK
      <3>2. \A g \in live : name'[g] = name[g] /\ name'[g] # n
        BY <2>1, <2>3, <3>1
      <3> QED BY <2>3, <2>5, <3>1, <3>2 DEF NamesUnique
    <2> QED BY <2>6, <2>7, <2>8 DEF IInv
  <1>6. CASE GroupGoes
    <2>1. /\ live' \subseteq live /\ assigned' \subseteq assigned
          /\ lost' = lost \cup (assigned \ assigned')
          /\ UNCHANGED <<accounts, name, foreign, pending, job, faults>>
      BY <1>6 DEF GroupGoes
    <2>2. \A r \in Runners : InTurn(job[r], Had)'
      BY <1>r, <2>1 DEF Had
    <2> QED BY <1>3, <1>6, <2>1, <2>2 DEF GroupGoes, IInv, TypeOK, NamesUnique
  <1>7. CASE Revoked
    <2>1. PICK t \in assigned : assigned' = assigned \ {t} /\ lost' = lost \cup {t}
      BY <1>7 DEF Revoked
    <2>2. UNCHANGED <<accounts, name, live, foreign, pending, job, faults>>
      BY <1>7 DEF Revoked
    <2>3. \A r \in Runners : InTurn(job[r], Had)'
      BY <1>r, <2>1, <2>2 DEF Had
    <2> QED BY <1>3, <1>7, <2>1, <2>2, <2>3 DEF Revoked, IInv, TypeOK, NamesUnique
  <1>8. CASE UNCHANGED vars
    <2>1. \A r \in Runners : InTurn(job[r], Had)'
      BY <1>8, <1>r DEF vars, others, aws, Had
    <2> QED BY <1>8, <2>1 DEF vars, others, aws, IInv, TypeOK, NamesUnique
  <1> QED BY <1>1, <1>2, <1>4, <1>5, <1>6, <1>7, <1>8 DEF Next

LEMMA Invariant == Spec => []IInv
  BY IInvInit, IInvStep, PTL DEF Spec

-----------------------------------------------------------------------------
(* The run of the scheduler, of a route and of both at once keep these. *)

\* The state has its type; what is still to be asked for is known only while a
\* role is served (handler/awsmapping.go).
THEOREM TypeCorrect == Spec => []TypeOK
  <1>1. IInv => TypeOK
    BY DEF IInv
  <1> QED BY <1>1, Invariant, PTL

\* However many runs overlap, and whatever goes, is refused or fails behind their
\* backs: a run reaches a role, and its end, only after every group it has listed
\* has had, or was asked for, all the roles before (handler/awsmapping.go:
\* AwsMappingHandler, addToSharedRole, aws/sso.go:
\* GetGroupsNotAssignedToAccountWithPermissionSet).
THEOREM RolesInTurnAlways == Spec => []RolesInTurn
  <1>1. IInv => RolesInTurn
    <2> SUFFICES ASSUME IInv, NEW r \in Runners
                 PROVE  /\ \A i \in 0..(job[r].role - 1) : Served(job[r], i)
                        /\ job[r].phase = "assign" /\ job[r].todo = {} =>
                             Served(job[r], job[r].role)
      BY DEF RolesInTurn
    <2>1. InTurn(job[r], Had)
      BY DEF IInv
    <2>2. \A i \in 0..(job[r].role - 1) : Served(job[r], i)
      BY <2>1 DEF InTurn, ServedBy, Served
    <2>3. job[r].phase = "assign" /\ job[r].todo = {} => Served(job[r], job[r].role)
      BY <2>1 DEF InTurn, Begun, Served
    <2> QED BY <2>2, <2>3
  <1> QED BY <1>1, Invariant, PTL
=============================================================================
