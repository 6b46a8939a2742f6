--------------------------- MODULE AwsAuthMap_proofs ---------------------------
(***************************************************************************)
(* Proofs about AwsAuthMap for any number of accounts, runs, mappings and  *)
(* failures: the types, that no role is mapped twice, that no run takes    *)
(* away a mapping of somebody else, and none of a role that exists.        *)
(***************************************************************************)
EXTENDS AwsAuthMap, TLAPS

Distinct(s) == \A i, k \in DOMAIN s : s[i].arn = s[k].arn => i = k

\* The foreign mappings of s are in t.
KeepsForeign(s, t) ==
  \A i \in DOMAIN s : ~s[i].managed =>
    \E k \in DOMAIN t : t[k].arn = s[i].arn /\ ~t[k].managed

-----------------------------------------------------------------------------
(* What the steps of the two loops do to a list of mappings *)

Good(s, t) ==
  /\ t \in Seq(RoleMapping)
  /\ Distinct(t)
  /\ KeepsForeign(s, t)

LEMMA RemoveItemGood ==
  ASSUME NEW s \in Seq(RoleMapping), Distinct(s),
         NEW i \in 1..Len(s), s[i].managed
  PROVE  Good(s, RemoveItem(s, i))
<1> DEFINE t == RemoveItem(s, i)
           n == Len(s)
<1>1. n \in Nat /\ DOMAIN s = 1..n
  OBVIOUS
<1>2. \A k \in 1..n : s[k] \in RoleMapping
  OBVIOUS
<1>3. DOMAIN t = 1..(n - 1) /\ \A k \in 1..(n - 1) : t[k] = IF k = i THEN s[n] ELSE s[k]
  BY DEF RemoveItem
<1>4. t \in Seq(RoleMapping)
  <2>1. n - 1 \in Nat
    BY <1>1
  <2>2. \A k \in 1..(n - 1) : t[k] \in RoleMapping
    BY <1>1, <1>2, <1>3
  <2>3. t = [k \in 1..(n - 1) |-> t[k]]
    BY DEF RemoveItem
  <2> HIDE DEF t
  <2> QED BY <2>1, <2>2, <2>3
<1> HIDE DEF t, n
<1>5. Distinct(t)
  BY <1>1, <1>3 DEF Distinct
<1>6. KeepsForeign(s, t)
  <2> SUFFICES ASSUME NEW k \in 1..n, ~s[k].managed
               PROVE  \E m \in 1..(n - 1) : t[m].arn = s[k].arn /\ ~t[m].managed
    BY <1>1, <1>3 DEF KeepsForeign
  <2>1. k # i /\ i \in 1..n
    BY DEF n
  <2>2. CASE k = n
    <3>1. i \in 1..(n - 1) /\ t[i] = s[k]
      BY <1>1, <1>3, <2>1, <2>2
    <3> QED BY <3>1
  <2>3. CASE k # n
    <3>1. k \in 1..(n - 1) /\ t[k] = s[k]
      BY <1>1, <1>3, <2>1, <2>3
    <3> QED BY <3>1
  <2> QED BY <2>2, <2>3
<1> QED BY <1>4, <1>5, <1>6 DEF Good, t

LEMMA SameGood ==
  ASSUME NEW s \in Seq(RoleMapping), Distinct(s)
  PROVE  Good(s, s)
  BY DEF Good, KeepsForeign

\* In a list without doubles GetMappingByArn finds the one mapping of a role.
LEMMA MappingByArnFinds ==
  ASSUME NEW s \in Seq(RoleMapping), Distinct(s), NEW arn
  PROVE  /\ MappingByArn(s, arn) = 0 => \A i \in DOMAIN s : s[i].arn # arn
         /\ MappingByArn(s, arn) # 0 =>
              MappingByArn(s, arn) \in DOMAIN s /\ s[MappingByArn(s, arn)].arn = arn
<1> DEFINE hits == {i \in DOMAIN s : s[i].arn = arn}
<1>1. CASE hits = {}
  BY <1>1 DEF MappingByArn
<1>2. CASE hits # {}
  <2>1. PICK i \in hits : TRUE
    BY <1>2
  <2>2. \A k \in hits : k = i
    BY <2>1 DEF Distinct
  <2>3. i \in Nat /\ i # 0
    BY <2>1
  <2>4. \A k \in hits : i <= k
    BY <2>2, <2>3
  <2>5. MappingByArn(s, arn) = CHOOSE j \in hits : \A k \in hits : j <= k
    BY <1>2 DEF MappingByArn
  <2>6. MappingByArn(s, arn) \in hits
    BY <2>1, <2>4, <2>5
  <2> QED BY <2>2, <2>3, <2>6
<1> QED BY <1>1, <1>2

LEMMA AppendGood ==
  ASSUME NEW s \in Seq(RoleMapping), Distinct(s),
         NEW m \in RoleMapping, \A i \in DOMAIN s : s[i].arn # m.arn
  PROVE  Good(s, Append(s, m))
<1> DEFINE t == Append(s, m)
           n == Len(s)
<1>1. t \in Seq(RoleMapping)
  OBVIOUS
<1>2. n \in Nat /\ DOMAIN s = 1..n /\ DOMAIN t = 1..(n + 1)
  OBVIOUS
<1>3. t[n + 1] = m /\ \A k \in 1..n : t[k] = s[k]
  OBVIOUS
<1> HIDE DEF t, n
<1>4. Distinct(t)
  BY <1>2, <1>3 DEF Distinct
<1>5. KeepsForeign(s, t)
  BY <1>2, <1>3 DEF KeepsForeign
<1> QED BY <1>1, <1>4, <1>5 DEF Good, t

LEMMA RightGood ==
  ASSUME NEW s \in Seq(RoleMapping), Distinct(s), NEW i \in DOMAIN s
  PROVE  Good(s, [s EXCEPT ![i].right = TRUE])
<1> DEFINE t == [s EXCEPT ![i].right = TRUE]
<1>1. s \in [1..Len(s) -> RoleMapping] /\ Len(s) \in Nat
  OBVIOUS
<1>2. DOMAIN t = DOMAIN s
  OBVIOUS
<1>3. \A k \in DOMAIN s : /\ t[k] \in RoleMapping
                          /\ t[k].arn = s[k].arn
                          /\ t[k].managed = s[k].managed
  BY <1>1 DEF RoleMapping
<1>4. t \in Seq(RoleMapping)
  <2>1. t = [k \in 1..Len(s) |-> t[k]]
    BY <1>1
  <2> HIDE DEF t
  <2> QED BY <1>1, <1>3, <2>1
<1> HIDE DEF t
<1>5. Distinct(t) /\ KeepsForeign(s, t)
  BY <1>2, <1>3 DEF Distinct, KeepsForeign
<1> QED BY <1>4, <1>5 DEF Good, t

-----------------------------------------------------------------------------
(* The inductive invariant *)

\* What a run holds is well-formed, and if it holds the latest resourceVersion,
\* it holds all foreign mappings of the cluster.
RunInv(run, fresh) ==
  /\ RunOK(run)
  /\ Distinct(run.maps)
  /\ fresh /\ run.phase \in {"prune", "map", "save"} => KeepsForeign(mappings, run.maps)

MapInv ==
  /\ roles \in [Accounts -> RoleNames \cup {NoRole}]
  /\ mappings \in Seq(RoleMapping)
  /\ Distinct(mappings)
  /\ latest \in SUBSET Runners
  /\ DOMAIN job = Runners
  /\ \A r \in Runners : RunInv(job[r], r \in latest)
  /\ faults \in 0..MaxFaults
  /\ churn \in 0..MaxChurn

LEMMA InitInv == Init => MapInv
<1> SUFFICES ASSUME Init PROVE MapInv
  OBVIOUS
<1>1. mappings \in Seq(RoleMapping)
  BY BoundsAssumption DEF Init
<1>2. Distinct(mappings)
  BY DEF Init, InitialMapping, Distinct
<1>3. RunOK(Idle) /\ Idle.maps = <<>> /\ Idle.phase = "idle"
  BY DEF RunOK, Idle
<1>4. \A r \in Runners : RunInv(job[r], r \in latest)
  <2> SUFFICES ASSUME NEW r \in Runners PROVE RunInv(Idle, r \in latest)
    BY DEF Init
  <2> QED BY <1>3 DEF RunInv, Distinct
<1>5. DOMAIN job = Runners /\ latest \in SUBSET Runners
  BY DEF Init
<1>6. faults \in 0..MaxFaults /\ churn \in 0..MaxChurn
  BY BoundsAssumption DEF Init
<1> QED BY <1>1, <1>2, <1>4, <1>5, <1>6 DEF Init, MapInv

\* A step of a run that leaves the cluster alone keeps the invariant if the new
\* local state is well-formed.
LEMMA LocalStep ==
  ASSUME MapInv, NEW r \in Runners,
         DOMAIN job' = Runners,
         \A q \in Runners \ {r} : job'[q] = job[q],
         RunInv(job'[r], r \in latest'),
         latest' \in SUBSET Runners,
         \A q \in Runners \ {r} : q \in latest' => q \in latest,
         UNCHANGED mappings
  PROVE  /\ mappings' \in Seq(RoleMapping) /\ Distinct(mappings')
         /\ latest' \in SUBSET Runners
         /\ DOMAIN job' = Runners
         /\ \A q \in Runners : RunInv(job[q], q \in latest)'
<1>1. \A q \in Runners : RunInv(job'[q], q \in latest')
  BY DEF MapInv, RunInv
<1>2. \A q \in Runners : RunInv(job[q], q \in latest)'
  BY <1>1 DEF RunInv
<1> QED BY <1>2 DEF MapInv

\* The part of the invariant that a step of a run can disturb.
ClusterInv ==
  /\ mappings \in Seq(RoleMapping) /\ Distinct(mappings)
  /\ latest \in SUBSET Runners
  /\ DOMAIN job = Runners
  /\ \A q \in Runners : RunInv(job[q], q \in latest)

LEMMA GoodComposes ==
  ASSUME NEW s, NEW t, NEW u, KeepsForeign(s, t), Good(t, u)
  PROVE  KeepsForeign(s, u)
<1> SUFFICES ASSUME NEW i \in DOMAIN s, ~s[i].managed
             PROVE  \E m \in DOMAIN u : u[m].arn = s[i].arn /\ ~u[m].managed
  BY DEF KeepsForeign
<1>1. PICK k \in DOMAIN t : t[k].arn = s[i].arn /\ ~t[k].managed
  BY DEF KeepsForeign
<1>2. PICK m \in DOMAIN u : u[m].arn = t[k].arn /\ ~u[m].managed
  BY <1>1 DEF Good, KeepsForeign
<1> QED BY <1>1, <1>2

\* A run goes back to its idle state.
LEMMA ReturnInv ==
  ASSUME MapInv, NEW r \in Runners, Return(r),
         mappings' = mappings /\ latest' = latest
  PROVE  ClusterInv'
<1>1. RunInv(Idle, r \in latest')
  BY DEF RunInv, RunOK, Idle, Distinct
<1>2. job'[r] = Idle /\ DOMAIN job' = Runners /\ \A q \in Runners \ {r} : job'[q] = job[q]
  BY DEF Return, MapInv
<1>3. latest' \in SUBSET Runners
  BY DEF MapInv
<1> QED BY <1>1, <1>2, <1>3, LocalStep DEF ClusterInv

\* A new list in the cluster is one that no run has loaded.
LEMMA WrittenInv ==
  ASSUME MapInv, NEW s \in Seq(RoleMapping), Distinct(s), Written(s),
         DOMAIN job' = Runners,
         \A q \in Runners : job'[q] \in {job[q], Idle}
  PROVE  ClusterInv'
<1>1. \A q \in Runners : RunOK(job'[q]) /\ Distinct(job'[q].maps)
  <2>1. RunOK(Idle) /\ Distinct(Idle.maps)
    BY DEF RunOK, Idle, Distinct
  <2> QED BY <2>1 DEF MapInv, RunInv
<1>2. latest' \in SUBSET Runners /\ mappings' = s
  BY DEF MapInv, Written
<1>3. \A q \in Runners : /\ q \in latest'
                         /\ job'[q].phase \in {"prune", "map", "save"}
                         => KeepsForeign(mappings', job'[q].maps)
  <2>1. CASE s = mappings
    BY <1>2, <2>1 DEF MapInv, RunInv, Written, Idle
  <2>2. CASE s # mappings
    BY <2>2 DEF Written
  <2> QED BY <2>1, <2>2
<1>4. \A q \in Runners : RunInv(job[q], q \in latest)'
  BY <1>1, <1>3 DEF RunInv
<1> QED BY <1>2, <1>4 DEF ClusterInv

\* An iteration of one of the two loops changes the list for a good one.
LEMMA NewMapsInv ==
  ASSUME MapInv, NEW r \in Runners, NEW t, Good(job[r].maps, t),
         job[r].phase \in {"prune", "map", "save"},
         RunOK(job'[r]), job'[r].maps = t,
         DOMAIN job' = Runners, \A q \in Runners \ {r} : job'[q] = job[q],
         mappings' = mappings /\ latest' = latest
  PROVE  ClusterInv'
<1>1. RunInv(job'[r], r \in latest')
  BY GoodComposes DEF MapInv, RunInv, Good
<1>2. latest' \in SUBSET Runners
  BY DEF MapInv
<1> QED BY <1>1, <1>2, LocalStep DEF ClusterInv

LEMMA StepInv ==
  ASSUME MapInv, NEW r \in Runners, Step(r)
  PROVE  ClusterInv'
<1>0. /\ RunOK(job[r]) /\ Distinct(job[r].maps) /\ job[r].maps \in Seq(RoleMapping)
      /\ DOMAIN job = Runners
      /\ latest \in SUBSET Runners
      /\ mappings \in Seq(RoleMapping) /\ Distinct(mappings)
  BY DEF MapInv, RunInv, RunOK
<1>1. CASE ListAccounts(r)
  <2>1. RunInv(job'[r], r \in latest')
    BY <1>0, <1>1 DEF ListAccounts, RunInv, RunOK, Idle
  <2> QED BY <1>0, <1>1, <2>1, LocalStep DEF ListAccounts, ClusterInv
<1>2. ASSUME NEW a \in job[r].ask, AskAccount(r, a) PROVE ClusterInv'
  <2>1. {arn \in Existing : arn[1] = a} \subseteq AccountArns
    BY DEF Existing
  <2>2. CASE job' = [job EXCEPT ![r].ask = @ \ {a},
                                ![r].found = @ \cup {arn \in Existing : arn[1] = a}]
    <3>1. RunInv(job'[r], r \in latest')
      BY <1>0, <1>2, <2>1, <2>2 DEF AskAccount, RunInv, RunOK, Idle
    <3> QED BY <1>0, <1>2, <2>2, <3>1, LocalStep DEF AskAccount, ClusterInv
  <2>3. CASE job' = [job EXCEPT ![r].ask = @ \ {a}]
    <3>1. RunInv(job'[r], r \in latest')
      BY <1>0, <1>2, <2>3 DEF AskAccount, RunInv, RunOK, Idle
    <3> QED BY <1>0, <1>2, <2>3, <3>1, LocalStep DEF AskAccount, ClusterInv
  <2> QED BY <1>2, <2>2, <2>3 DEF AskAccount
<1>3. CASE Load(r)
  <2>1. RunOK(job'[r])
    BY <1>0, <1>3 DEF Load, RunOK, Idle
  <2>2. job'[r].maps = mappings /\ mappings' = mappings
    BY <1>0, <1>3 DEF Load, RunOK, Idle
  <2>3. KeepsForeign(mappings', job'[r].maps)
    BY <1>0, <2>2, SameGood DEF Good
  <2>4. RunInv(job'[r], r \in latest')
    BY <1>0, <2>1, <2>2, <2>3 DEF RunInv, KeepsForeign
  <2> QED BY <1>0, <1>3, <2>4, LocalStep DEF Load, ClusterInv
<1>4. CASE PruneEntry(r)
  <2> DEFINE maps == job[r].maps
             x == job[r].x
             t == IF Gone(maps[x], job[r].found) THEN RemoveItem(maps, x) ELSE maps
  <2>1. x \in 1..Len(maps)
    BY <1>0, <1>4 DEF PruneEntry, RunOK
  <2>2. Good(maps, t)
    BY <1>0, <2>1, RemoveItemGood, SameGood DEF Gone
  <2>3. job' = [job EXCEPT ![r].maps = t, ![r].x = x + 1]
    BY <1>4 DEF PruneEntry
  <2> HIDE DEF t
  <2>4. RunOK(job'[r]) /\ job'[r].maps = t
    BY <1>0, <2>1, <2>2, <2>3 DEF RunOK, Idle, Good
  <2> QED BY <1>0, <1>4, <2>2, <2>3, <2>4, NewMapsInv DEF PruneEntry
<1>5. CASE PruneEnds(r)
  <2>1. RunOK(job'[r]) /\ job'[r].maps = job[r].maps
    BY <1>0, <1>5 DEF PruneEnds, RunOK, Idle
  <2> QED BY <1>0, <1>5, <2>1, SameGood, NewMapsInv DEF PruneEnds
<1>6. ASSUME NEW arn \in job[r].todo, MapRole(r, arn) PROVE ClusterInv'
  <2> DEFINE maps == job[r].maps
             i == MappingByArn(maps, arn)
             new == [arn |-> arn, managed |-> TRUE, right |-> TRUE]
             t == IF i = 0 THEN Append(maps, new) ELSE [maps EXCEPT ![i].right = TRUE]
  <2>1. new \in RoleMapping
    BY <1>0 DEF RunOK, RoleMapping, Arns
  <2>2. ASSUME i = 0 PROVE Good(maps, t)
    <3>1. \A k \in DOMAIN maps : maps[k].arn # new.arn
      BY <1>0, <2>2, MappingByArnFinds
    <3>2. Good(maps, Append(maps, new))
      BY <1>0, <2>1, <3>1, AppendGood
    <3> QED BY <2>2, <3>2
  <2>3. ASSUME i # 0 PROVE Good(maps, t)
    <3>1. i \in DOMAIN maps
      BY <1>0, <2>3, MappingByArnFinds
    <3>2. Good(maps, [maps EXCEPT ![i].right = TRUE])
      BY <1>0, <3>1, RightGood
    <3> QED BY <2>3, <3>2
  <2>4. Good(maps, t)
    BY <2>2, <2>3
  <2>5. job' = [job EXCEPT ![r].todo = @ \ {arn}, ![r].maps = t]
    BY <1>6 DEF MapRole
  <2> HIDE DEF t
  <2>6. RunOK(job'[r]) /\ job'[r].maps = t
    BY <1>0, <2>4, <2>5 DEF RunOK, Idle, Good
  <2> QED BY <1>0, <1>6, <2>4, <2>5, <2>6, NewMapsInv DEF MapRole
<1>7. CASE MapEnds(r)
  <2>1. RunOK(job'[r]) /\ job'[r].maps = job[r].maps
    BY <1>0, <1>7 DEF MapEnds, RunOK, Idle
  <2> QED BY <1>0, <1>7, <2>1, SameGood, NewMapsInv DEF MapEnds
<1>8. CASE Save(r)
  <2>1. CASE Written(job[r].maps)
    <3>1. DOMAIN job' = Runners /\ \A q \in Runners : job'[q] \in {job[q], Idle}
      BY <1>0, <1>8 DEF Save, Return
    <3> QED BY <1>0, <2>1, <3>1, WrittenInv
  <2>2. CASE UNCHANGED <<mappings, latest>>
    BY <1>8, <2>2, ReturnInv DEF Save
  <2> QED BY <1>8, <2>1, <2>2 DEF Save
<1> QED
  BY <1>1, <1>2, <1>3, <1>4, <1>5, <1>6, <1>7, <1>8 DEF Step

\* The rest of the state is read by nobody's invariant but its own type.
LEMMA WorldInv ==
  ASSUME MapInv, [Next]_vars
  PROVE  /\ roles' \in [Accounts -> RoleNames \cup {NoRole}]
         /\ faults' \in 0..MaxFaults
         /\ churn' \in 0..MaxChurn
<1> USE BoundsAssumption DEF MapInv, Fault, world
<1>1. ASSUME NEW r \in Runners, Step(r) \/ Killed(r)
      PROVE  UNCHANGED world /\ faults' \in 0..MaxFaults
  <2>1. CASE ListAccounts(r) \/ Load(r) \/ PruneEntry(r) \/ PruneEnds(r) \/ MapEnds(r)
    BY <2>1 DEF ListAccounts, Load, PruneEntry, PruneEnds, MapEnds
  <2>2. ASSUME NEW a, AskAccount(r, a) PROVE UNCHANGED world /\ faults' \in 0..MaxFaults
    BY <2>2 DEF AskAccount
  <2>3. ASSUME NEW arn, MapRole(r, arn) PROVE UNCHANGED world /\ faults' \in 0..MaxFaults
    BY <2>3 DEF MapRole
  <2>4. CASE Save(r) \/ Killed(r)
    BY <2>4 DEF Save, Killed
  <2> QED BY <1>1, <2>1, <2>2, <2>3, <2>4 DEF Step
<1>2. CASE RoleChange
  BY <1>2 DEF RoleChange, Churn
<1>3. CASE ForeignEdit
  BY <1>3 DEF ForeignEdit, Churn
<1>4. CASE UNCHANGED vars
  BY <1>4 DEF vars
<1> QED BY <1>1, <1>2, <1>3, <1>4 DEF Next

LEMMA ForeignEditInv == MapInv /\ ForeignEdit => ClusterInv'
<1> SUFFICES ASSUME MapInv, ForeignEdit PROVE ClusterInv'
  OBVIOUS
<1>1. PICK arn \in Arns :
        /\ \A i \in DOMAIN mappings : mappings[i].arn # arn
        /\ Written(Append(mappings, [arn |-> arn, managed |-> FALSE, right |-> FALSE]))
  BY DEF ForeignEdit
<1> DEFINE new == [arn |-> arn, managed |-> FALSE, right |-> FALSE]
<1>2. new \in RoleMapping /\ new.arn = arn
  BY DEF RoleMapping
<1>3. Good(mappings, Append(mappings, new))
  BY <1>1, <1>2, AppendGood DEF MapInv
<1>4. DOMAIN job' = Runners /\ \A q \in Runners : job'[q] \in {job[q], Idle}
  BY DEF ForeignEdit, MapInv
<1> QED BY <1>1, <1>3, <1>4, WrittenInv DEF Good

LEMMA NextInv == MapInv /\ [Next]_vars => MapInv'
<1> SUFFICES ASSUME MapInv, [Next]_vars PROVE MapInv'
  OBVIOUS
<1>1. ASSUME NEW r \in Runners, Killed(r) PROVE ClusterInv'
  BY <1>1, ReturnInv DEF Killed
<1>2. ASSUME UNCHANGED <<mappings, latest, job>> PROVE ClusterInv'
  <2>1. mappings' = mappings /\ latest' = latest /\ job' = job
    BY <1>2
  <2>2. ClusterInv
    BY DEF MapInv, ClusterInv
  <2> QED BY <2>1, <2>2 DEF ClusterInv, RunInv
<1>3. ASSUME RoleChange \/ UNCHANGED vars PROVE ClusterInv'
  BY <1>2, <1>3 DEF RoleChange, vars
<1>4. ClusterInv'
  BY <1>1, <1>3, StepInv, ForeignEditInv DEF Next
<1> QED BY <1>4, WorldInv DEF MapInv, ClusterInv

THEOREM MapInvAlways == Spec => []MapInv
  BY InitInv, NextInv, PTL DEF Spec

\* The variables have their types.
THEOREM TypeCorrect == Spec => []TypeOK
<1>1. MapInv => TypeOK
  BY DEF MapInv, TypeOK, RunInv
<1> QED BY MapInvAlways, <1>1, PTL

\* No role is mapped twice, however many runs and other hands edit the ConfigMap.
THEOREM MappedOnceAlways == Spec => []MappedOnce
<1>1. MapInv => MappedOnce
  BY DEF MapInv, MappedOnce, Distinct
<1> QED BY MapInvAlways, <1>1, PTL

\* What a step of a run writes has all foreign mappings of the cluster.
LEMMA StepKeepsForeign ==
  ASSUME MapInv, NEW r \in Runners, Step(r) \/ Killed(r)
  PROVE  KeepsForeign(mappings, mappings')
<1>1. KeepsForeign(mappings, mappings)
  BY DEF KeepsForeign
<1>2. CASE Save(r) /\ r \in latest /\ Written(job[r].maps)
  BY <1>2 DEF MapInv, RunInv, Save, Written
<1>3. CASE mappings' = mappings
  BY <1>1, <1>3
<1> QED
  BY <1>2, <1>3
  DEF Step, ListAccounts, AskAccount, Load, PruneEntry, PruneEnds, MapRole,
      MapEnds, Save, Killed

\* No run takes away a mapping that is not managed by this job.
THEOREM ForeignKeptAlways == Spec => ForeignKept
<1>1. ASSUME MapInv, [Next]_vars
      PROVE  [\A r \in Runners : job'[r] # job[r] =>
                \A i \in DOMAIN mappings : ~mappings[i].managed =>
                  \E k \in DOMAIN mappings' : /\ mappings'[k].arn = mappings[i].arn
                                              /\ ~mappings'[k].managed]_vars
  <2>1. ASSUME NEW r \in Runners, Step(r) \/ Killed(r)
        PROVE  KeepsForeign(mappings, mappings')
    BY <1>1, <2>1, StepKeepsForeign
  <2>2. CASE RoleChange \/ ForeignEdit
    BY <2>2 DEF RoleChange, ForeignEdit
  <2>3. CASE UNCHANGED vars
    BY <2>3
  <2> QED BY <1>1, <2>1, <2>2, <2>3 DEF Next, KeepsForeign
<1> QED BY MapInvAlways, <1>1, PTL DEF Spec, ForeignKept

-----------------------------------------------------------------------------
(* Mappings of roles that exist are kept *)

\* The mappings of the roles in K that are in s are in t.
KeepsArns(s, t, K) ==
  \A i \in DOMAIN s : s[i].arn \in K => \E k \in DOMAIN t : t[k].arn = s[i].arn

LEMMA KeepsArnsComposes ==
  ASSUME NEW s, NEW t, NEW u, NEW K, KeepsArns(s, t, K), KeepsArns(t, u, K)
  PROVE  KeepsArns(s, u, K)
<1> SUFFICES ASSUME NEW i \in DOMAIN s, s[i].arn \in K
             PROVE  \E m \in DOMAIN u : u[m].arn = s[i].arn
  BY DEF KeepsArns
<1>1. PICK k \in DOMAIN t : t[k].arn = s[i].arn
  BY DEF KeepsArns
<1>2. PICK m \in DOMAIN u : u[m].arn = t[k].arn
  BY <1>1 DEF KeepsArns
<1> QED BY <1>1, <1>2

\* The one item that removeArrayItem drops is the one it is told to.
LEMMA RemoveItemKeeps ==
  ASSUME NEW s \in Seq(RoleMapping), NEW i \in 1..Len(s), NEW K, s[i].arn \notin K
  PROVE  KeepsArns(s, RemoveItem(s, i), K)
<1> DEFINE t == RemoveItem(s, i)
           n == Len(s)
<1>1. n \in Nat /\ DOMAIN s = 1..n /\ i \in 1..n
  OBVIOUS
<1>2. DOMAIN t = 1..(n - 1) /\ \A k \in 1..(n - 1) : t[k] = IF k = i THEN s[n] ELSE s[k]
  BY DEF RemoveItem
<1> HIDE DEF t, n
<1> SUFFICES ASSUME NEW k \in 1..n, s[k].arn \in K
             PROVE  \E m \in 1..(n - 1) : t[m].arn = s[k].arn
  BY <1>1, <1>2 DEF KeepsArns, t
<1>3. k # i
  OBVIOUS
<1>4. CASE k = n
  <2>1. i \in 1..(n - 1) /\ t[i] = s[k]
    BY <1>1, <1>2, <1>3, <1>4
  <2> QED BY <2>1
<1>5. CASE k # n
  <2>1. k \in 1..(n - 1) /\ t[k] = s[k]
    BY <1>1, <1>2, <1>3, <1>5
  <2> QED BY <2>1
<1> QED BY <1>4, <1>5

\* The second loop drops nothing.
LEMMA MapRoleKeeps ==
  ASSUME NEW s \in Seq(RoleMapping), NEW m \in RoleMapping, NEW i, NEW K
  PROVE  /\ KeepsArns(s, Append(s, m), K)
         /\ KeepsArns(s, [s EXCEPT ![i].right = TRUE], K)
<1>1. KeepsArns(s, Append(s, m), K)
  <2>1. \A k \in 1..Len(s) : k \in DOMAIN Append(s, m) /\ Append(s, m)[k] = s[k]
    OBVIOUS
  <2> QED BY <2>1 DEF KeepsArns
<1>2. KeepsArns(s, [s EXCEPT ![i].right = TRUE], K)
  <2>1. s \in [1..Len(s) -> RoleMapping]
    OBVIOUS
  <2>2. \A k \in DOMAIN s : [s EXCEPT ![i].right = TRUE][k].arn = s[k].arn
    BY <2>1 DEF RoleMapping
  <2> QED BY <2>2 DEF KeepsArns
<1> QED BY <1>1, <1>2

(* As long as no account has been skipped and no role has changed, a run    *)
(* knows the roles of the accounts it has heard from, all of them once the  *)
(* goroutines have been waited for, and if it holds the latest              *)
(* resourceVersion, it holds the mappings of all roles that exist.          *)
Heard(run, fresh) ==
  /\ run.phase = "roles" => \A arn \in Existing : arn[1] \in run.ask \/ arn \in run.found
  /\ run.phase \in {"prune", "map", "save"} =>
       /\ Existing \subseteq run.found
       /\ fresh => KeepsArns(mappings, run.maps, Existing)

HeardInv ==
  MapInv /\ (faults = 0 /\ churn = 0 => \A r \in Runners : Heard(job[r], r \in latest))

\* One run takes a step that leaves the cluster alone.
LEMMA HeardLocal ==
  ASSUME \A q \in Runners : Heard(job[q], q \in latest), UNCHANGED <<roles, mappings>>,
         NEW r \in Runners, \A q \in Runners \ {r} : job'[q] = job[q],
         \A q \in Runners \ {r} : q \in latest' => q \in latest,
         Heard(job'[r], r \in latest')
  PROVE  \A q \in Runners : Heard(job[q], q \in latest)'
<1>1. Existing' = Existing
  BY DEF Existing
<1>2. \A q \in Runners : Heard(job'[q], q \in latest')
  BY DEF Heard
<1> QED BY <1>1, <1>2 DEF Heard

LEMMA HeardReturn ==
  ASSUME DOMAIN job = Runners, \A q \in Runners : Heard(job[q], q \in latest),
         NEW r \in Runners, Return(r), UNCHANGED <<roles, mappings, latest>>
  PROVE  \A q \in Runners : Heard(job[q], q \in latest)'
<1>1. job'[r].phase = "idle" /\ \A q \in Runners \ {r} : job'[q] = job[q]
  BY DEF Return, Idle
<1>2. Heard(job'[r], r \in latest')
  BY <1>1 DEF Heard
<1> QED BY <1>1, <1>2, HeardLocal

\* An iteration of one of the two loops.
LEMMA HeardMaps ==
  ASSUME DOMAIN job = Runners, \A q \in Runners : Heard(job[q], q \in latest),
         UNCHANGED <<roles, mappings, latest>>,
         NEW r \in Runners, \A q \in Runners \ {r} : job'[q] = job[q],
         job[r].phase \in {"prune", "map", "save"},
         job'[r].phase \in {"prune", "map", "save"},
         job'[r].found = job[r].found,
         KeepsArns(job[r].maps, job'[r].maps, Existing)
  PROVE  \A q \in Runners : Heard(job[q], q \in latest)'
<1>1. Heard(job[r], r \in latest)
  OBVIOUS
<1>2. r \in latest => KeepsArns(mappings, job'[r].maps, Existing)
  BY <1>1, KeepsArnsComposes DEF Heard
<1>3. Heard(job'[r], r \in latest')
  BY <1>1, <1>2 DEF Heard
<1> QED BY <1>3, HeardLocal

LEMMA HeardStep ==
  ASSUME MapInv, \A q \in Runners : Heard(job[q], q \in latest),
         NEW r \in Runners, Step(r) \/ Killed(r), UNCHANGED faults
  PROVE  \A q \in Runners : Heard(job[q], q \in latest)'
<1>a. RunOK(job[r]) /\ Distinct(job[r].maps) /\ DOMAIN job = Runners
  BY DEF MapInv, RunInv
<1>b. faults \in Nat
  BY BoundsAssumption DEF MapInv
<1>c. job[r].maps \in Seq(RoleMapping)
  BY <1>a DEF RunOK
<1>d. Heard(job[r], r \in latest)
  OBVIOUS
<1>0. /\ RunOK(job[r]) /\ Distinct(job[r].maps) /\ job[r].maps \in Seq(RoleMapping)
      /\ DOMAIN job = Runners
      /\ Heard(job[r], r \in latest)
      /\ faults \in Nat
  BY <1>a, <1>b, <1>c, <1>d
<1>f. ~Fault
  BY <1>b DEF Fault
<1>1. CASE ListAccounts(r)
  <2>1. job'[r].phase = "roles" /\ job'[r].ask = Accounts
    BY <1>0, <1>1 DEF ListAccounts, RunOK, Idle
  <2>2. Heard(job'[r], r \in latest')
    BY <2>1 DEF Heard, Existing, AccountArns
  <2> QED BY <1>0, <1>1, <2>2, HeardLocal DEF ListAccounts, world
<1>2. ASSUME NEW a \in job[r].ask, AskAccount(r, a)
      PROVE  \A q \in Runners : Heard(job[q], q \in latest)'
  <2>1. job' = [job EXCEPT ![r].ask = @ \ {a},
                           ![r].found = @ \cup {arn \in Existing : arn[1] = a}]
    BY <1>2, <1>f DEF AskAccount
  <2>2. /\ job'[r].phase = "roles"
        /\ job'[r].ask = job[r].ask \ {a}
        /\ job'[r].found = job[r].found \cup {arn \in Existing : arn[1] = a}
    BY <1>0, <1>2, <2>1 DEF AskAccount, RunOK, Idle
  <2>3. Heard(job'[r], r \in latest')
    BY <1>0, <1>2, <2>2 DEF AskAccount, Heard
  <2> QED BY <1>0, <1>2, <2>1, <2>3, HeardLocal DEF AskAccount, world
<1>3. CASE Load(r)
  <2>1. /\ job'[r].phase = "prune" /\ job'[r].maps = mappings
        /\ job'[r].found = job[r].found
    BY <1>0, <1>3 DEF Load, RunOK, Idle
  <2>2. Heard(job'[r], r \in latest')
    BY <1>0, <1>3, <2>1 DEF Load, Heard, KeepsArns
  <2> QED BY <1>0, <1>3, <2>2, HeardLocal DEF Load, world
<1>4. CASE PruneEntry(r)
  <2> DEFINE maps == job[r].maps
             x == job[r].x
             t == IF Gone(maps[x], job[r].found) THEN RemoveItem(maps, x) ELSE maps
  <2>1. x \in 1..Len(maps) /\ Existing \subseteq job[r].found
    BY <1>0, <1>4 DEF PruneEntry, RunOK, Heard
  <2>2. KeepsArns(maps, t, Existing)
    <3>1. KeepsArns(maps, maps, Existing)
      BY DEF KeepsArns
    <3>2. Gone(maps[x], job[r].found) => KeepsArns(maps, RemoveItem(maps, x), Existing)
      BY <1>0, <2>1, RemoveItemKeeps DEF Gone
    <3> QED BY <3>1, <3>2
  <2>3. job' = [job EXCEPT ![r].maps = t, ![r].x = x + 1]
    BY <1>4 DEF PruneEntry
  <2> HIDE DEF t
  <2>4. /\ job'[r].phase = "prune" /\ job'[r].maps = t
        /\ job'[r].found = job[r].found
    BY <1>0, <1>4, <2>3 DEF PruneEntry, RunOK, Idle
  <2> QED BY <1>0, <1>4, <2>2, <2>3, <2>4, HeardMaps DEF PruneEntry, world
<1>5. CASE PruneEnds(r)
  <2>1. /\ job'[r].phase = "map" /\ job'[r].maps = job[r].maps
        /\ job'[r].found = job[r].found
    BY <1>0, <1>5 DEF PruneEnds, RunOK, Idle
  <2>2. KeepsArns(job[r].maps, job'[r].maps, Existing)
    BY <2>1 DEF KeepsArns
  <2> QED BY <1>0, <1>5, <2>1, <2>2, HeardMaps DEF PruneEnds, world
<1>6. ASSUME NEW arn \in job[r].todo, MapRole(r, arn)
      PROVE  \A q \in Runners : Heard(job[q], q \in latest)'
  <2> DEFINE maps == job[r].maps
             i == MappingByArn(maps, arn)
             new == [arn |-> arn, managed |-> TRUE, right |-> TRUE]
             t == IF i = 0 THEN Append(maps, new) ELSE [maps EXCEPT ![i].right = TRUE]
  <2>1. new \in RoleMapping
    BY <1>0 DEF RunOK, RoleMapping, Arns
  <2>2. KeepsArns(maps, t, Existing)
    BY <1>0, <2>1, MapRoleKeeps
  <2>3. job' = [job EXCEPT ![r].todo = @ \ {arn}, ![r].maps = t]
    BY <1>6 DEF MapRole
  <2> HIDE DEF t
  <2>4. /\ job'[r].phase = "map" /\ job'[r].maps = t
        /\ job'[r].found = job[r].found
    BY <1>0, <1>6, <2>3 DEF MapRole, RunOK, Idle
  <2>5. job[r].phase = "map" /\ UNCHANGED <<roles, mappings, latest>>
    BY <1>6 DEF MapRole, world
  <2>6. \A q \in Runners \ {r} : job'[q] = job[q]
    BY <1>a, <2>3
  <2>7. KeepsArns(job[r].maps, job'[r].maps, Existing)
    BY <2>2, <2>4
  <2> QED BY <1>0, <2>4, <2>5, <2>6, <2>7, HeardMaps
<1>7. CASE MapEnds(r)
  <2>1. /\ job'[r].phase = "save" /\ job'[r].maps = job[r].maps
        /\ job'[r].found = job[r].found
    BY <1>0, <1>7 DEF MapEnds, RunOK, Idle
  <2>2. KeepsArns(job[r].maps, job'[r].maps, Existing)
    BY <2>1 DEF KeepsArns
  <2> QED BY <1>0, <1>7, <2>1, <2>2, HeardMaps DEF MapEnds, world
<1>8. CASE Save(r)
  <2>1. CASE UNCHANGED <<mappings, latest>>
    BY <1>0, <1>8, <2>1, HeardReturn DEF Save, world
  <2>2. CASE latest' = {}
    <3>1. Existing' = Existing
      BY <1>8 DEF Save, world, Existing
    <3>2. job'[r].phase = "idle" /\ \A q \in Runners \ {r} : job'[q] = job[q]
      BY <1>0, <1>8 DEF Save, Return, Idle
    <3> QED BY <2>2, <3>1, <3>2 DEF Heard
  <2> QED BY <1>8, <2>1, <2>2 DEF Save, Written
<1>9. CASE Killed(r)
  BY <1>9, <1>f DEF Killed
<1> QED
  BY <1>1, <1>2, <1>3, <1>4, <1>5, <1>6, <1>7, <1>8, <1>9 DEF Step

\* A step of a run changes no role, and what fails is counted.
LEMMA Counted ==
  ASSUME MapInv, NEW r \in Runners, Step(r) \/ Killed(r)
  PROVE  UNCHANGED world /\ (faults' = 0 => UNCHANGED faults)
<1>1. faults \in Nat
  BY BoundsAssumption DEF MapInv
<1>2. UNCHANGED world /\ (UNCHANGED faults \/ Fault)
  BY DEF Step, ListAccounts, AskAccount, Load, PruneEntry, PruneEnds, MapRole,
         MapEnds, Save, Killed
<1> QED BY <1>1, <1>2 DEF Fault

LEMMA HeardNext == HeardInv /\ [Next]_vars => HeardInv'
<1> SUFFICES ASSUME HeardInv, [Next]_vars, faults' = 0, churn' = 0
             PROVE  \A q \in Runners : Heard(job[q], q \in latest)'
  BY NextInv DEF HeardInv
<1>1. ASSUME NEW r \in Runners, Step(r) \/ Killed(r)
      PROVE  \A q \in Runners : Heard(job[q], q \in latest)'
  BY <1>1, Counted, HeardStep DEF HeardInv, world
<1>2. CASE RoleChange \/ ForeignEdit
  BY <1>2, BoundsAssumption DEF RoleChange, ForeignEdit, Churn, HeardInv, MapInv
<1>3. CASE UNCHANGED vars
  BY <1>3 DEF vars, HeardInv, Heard, Existing
<1> QED BY <1>1, <1>2, <1>3 DEF Next

LEMMA HeardInit == Init => HeardInv
<1>1. Init => \A r \in Runners : Heard(job[r], r \in latest)
  BY DEF Init, Idle, Heard
<1> QED BY <1>1, InitInv DEF HeardInv

\* What a step of a run writes has the mappings of all roles that exist.
LEMMA StepKeepsArns ==
  ASSUME HeardInv, faults = 0, churn = 0, NEW r \in Runners, Step(r) \/ Killed(r)
  PROVE  KeepsArns(mappings, mappings', Existing)
<1>1. KeepsArns(mappings, mappings, Existing)
  BY DEF KeepsArns
<1>2. CASE Save(r) /\ r \in latest /\ Written(job[r].maps)
  BY <1>2 DEF HeardInv, Heard, Save, Written
<1>3. CASE mappings' = mappings
  BY <1>1, <1>3
<1> QED
  BY <1>2, <1>3
  DEF Step, ListAccounts, AskAccount, Load, PruneEntry, PruneEnds, MapRole,
      MapEnds, Save, Killed

\* As long as no account has been skipped and no role has changed, no run takes
\* away the mapping of a role that exists, although the first loop moves entries
\* about while it goes through them.
THEOREM KeepsExistingAlways == Spec => KeepsExisting
<1> DEFINE Keeps == \A r \in Runners : job'[r] # job[r] /\ faults = 0 /\ churn = 0 =>
                      \A i \in DOMAIN mappings : mappings[i].arn \in Existing =>
                        MappingByArn(mappings', mappings[i].arn) # 0
<1>1. ASSUME HeardInv, [Next]_vars PROVE [Keeps]_vars
  <2>1. ASSUME NEW r \in Runners, Step(r) \/ Killed(r) PROVE Keeps
    <3> SUFFICES ASSUME faults = 0, churn = 0, NEW i \in DOMAIN mappings,
                        mappings[i].arn \in Existing
                 PROVE  MappingByArn(mappings', mappings[i].arn) # 0
      OBVIOUS
    <3>1. \E k \in DOMAIN mappings' : mappings'[k].arn = mappings[i].arn
      BY <1>1, <2>1, StepKeepsArns DEF KeepsArns
    <3>2. mappings' \in Seq(RoleMapping) /\ Distinct(mappings')
      BY <1>1, NextInv DEF HeardInv, MapInv, Distinct
    <3> QED BY <3>1, <3>2, MappingByArnFinds
  <2>2. CASE RoleChange \/ ForeignEdit
    BY <2>2 DEF RoleChange, ForeignEdit
  <2>3. CASE UNCHANGED vars
    BY <2>3
  <2> QED BY <1>1, <2>1, <2>2, <2>3 DEF Next
<1> QED BY HeardInit, HeardNext, <1>1, PTL DEF Spec, KeepsExisting
=============================================================================
