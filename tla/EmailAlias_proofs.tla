-------------------------- MODULE EmailAlias_proofs --------------------------
(***************************************************************************)
(* Theorems about EmailAlias, for any number of runs, capabilities and     *)
(* aliases, and any number of failures and changes by others.              *)
(***************************************************************************)
EXTENDS EmailAlias, TLAPS

-----------------------------------------------------------------------------
(* The inductive invariant *)

\* The main aliases that have CcEmail, or had it until an administrator took it out.
\* None ever leaves this set.
Served == {c \in DOMAIN mail : Cc \in mail[c]} \cup ccTaken

(* What a run relies on when the main aliases of the capabilities in made   *)
(* exist, those in copied are in Azure AD and those in served have or had   *)
(* CcEmail: an alias it has seen, or has got past, is there; it takes       *)
(* nobody for a member of an alias too early; and when it has begun to take *)
(* members out, CcEmail is in.                                              *)
Fits(run, made, copied, served) ==
  /\ run.fetch \subseteq copied
  /\ \A c \in DOMAIN run.groups : Cc \in run.groups[c] => c \in served
  /\ \A c \in Capabilities : <<c, "root">> \in run.listed => c \in made
  /\ run.phase \in {"main", "members"} =>
       /\ run.todo \subseteq (DOMAIN run.known) \X {"root"}
       /\ \A c \in DOMAIN run.known : <<c, "root">> \in run.todo \/ c \in made
  /\ run.phase = "sub" =>
       /\ run.todo \subseteq (DOMAIN run.known) \X SubAliases
       /\ DOMAIN run.known \subseteq made
  /\ run.phase = "members" =>
       /\ run.cap \in DOMAIN run.known
       /\ Cc \notin run.removes
       /\ Cc \in run.adds \/ run.cap \in served

RunsFit ==
  /\ DOMAIN job = Runners
  /\ \A r \in Runners : RunOK(job[r]) /\ Fits(job[r], DOMAIN mail, DOMAIN azure, Served)

WorldOK ==
  /\ IsPartialFcn(capabilities, Capabilities, SUBSET Users)
  /\ users \in SUBSET Users
  /\ IsPartialFcn(azure, Capabilities, SUBSET Members) /\ DOMAIN azure \subseteq DOMAIN mail
  /\ \A c \in DOMAIN azure : Cc \in azure[c] => c \in Served
  /\ ccTaken \in SUBSET Capabilities
  /\ changes \in 0..MaxChanges
  /\ faults \in 0..MaxFaults

ExchangeOK ==
  /\ IsPartialFcn(mail, Capabilities, SUBSET Members)
  /\ subs \subseteq Sub
  /\ auth \subseteq AllListed
  /\ SubsHaveMain

AliasInv == WorldOK /\ ExchangeOK /\ RunsFit

-----------------------------------------------------------------------------
(* Lemmas *)

\* A partial function is typed by its own domain.
LEMMA PartialFcn ==
  ASSUME NEW f, NEW S, NEW T
  PROVE  IsPartialFcn(f, S, T) <=> DOMAIN f \subseteq S /\ f \in [DOMAIN f -> T]
BY DEF IsPartialFcn

\* A partial function stays one when a value is set.
LEMMA PartialSet ==
  ASSUME NEW f, NEW S, NEW T, IsPartialFcn(f, S, T), NEW c \in S, NEW x \in T,
         NEW g, g = [d \in DOMAIN f \cup {c} |-> IF d = c THEN x ELSE f[d]]
  PROVE  IsPartialFcn(g, S, T)
<1>1. DOMAIN f \subseteq S /\ f \in [DOMAIN f -> T]
  BY PartialFcn
<1>2. g \in [DOMAIN f \cup {c} -> T]
  BY <1>1
<1> QED
  BY <1>1, <1>2, PartialFcn

\* A run that has not begun relies on nothing.
LEMMA IdleFits ==
  ASSUME NEW made, NEW copied, NEW served
  PROVE  RunOK(Idle) /\ Fits(Idle, made, copied, served)
<1>1. EmptyFcn \in [{} -> SUBSET Users] /\ EmptyFcn \in [{} -> SUBSET Members]
  BY DEF EmptyFcn
<1>2. IsPartialFcn(Idle.known, Capabilities, SUBSET Users)
  BY <1>1 DEF IsPartialFcn, Idle
<1>3. IsPartialFcn(Idle.groups, Capabilities, SUBSET Members)
  BY <1>1 DEF IsPartialFcn, Idle
<1>4. RunOK(Idle)
  BY <1>2, <1>3 DEF RunOK, Idle
<1>5. Fits(Idle, made, copied, served)
  BY DEF Fits, Idle, EmptyFcn
<1> QED
  BY <1>4, <1>5

\* One run takes a step that keeps the aliases and copies that are there.
LEMMA OneRun ==
  ASSUME RunsFit, NEW r \in Runners, NEW run,
         RunOK(run), Fits(run, DOMAIN mail', DOMAIN azure', Served'),
         DOMAIN mail \subseteq DOMAIN mail', DOMAIN azure \subseteq DOMAIN azure',
         Served \subseteq Served', job' = [job EXCEPT ![r] = run]
  PROVE  RunsFit'
<1>1. DOMAIN job' = Runners
  BY DEF RunsFit
<1>2. job'[r] = run /\ \A q \in Runners \ {r} : job'[q] = job[q]
  BY DEF RunsFit
<1>3. ASSUME NEW q \in Runners \ {r}
      PROVE  Fits(job[q], DOMAIN mail', DOMAIN azure', Served') /\ RunOK(job[q])
  <2>1. Fits(job[q], DOMAIN mail, DOMAIN azure, Served) /\ RunOK(job[q])
    BY DEF RunsFit
  <2> QED
    BY <2>1 DEF Fits
<1>4. \A q \in Runners : RunOK(job'[q]) /\ Fits(job'[q], DOMAIN mail', DOMAIN azure', Served')
  BY <1>2, <1>3
<1> QED
  BY <1>1, <1>4 DEF RunsFit, RunOK, Fits

LEMMA OtherRuns ==
  ASSUME RunsFit, UNCHANGED job,
         DOMAIN mail \subseteq DOMAIN mail', DOMAIN azure \subseteq DOMAIN azure',
         Served \subseteq Served'
  PROVE  RunsFit'
<1>1. ASSUME NEW q \in Runners
      PROVE  Fits(job[q], DOMAIN mail', DOMAIN azure', Served') /\ RunOK(job[q])
  <2>1. Fits(job[q], DOMAIN mail, DOMAIN azure, Served) /\ RunOK(job[q])
    BY DEF RunsFit
  <2> QED
    BY <2>1 DEF Fits
<1>2. \A q \in Runners : RunOK(job'[q]) /\ Fits(job'[q], DOMAIN mail', DOMAIN azure', Served')
  BY <1>1
<1>3. DOMAIN job' = Runners
  BY DEF RunsFit
<1> QED
  BY <1>2, <1>3 DEF RunsFit, RunOK, Fits

LEMMA Returns ==
  ASSUME RunsFit, NEW r \in Runners, Return(r),
         DOMAIN mail \subseteq DOMAIN mail', DOMAIN azure \subseteq DOMAIN azure',
         Served \subseteq Served'
  PROVE  RunsFit'
BY IdleFits, OneRun DEF Return

\* What a step of a run leaves of the world.
LEMMA WorldStays ==
  ASSUME WorldOK, UNCHANGED world, UNCHANGED faults \/ Fault,
         DOMAIN mail \subseteq DOMAIN mail', Served \subseteq Served'
  PROVE  WorldOK'
<1>1. faults' \in 0..MaxFaults
  BY AliasAssumption DEF WorldOK, Fault
<1> QED
  BY <1>1 DEF WorldOK, world

LEMMA ExchangeStays == ExchangeOK /\ UNCHANGED exchange => ExchangeOK'
BY DEF ExchangeOK, exchange, AllListed, SubsHaveMain

LEMMA ServedStays == UNCHANGED mail /\ UNCHANGED world => UNCHANGED Served
BY DEF Served, world

\* A step that makes no write.
LEMMA QuietStep ==
  ASSUME AliasInv, UNCHANGED <<world, exchange>>, UNCHANGED faults \/ Fault,
         NEW r \in Runners, NEW run, job' = [job EXCEPT ![r] = run],
         RunOK(run), Fits(run, DOMAIN mail, DOMAIN azure, Served)
  PROVE  AliasInv'
BY ServedStays, WorldStays, ExchangeStays, OneRun DEF AliasInv, world, exchange

LEMMA QuietReturn ==
  ASSUME AliasInv, UNCHANGED <<world, exchange>>, UNCHANGED faults \/ Fault,
         NEW r \in Runners, Return(r)
  PROVE  AliasInv'
BY ServedStays, WorldStays, ExchangeStays, Returns DEF AliasInv, world, exchange

\* A write, whether its answer is an error or not.
LEMMA WriteStep ==
  ASSUME AliasInv, ExchangeOK', NEW r \in Runners, NEW run, NEW E, Write(r, E, run),
         UNCHANGED world, DOMAIN mail \subseteq DOMAIN mail', Served \subseteq Served',
         RunOK(run), Fits(run, DOMAIN mail', DOMAIN azure, Served')
  PROVE  AliasInv'
<1>1. UNCHANGED azure
  BY DEF world
<1>2. UNCHANGED faults \/ Fault
  BY DEF Write
<1>3. RunsFit'
  BY <1>1, OneRun, Returns DEF AliasInv, Write
<1> QED
  BY <1>2, <1>3, WorldStays DEF AliasInv

-----------------------------------------------------------------------------
(* The steps of a run that write nothing *)

LEMMA SetUpSteps ==
  ASSUME AliasInv, NEW r \in Runners,
         GetCapabilities(r) \/ GetAliases(r) \/ GetGroups(r) \/ AllFetched(r)
  PROVE  AliasInv'
<1>0. RunOK(job[r]) /\ Fits(job[r], DOMAIN mail, DOMAIN azure, Served)
  BY DEF AliasInv, RunsFit
<1>1. CASE GetCapabilities(r)
  <2> DEFINE run == [job[r] EXCEPT !.phase = "aliases", !.known = capabilities]
  <2>1. RunOK(run) /\ Fits(run, DOMAIN mail, DOMAIN azure, Served)
    BY <1>0, <1>1 DEF RunOK, Fits, Idle, AliasInv, WorldOK, GetCapabilities
  <2>2. job' = [job EXCEPT ![r] = run]
    BY <1>1 DEF GetCapabilities
  <2> QED
    BY <1>1, <2>1, <2>2, QuietStep DEF GetCapabilities
<1>2. CASE GetAliases(r)
  <2> DEFINE run == [job[r] EXCEPT !.phase = "groups", !.listed = AllListed,
                                   !.auth = auth]
  <2>1. AllListed \subseteq Main \cup Sub /\ auth \subseteq AllListed
    BY PartialFcn DEF AliasInv, ExchangeOK, AllListed, Main, Sub
  <2>2. \A c \in Capabilities : <<c, "root">> \in AllListed => c \in DOMAIN mail
    BY DEF AliasInv, ExchangeOK, AllListed, SubsHaveMain
  <2>3. RunOK(run) /\ Fits(run, DOMAIN mail, DOMAIN azure, Served)
    BY <1>0, <1>2, <2>1, <2>2 DEF RunOK, Fits, Idle, GetAliases
  <2>4. Return(r) \/ job' = [job EXCEPT ![r] = run]
    BY <1>2 DEF GetAliases
  <2> QED
    BY <1>2, <2>3, <2>4, QuietStep, QuietReturn DEF GetAliases
<1>3. CASE GetGroups(r)
  <2>1. PICK D \in SUBSET DOMAIN azure :
          job' = [job EXCEPT ![r].phase = "fetch", ![r].fetch = D]
    BY <1>3 DEF GetGroups
  <2> DEFINE run == [job[r] EXCEPT !.phase = "fetch", !.fetch = D]
  <2>2. D \subseteq Capabilities
    BY PartialFcn DEF AliasInv, WorldOK
  <2>3. RunOK(run) /\ Fits(run, DOMAIN mail, DOMAIN azure, Served)
    BY <1>0, <1>3, <2>2 DEF RunOK, Fits, Idle, GetGroups
  <2>4. job' = [job EXCEPT ![r] = run]
    BY <2>1
  <2> QED
    BY <1>3, <2>3, <2>4, QuietStep DEF GetGroups
<1>4. CASE AllFetched(r)
  <2> DEFINE run == [job[r] EXCEPT !.phase = "main",
                                   !.todo = (DOMAIN job[r].known) \X {"root"}]
  <2>1. (DOMAIN job[r].known) \X {"root"} \subseteq Main
    BY <1>0, PartialFcn DEF RunOK, Main
  <2>2. RunOK(run) /\ Fits(run, DOMAIN mail, DOMAIN azure, Served)
    BY <1>0, <1>4, <2>1 DEF RunOK, Fits, Idle, AllFetched
  <2>3. job' = [job EXCEPT ![r] = run]
    BY <1>4 DEF AllFetched
  <2> QED
    BY <1>4, <2>2, <2>3, QuietStep DEF AllFetched
<1> QED
  BY <1>1, <1>2, <1>3, <1>4

LEMMA FetchStep ==
  ASSUME AliasInv, NEW r \in Runners, NEW c \in Capabilities, FetchMembers(r, c)
  PROVE  AliasInv'
<1>0. RunOK(job[r]) /\ Fits(job[r], DOMAIN mail, DOMAIN azure, Served)
  BY DEF AliasInv, RunsFit
<1>1. PICK S \in {azure[c], {}} :
        job' = [job EXCEPT
                  ![r].fetch = @ \ {c},
                  ![r].groups = [d \in DOMAIN @ \cup {c} |->
                                   IF d = c THEN S ELSE @[d]]]
  BY DEF FetchMembers
<1>2. S \in SUBSET Members
  BY <1>0, PartialFcn DEF FetchMembers, Fits, AliasInv, WorldOK
<1> DEFINE got == [d \in DOMAIN job[r].groups \cup {c} |->
                     IF d = c THEN S ELSE job[r].groups[d]]
           run == [job[r] EXCEPT !.fetch = @ \ {c}, !.groups = got]
<1>3. IsPartialFcn(got, Capabilities, SUBSET Members)
  <2>1. IsPartialFcn(job[r].groups, Capabilities, SUBSET Members)
    BY <1>0 DEF RunOK
  <2>2. got = [d \in DOMAIN job[r].groups \cup {c} |->
                 IF d = c THEN S ELSE job[r].groups[d]]
    OBVIOUS
  <2> HIDE DEF got
  <2> QED
    BY <1>2, <2>1, <2>2, PartialSet
<1>4. job' = [job EXCEPT ![r] = run]
  BY <1>1
<1>5. \A d \in DOMAIN got : Cc \in got[d] => d \in Served
  <2>1. Cc \in S => c \in Served
    BY <1>0 DEF FetchMembers, Fits, AliasInv, WorldOK
  <2>2. \A d \in DOMAIN job[r].groups : Cc \in job[r].groups[d] => d \in Served
    BY <1>0 DEF Fits
  <2> QED
    BY <2>1, <2>2
<1> HIDE DEF got
<1>6. RunOK(run)
  BY <1>0, <1>3 DEF RunOK, Idle, FetchMembers
<1>7. Fits(run, DOMAIN mail, DOMAIN azure, Served)
  BY <1>0, <1>5 DEF RunOK, Fits, Idle, FetchMembers
<1> QED
  BY <1>4, <1>6, <1>7, QuietStep DEF FetchMembers

LEMMA CompareStep ==
  ASSUME AliasInv, NEW r \in Runners, NEW c \in Capabilities, CompareMembers(r, c)
  PROVE  AliasInv'
<1>0. RunOK(job[r]) /\ Fits(job[r], DOMAIN mail, DOMAIN azure, Served)
  BY DEF AliasInv, RunsFit
<1>1. CASE Return(r)
  BY <1>1, QuietReturn DEF CompareMembers
<1> DEFINE add    == Wanted(r, c) \ job[r].groups[c]
           remove == job[r].groups[c] \ Wanted(r, c)
           run    == [job[r] EXCEPT !.phase = "members", !.cap = c,
                                    !.adds = add, !.removes = remove]
<1>2. CASE c \in DOMAIN job[r].groups /\ job' = [job EXCEPT ![r] = run]
  <2>1. c \in DOMAIN job[r].known
    BY <1>0 DEF CompareMembers, Fits
  <2>2. add \subseteq Members /\ remove \subseteq Members
    <3>1. job[r].known[c] \subseteq Users /\ job[r].groups[c] \subseteq Members
      BY <1>0, <1>2, <2>1, PartialFcn DEF RunOK
    <3> QED
      BY <3>1 DEF Wanted, Members, UpnsOf
  <2>3. Cc \notin remove /\ (Cc \in add \/ c \in Served)
    BY <1>0, <1>2 DEF Wanted, Fits
  <2> HIDE DEF add, remove
  <2>4. RunOK(run)
    BY <1>0, <2>2 DEF RunOK, Idle, CompareMembers
  <2>5. Fits(run, DOMAIN mail, DOMAIN azure, Served)
    BY <1>0, <2>1, <2>3 DEF Fits, RunOK, Idle, CompareMembers
  <2> QED
    BY <1>2, <2>4, <2>5, QuietStep DEF CompareMembers
<1>3. Return(r) \/ (c \in DOMAIN job[r].groups /\ job' = [job EXCEPT ![r] = run])
  BY DEF CompareMembers
<1> QED
  BY <1>1, <1>2, <1>3

LEMMA PassageSteps ==
  ASSUME AliasInv, NEW r \in Runners, ToSubs(r) \/ Finish(r)
  PROVE  AliasInv'
<1>0. RunOK(job[r]) /\ Fits(job[r], DOMAIN mail, DOMAIN azure, Served)
  BY DEF AliasInv, RunsFit
<1>1. CASE ToSubs(r)
  <2> DEFINE calls == {a \in (DOMAIN job[r].known) \X SubAliases :
                         a \notin job[r].listed \ job[r].auth}
             run   == [job[r] EXCEPT !.phase = "sub", !.todo = calls]
  <2>1. calls \subseteq (DOMAIN job[r].known) \X SubAliases /\ calls \subseteq Sub
    BY <1>0, PartialFcn DEF RunOK, Sub
  <2>2. DOMAIN job[r].known \subseteq DOMAIN mail
    BY <1>0, <1>1 DEF Fits, ToSubs
  <2>3. job' = [job EXCEPT ![r] = run]
    BY <1>1 DEF ToSubs
  <2> HIDE DEF calls
  <2>4. RunOK(run)
    BY <1>0, <1>1, <2>1 DEF RunOK, Idle, ToSubs
  <2>5. Fits(run, DOMAIN mail, DOMAIN azure, Served)
    BY <1>0, <1>1, <2>1, <2>2 DEF RunOK, Fits, Idle, ToSubs
  <2> QED
    BY <1>1, <2>3, <2>4, <2>5, QuietStep DEF ToSubs
<1>2. CASE Finish(r)
  BY <1>2, QuietReturn DEF Finish
<1> QED
  BY <1>1, <1>2

-----------------------------------------------------------------------------
(* The writes *)

\* What the writes have in common: they add members to an alias or take them
\* out, or let anybody write to one.
LEMMA MailEffect ==
  ASSUME ExchangeOK, NEW c, NEW S \in SUBSET Members,
         mail' = [mail EXCEPT ![c] = S], UNCHANGED <<subs, auth>>
  PROVE  ExchangeOK' /\ DOMAIN mail' = DOMAIN mail
<1>1. DOMAIN mail' = DOMAIN mail
  OBVIOUS
<1>2. IsPartialFcn(mail', Capabilities, SUBSET Members)
  <2>1. mail \in [DOMAIN mail -> SUBSET Members] /\ DOMAIN mail \subseteq Capabilities
    BY PartialFcn DEF ExchangeOK
  <2>2. mail' \in [DOMAIN mail' -> SUBSET Members]
    BY <2>1
  <2> QED
    BY <1>1, <2>1, <2>2, PartialFcn
<1> QED
  BY <1>1, <1>2 DEF ExchangeOK, AllListed, SubsHaveMain

LEMMA AuthEffect ==
  ASSUME ExchangeOK, UNCHANGED <<mail, subs>>, auth' \subseteq AllListed
  PROVE  ExchangeOK'
BY DEF ExchangeOK, AllListed, SubsHaveMain

\* A value of the alias' members in Exchange.
LEMMA MailTyped ==
  ASSUME ExchangeOK, NEW c \in DOMAIN mail
  PROVE  mail[c] \in SUBSET Members
BY PartialFcn DEF ExchangeOK

LEMMA MemberSteps ==
  ASSUME AliasInv, NEW r \in Runners, NEW u \in Members,
         AddMember(r, u) \/ RemoveMember(r, u)
  PROVE  AliasInv'
<1>0. RunOK(job[r]) /\ Fits(job[r], DOMAIN mail, DOMAIN azure, Served)
  BY DEF AliasInv, RunsFit
<1>1. job[r].phase = "members"
  BY DEF AddMember, RemoveMember
<1>c. job[r].cap \in DOMAIN mail /\ job[r].cap \in Capabilities
  BY <1>0, <1>1, PartialFcn DEF RunOK, Fits
<1>2. mail[job[r].cap] \cup {u} \in SUBSET Members /\ mail[job[r].cap] \ {u} \in SUBSET Members
  BY <1>c, MailTyped DEF AliasInv
<1>u. Cc \notin UpnsOf(Users \ users)
  BY UpnAssumption DEF UpnsOf
<1>3. CASE AddMember(r, u)
  <2> DEFINE c   == job[r].cap
             run == [job[r] EXCEPT !.adds = @ \ {u}]
             E   == /\ mail' = [mail EXCEPT ![job[r].cap] = @ \cup {u}]
                    /\ UNCHANGED <<subs, auth>>
  <2>0. UNCHANGED world
    BY <1>3 DEF AddMember
  <2>1. RunOK(run)
    BY <1>0 DEF RunOK, Idle
  <2>2. CASE Write(r, E, run)
    <3>1. ExchangeOK' /\ DOMAIN mail' = DOMAIN mail
      BY <1>2, <2>2, MailEffect DEF AliasInv, Write
    <3>2. mail' = [mail EXCEPT ![c] = @ \cup {u}] /\ UNCHANGED ccTaken
      BY <2>0, <2>2 DEF Write, world
    <3>3. Served \subseteq Served' /\ (u = Cc => c \in Served')
      BY <1>c, <3>2 DEF Served
    <3>4. Fits(run, DOMAIN mail, DOMAIN azure, Served')
      BY <1>0, <3>3 DEF RunOK, Fits, Idle
    <3> HIDE DEF run, E
    <3> QED
      BY <2>0, <2>1, <2>2, <3>1, <3>3, <3>4, WriteStep
  <2>3. CASE u # Cc /\ job' = [job EXCEPT ![r] = run] /\ UNCHANGED <<exchange, faults>>
    <3>1. Fits(run, DOMAIN mail, DOMAIN azure, Served)
      BY <1>0, <2>3 DEF RunOK, Fits, Idle
    <3> HIDE DEF run
    <3> QED
      BY <2>0, <2>1, <2>3, <3>1, QuietStep
  <2>4. CASE Return(r) /\ UNCHANGED <<exchange, faults>>
    BY <2>0, <2>4, QuietReturn
  <2> QED
    BY <1>3, <1>u, <2>2, <2>3, <2>4 DEF AddMember
<1>4. CASE RemoveMember(r, u)
  <2> DEFINE c   == job[r].cap
             run == [job[r] EXCEPT !.removes = @ \ {u}]
             E   == /\ mail' = [mail EXCEPT ![job[r].cap] = @ \ {u}]
                    /\ UNCHANGED <<subs, auth>>
  <2>0. UNCHANGED world
    BY <1>4 DEF RemoveMember
  <2>1. RunOK(run)
    BY <1>0 DEF RunOK, Idle
  <2>2. u # Cc
    BY <1>0, <1>4 DEF Fits, RemoveMember
  <2>3. CASE Write(r, E, run)
    <3>1. ExchangeOK' /\ DOMAIN mail' = DOMAIN mail
      BY <1>2, <2>3, MailEffect DEF AliasInv, Write
    <3>2. mail' = [mail EXCEPT ![c] = @ \ {u}] /\ UNCHANGED ccTaken
      BY <2>0, <2>3 DEF Write, world
    <3>3. Served \subseteq Served'
      BY <1>c, <2>2, <3>2 DEF Served
    <3>4. Fits(run, DOMAIN mail, DOMAIN azure, Served')
      BY <1>0, <3>3 DEF RunOK, Fits, Idle
    <3> HIDE DEF run, E
    <3> QED
      BY <2>0, <2>1, <2>3, <3>1, <3>3, <3>4, WriteStep
  <2>4. CASE Return(r) /\ UNCHANGED <<exchange, faults>>
    BY <2>0, <2>4, QuietReturn
  <2> QED
    BY <1>4, <2>3, <2>4 DEF RemoveMember
<1> QED
  BY <1>3, <1>4

LEMMA MainDoneStep ==
  ASSUME AliasInv, NEW r \in Runners, MainDone(r)
  PROVE  AliasInv'
<1>0. RunOK(job[r]) /\ Fits(job[r], DOMAIN mail, DOMAIN azure, Served)
  BY DEF AliasInv, RunsFit
<1> DEFINE a   == <<job[r].cap, "root">>
           run == [job[r] EXCEPT !.phase = "main", !.cap = NoCapability,
                                 !.todo = @ \ {a}]
           E   == auth' = auth \ {a} /\ UNCHANGED <<mail, subs>>
<1>1. job[r].cap \in DOMAIN mail
  BY <1>0, PartialFcn DEF RunOK, Fits, MainDone
<1>2. RunOK(run)
  BY <1>0 DEF RunOK, Idle, MainDone
<1>3. Fits(run, DOMAIN mail, DOMAIN azure, Served)
  BY <1>0, <1>1 DEF RunOK, Fits, Idle, MainDone
<1>4. CASE Write(r, E, run)
  <2>1. ExchangeOK' /\ UNCHANGED mail
    BY <1>4, AuthEffect DEF AliasInv, ExchangeOK, Write
  <2>2. UNCHANGED world /\ UNCHANGED Served
    BY <2>1, ServedStays DEF MainDone
  <2> HIDE DEF run, E
  <2> QED
    BY <1>2, <1>3, <1>4, <2>1, <2>2, WriteStep
<1>5. CASE job' = [job EXCEPT ![r] = run] /\ UNCHANGED <<exchange, faults>>
  BY <1>2, <1>3, <1>5, QuietStep DEF MainDone
<1> QED
  BY <1>4, <1>5 DEF MainDone

LEMMA CreateMainStep ==
  ASSUME AliasInv, NEW r \in Runners, NEW c \in Capabilities, CreateMain(r, c)
  PROVE  AliasInv'
<1>0. RunOK(job[r]) /\ Fits(job[r], DOMAIN mail, DOMAIN azure, Served)
  BY DEF AliasInv, RunsFit
<1> DEFINE a   == <<c, "root">>
           run == [job[r] EXCEPT !.todo = @ \ {a}]
           new == [d \in DOMAIN mail \cup {c} |->
                     IF d = c THEN UpnsOf(job[r].known[c]) ELSE mail[d]]
           E   == mail' = new /\ UNCHANGED <<subs, auth>>
<1>1. c \in DOMAIN job[r].known
  BY <1>0 DEF CreateMain, Fits
<1>2. UpnsOf(job[r].known[c]) \in SUBSET Members
  <2>1. job[r].known[c] \subseteq Users
    BY <1>0, <1>1, PartialFcn DEF RunOK
  <2> QED
    BY <2>1 DEF UpnsOf, Members
<1>3. IsPartialFcn(new, Capabilities, SUBSET Members)
  <2>1. IsPartialFcn(mail, Capabilities, SUBSET Members)
    BY DEF AliasInv, ExchangeOK
  <2>2. mail \in [DOMAIN mail -> SUBSET Members] /\ DOMAIN mail \subseteq Capabilities
    BY <2>1, PartialFcn
  <2>3. new \in [DOMAIN mail \cup {c} -> SUBSET Members]
    BY <1>2, <2>2
  <2> QED
    BY <2>2, <2>3 DEF IsPartialFcn
<1>4. /\ DOMAIN new = DOMAIN mail \cup {c}
      /\ \A d \in DOMAIN mail \ {c} : new[d] = mail[d]
  OBVIOUS
<1> HIDE DEF new
<1>5. RunOK(run)
  BY <1>0 DEF RunOK, Idle, CreateMain
<1>6. ASSUME Served \subseteq Served'
      PROVE  Fits(run, DOMAIN new, DOMAIN azure, Served')
  BY <1>0, <1>4, <1>6 DEF RunOK, Fits, Idle, CreateMain
<1>7. CASE Write(r, E, run)
  <2>1. mail' = new /\ UNCHANGED <<subs, auth>>
    BY <1>7 DEF Write
  <2>2. ExchangeOK'
    BY <1>3, <1>4, <2>1 DEF AliasInv, ExchangeOK, AllListed, SubsHaveMain
  <2>3. UNCHANGED world
    BY DEF CreateMain
  <2>4. Served \subseteq Served'
    <3>1. CASE c \notin DOMAIN mail
      BY <1>4, <2>1, <2>3, <3>1 DEF Served, world
    <3>2. CASE c \in DOMAIN mail
      <4>1. UNCHANGED mail
        BY <3>2 DEF CreateMain, exchange
      <4> QED
        BY <2>3, <4>1, ServedStays
    <3> QED
      BY <3>1, <3>2
  <2>5. DOMAIN mail \subseteq DOMAIN mail'
    BY <1>4, <2>1
  <2>6. Fits(run, DOMAIN mail', DOMAIN azure, Served')
    BY <1>6, <2>1, <2>4
  <2> HIDE DEF run, E
  <2> QED
    BY <1>5, <1>7, <2>2, <2>3, <2>4, <2>5, <2>6, WriteStep
<1>8. CASE Return(r) /\ UNCHANGED <<exchange, faults>>
  BY <1>8, QuietReturn DEF CreateMain
<1> QED
  BY <1>7, <1>8 DEF CreateMain, new

LEMMA SubSteps ==
  ASSUME AliasInv, NEW r \in Runners, NEW a \in Sub,
         CreateSub(r, a) \/ UpdateSub(r, a)
  PROVE  AliasInv'
<1>0. RunOK(job[r]) /\ Fits(job[r], DOMAIN mail, DOMAIN azure, Served)
  BY DEF AliasInv, RunsFit
<1> DEFINE run == [job[r] EXCEPT !.todo = @ \ {a}]
           C   == subs' = subs \cup {a} /\ UNCHANGED <<mail, auth>>
           U   == auth' = auth \ {a} /\ UNCHANGED <<mail, subs>>
<1>1. RunOK(run) /\ Fits(run, DOMAIN mail, DOMAIN azure, Served)
  BY <1>0 DEF RunOK, Fits, Idle, CreateSub, UpdateSub
<1>2. a[1] \in DOMAIN mail
  BY <1>0 DEF Fits, CreateSub, UpdateSub
<1>3. UNCHANGED world
  BY DEF CreateSub, UpdateSub
<1>4. CASE Write(r, C, run)
  <2>1. ExchangeOK' /\ UNCHANGED mail /\ UNCHANGED Served
    BY <1>2, <1>3, <1>4, ServedStays DEF AliasInv, ExchangeOK, Write, AllListed, SubsHaveMain
  <2> HIDE DEF run, C
  <2> QED
    BY <1>1, <1>3, <1>4, <2>1, WriteStep
<1>5. CASE Write(r, U, run)
  <2>1. ExchangeOK' /\ UNCHANGED mail /\ UNCHANGED Served
    BY <1>3, <1>5, AuthEffect, ServedStays DEF AliasInv, ExchangeOK, Write
  <2> HIDE DEF run, U
  <2> QED
    BY <1>1, <1>3, <1>5, <2>1, WriteStep
<1>6. CASE Return(r) /\ UNCHANGED <<exchange, faults>>
  BY <1>3, <1>6, QuietReturn
<1> QED
  BY <1>4, <1>5, <1>6 DEF CreateSub, UpdateSub

-----------------------------------------------------------------------------
(* Steps of others *)

LEMMA WorldSteps ==
  ASSUME AliasInv,
         (\E c \in Capabilities : AzureCopies(c)) \/ ServiceChange \/ AccountCreated
  PROVE  AliasInv'
<1>c. changes \in Nat /\ MaxChanges \in Nat
  BY AliasAssumption DEF AliasInv, WorldOK
<1>e. ExchangeOK'
  BY ExchangeStays DEF AliasInv, AzureCopies, ServiceChange, AccountCreated
<1>s. UNCHANGED Served
  BY DEF Served, AzureCopies, ServiceChange, AccountCreated, exchange
<1>1. ASSUME NEW c \in Capabilities, AzureCopies(c) PROVE AliasInv'
  <2>1. IsPartialFcn(azure', Capabilities, SUBSET Members)
    <3>1. mail[c] \in SUBSET Members
      BY <1>1, MailTyped DEF AliasInv, AzureCopies
    <3> QED
      BY <1>1, <3>1, PartialSet DEF AliasInv, WorldOK, AzureCopies
  <2>2. DOMAIN azure' = DOMAIN azure \cup {c}
    BY <1>1 DEF AzureCopies
  <2>a. \A d \in DOMAIN azure' : Cc \in azure'[d] => d \in Served
    BY <1>1 DEF AliasInv, WorldOK, AzureCopies, Served
  <2>3. WorldOK'
    BY <1>1, <1>s, <2>1, <2>2, <2>a DEF AliasInv, WorldOK, AzureCopies, exchange
  <2>4. RunsFit'
    BY <1>1, <1>s, <2>2, OtherRuns DEF AliasInv, AzureCopies, exchange
  <2> QED
    BY <1>e, <2>3, <2>4 DEF AliasInv
<1>2. CASE ServiceChange
  <2>1. IsPartialFcn(capabilities', Capabilities, SUBSET Users)
    <3>0. IsPartialFcn(capabilities, Capabilities, SUBSET Users)
      BY DEF AliasInv, WorldOK
    <3>1. ASSUME NEW c \in Capabilities,
                 capabilities' = [d \in DOMAIN capabilities \ {c} |-> capabilities[d]]
          PROVE  IsPartialFcn(capabilities', Capabilities, SUBSET Users)
      BY <3>0, <3>1, PartialFcn
    <3>2. ASSUME NEW c \in Capabilities, NEW S \in SUBSET Users,
                 capabilities' = [d \in DOMAIN capabilities \cup {c} |->
                                    IF d = c THEN S ELSE capabilities[d]]
          PROVE  IsPartialFcn(capabilities', Capabilities, SUBSET Users)
      BY <3>0, <3>2, PartialFcn
    <3> QED
      BY <1>2, <3>1, <3>2 DEF ServiceChange
  <2>2. WorldOK'
    BY <1>2, <1>c, <1>s, <2>1 DEF AliasInv, WorldOK, ServiceChange, Change, exchange
  <2>3. RunsFit'
    BY <1>2, <1>s, OtherRuns DEF AliasInv, ServiceChange, exchange
  <2> QED
    BY <1>e, <2>2, <2>3 DEF AliasInv
<1>3. CASE AccountCreated
  <2>1. WorldOK'
    BY <1>3, <1>c, <1>s DEF AliasInv, WorldOK, AccountCreated, Change, exchange
  <2>2. RunsFit'
    BY <1>3, <1>s, OtherRuns DEF AliasInv, AccountCreated, exchange
  <2> QED
    BY <1>e, <2>1, <2>2 DEF AliasInv
<1> QED
  BY <1>1, <1>2, <1>3

LEMMA EditStep ==
  ASSUME AliasInv, AliasEdited
  PROVE  AliasInv'
<1>1. ASSUME NEW c \in DOMAIN mail, NEW u \in UpnsOf(users) \cup {Cc}, UNCHANGED auth,
             mail' = [mail EXCEPT ![c] = IF u \in @ THEN @ \ {u} ELSE @ \cup {u}],
             ccTaken' = IF u = Cc /\ u \in mail[c] THEN ccTaken \cup {c} ELSE ccTaken
      PROVE  /\ ExchangeOK' /\ DOMAIN mail' = DOMAIN mail
             /\ Served \subseteq Served' /\ ccTaken' \in SUBSET Capabilities
  <2>1. u \in Members
    BY DEF AliasInv, WorldOK, Members, UpnsOf
  <2>2. (IF u \in mail[c] THEN mail[c] \ {u} ELSE mail[c] \cup {u}) \in SUBSET Members
    BY <2>1, MailTyped DEF AliasInv
  <2>3. UNCHANGED subs
    BY DEF AliasEdited
  <2>4. ExchangeOK' /\ DOMAIN mail' = DOMAIN mail
    BY <1>1, <2>2, <2>3, MailEffect DEF AliasInv
  <2>5. Served \subseteq Served'
    BY <1>1 DEF Served
  <2>6. c \in Capabilities /\ ccTaken \in SUBSET Capabilities
    BY PartialFcn DEF AliasInv, ExchangeOK, WorldOK
  <2> QED
    BY <1>1, <2>4, <2>5, <2>6
<1>2. ASSUME UNCHANGED <<mail, ccTaken>>, NEW a \in AllListed, auth' = auth \cup {a}
      PROVE  /\ ExchangeOK' /\ DOMAIN mail' = DOMAIN mail
             /\ Served \subseteq Served' /\ ccTaken' \in SUBSET Capabilities
  <2>1. ExchangeOK'
    BY <1>2, AuthEffect DEF AliasInv, ExchangeOK, AliasEdited
  <2> QED
    BY <1>2, <2>1 DEF Served, AliasInv, WorldOK
<1>3. /\ ExchangeOK' /\ DOMAIN mail' = DOMAIN mail
      /\ Served \subseteq Served' /\ ccTaken' \in SUBSET Capabilities
  BY <1>1, <1>2 DEF AliasEdited
<1>4. WorldOK'
  BY <1>3, AliasAssumption DEF AliasInv, WorldOK, AliasEdited, Change
<1>5. RunsFit'
  BY <1>3, OtherRuns DEF AliasInv, AliasEdited
<1> QED
  BY <1>3, <1>4, <1>5 DEF AliasInv

-----------------------------------------------------------------------------
(* The invariant *)

LEMMA AliasInit == Init => AliasInv
<1> SUFFICES ASSUME Init PROVE AliasInv
  OBVIOUS
<1>1. IsPartialFcn(capabilities, Capabilities, SUBSET Users)
  <2>1. PICK D \in SUBSET Capabilities : capabilities = [c \in D |-> Users]
    BY DEF Init
  <2>2. capabilities \in [D -> SUBSET Users]
    BY <2>1
  <2> QED
    BY <2>2 DEF IsPartialFcn
<1>2. IsPartialFcn(mail, Capabilities, SUBSET Members)
  <2>1. PICK D \in SUBSET Capabilities : mail = [c \in D |-> UpnsOf(users) \cup {Cc}]
    BY DEF Init
  <2>2. UpnsOf(users) \cup {Cc} \in SUBSET Members
    BY DEF Init, Members, UpnsOf
  <2>3. mail \in [D -> SUBSET Members]
    BY <2>1, <2>2
  <2> QED
    BY <2>3 DEF IsPartialFcn
<1>a. \A c \in DOMAIN azure : Cc \in azure[c] => c \in Served
  BY DEF Init, Served
<1>3. WorldOK
  BY <1>1, <1>2, <1>a, AliasAssumption DEF Init, WorldOK
<1>4. ExchangeOK
  BY <1>2 DEF Init, ExchangeOK, SubsHaveMain
<1>5. RunsFit
  BY IdleFits DEF Init, RunsFit
<1> QED
  BY <1>3, <1>4, <1>5 DEF AliasInv

LEMMA AliasNext == AliasInv /\ [Next]_vars => AliasInv'
<1> SUFFICES ASSUME AliasInv, [Next]_vars PROVE AliasInv'
  OBVIOUS
<1>1. ASSUME NEW r \in Runners, Step(r) PROVE AliasInv'
  BY <1>1, SetUpSteps, FetchStep, CompareStep, PassageSteps, MemberSteps,
     MainDoneStep, CreateMainStep, SubSteps DEF Step
<1>2. ASSUME NEW r \in Runners, Killed(r) PROVE AliasInv'
  BY <1>2, QuietReturn DEF Killed
<1>3. CASE UNCHANGED vars
  <2>0. UNCHANGED Served
    BY <1>3, ServedStays DEF vars, exchange
  <2>1. RunsFit'
    BY <1>3, <2>0, OtherRuns DEF AliasInv, vars, exchange, world
  <2> QED
    BY <1>3, <2>0, <2>1, WorldStays, ExchangeStays DEF AliasInv, vars, exchange
<1> QED
  BY <1>1, <1>2, <1>3, WorldSteps, EditStep DEF Next

LEMMA AliasInvAlways == Spec => []AliasInv
BY AliasInit, AliasNext, PTL DEF Spec

\* Every reachable state is well typed: in particular a run compares the
\* members of nothing but an alias it has seen in Exchange, and has something to
\* add or take out only while it sees to one.
THEOREM TypeCorrect == Spec => []TypeOK
<1>1. AliasInv => TypeOK
  BY DEF AliasInv, WorldOK, ExchangeOK, RunsFit, TypeOK
<1> QED
  BY <1>1, AliasInvAlways, PTL

\* Wherever runs are cut off, and whatever fails, no sub alias is without the
\* main alias it forwards to.
THEOREM SubsHaveMainAlways == Spec => []SubsHaveMain
<1>1. AliasInv => SubsHaveMain
  BY DEF AliasInv, ExchangeOK
<1> QED
  BY <1>1, AliasInvAlways, PTL

\* Whoever else writes to an alias, however old its copy is, and wherever runs are
\* cut off: a run takes somebody out of it only when CcEmail is in, unless an
\* administrator has taken CcEmail out.
THEOREM CcReceivesAlways == Spec => CcReceives
<1> DEFINE Stays == changes' = changes =>
                      \A c \in DOMAIN mail \ ccTaken :
                        mail[c] \ mail'[c] # {} => Cc \in mail'[c]
<1>1. AliasInv /\ [Next]_vars => Stays
  <2> SUFFICES ASSUME AliasInv, [Next]_vars, changes' = changes,
                      NEW c \in DOMAIN mail \ ccTaken, mail[c] \ mail'[c] # {}
               PROVE  Cc \in mail'[c]
    OBVIOUS
  <2>t. mail \in [DOMAIN mail -> SUBSET Members] /\ DOMAIN mail \subseteq Capabilities
    BY PartialFcn DEF AliasInv, ExchangeOK
  <2>n. changes \in Nat
    BY DEF AliasInv, WorldOK
  <2>1. CASE \E r \in Runners, u \in Members : RemoveMember(r, u)
    <3>1. PICK r \in Runners, u \in Members : RemoveMember(r, u)
      BY <2>1
    <3>2. Fits(job[r], DOMAIN mail, DOMAIN azure, Served) /\ job[r].phase = "members"
      BY <3>1 DEF AliasInv, RunsFit, RemoveMember
    <3>3. job[r].cap = c /\ mail' = [mail EXCEPT ![c] = @ \ {u}]
      BY <2>t, <3>1 DEF RemoveMember, Write, exchange
    <3>4. u # Cc /\ c \in Served
      BY <3>1, <3>2, <3>3 DEF Fits, RemoveMember
    <3> QED
      BY <2>t, <3>3, <3>4 DEF Served
  <2>2. ASSUME NEW r \in Runners, NEW u \in Members, AddMember(r, u)
        PROVE  mail[c] \subseteq mail'[c]
    BY <2>t, <2>2 DEF AddMember, Write, exchange
  <2>3. ASSUME NEW r \in Runners, NEW d \in Capabilities, CreateMain(r, d)
        PROVE  mail[c] \subseteq mail'[c]
    BY <2>3 DEF CreateMain, Write, exchange
  <2>4. ASSUME NEW r \in Runners,
               \/ GetCapabilities(r) \/ GetAliases(r) \/ GetGroups(r)
               \/ \E d \in Capabilities : FetchMembers(r, d) \/ CompareMembers(r, d)
               \/ AllFetched(r) \/ MainDone(r) \/ ToSubs(r)
               \/ \E a \in Sub : CreateSub(r, a) \/ UpdateSub(r, a)
               \/ Finish(r) \/ Killed(r)
        PROVE  UNCHANGED mail
    BY <2>4 DEF GetCapabilities, GetAliases, GetGroups, FetchMembers, CompareMembers,
                AllFetched, MainDone, ToSubs, CreateSub, UpdateSub, Finish, Killed,
                Write, exchange
  <2>5. CASE \/ \E d \in Capabilities : AzureCopies(d)
             \/ ServiceChange \/ AccountCreated \/ UNCHANGED vars
    BY <2>5 DEF AzureCopies, ServiceChange, AccountCreated, vars, exchange
  <2>6. CASE AliasEdited
    BY <2>6, <2>n DEF AliasEdited, Change
  <2> QED
    BY <2>1, <2>2, <2>3, <2>4, <2>5, <2>6 DEF Next, Step
<1>2. AliasInv /\ [Next]_vars => [Stays]_vars
  BY <1>1
<1> QED
  BY <1>2, AliasInvAlways, PTL DEF Spec, CcReceives
=============================================================================
