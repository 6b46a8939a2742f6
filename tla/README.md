# aad-aws-sync in TLA+

aad-aws-sync keeps three systems in line with the capability service of the
platform: the groups of an administrative unit in Azure AD, the permissions and
role mappings of AWS accounts and clusters, and the mail aliases of
capabilities. It does so twice over: scheduled jobs compare and repair the whole
state, and an event loop reacts to single changes. This directory holds TLA+
modules of the parts whose correctness depends on ordering, failure and
concurrency, TLC configurations that check them on small instances, and proofs
that TLAPS checks for every instance.

Paths below are relative to the repository.

## The system

| component | state | operations | hard because |
|---|---|---|---|
| job `capSvc2Aad` (`internal/handler/capsvc2aad.go`) | none between runs; in a run: snapshots of capabilities, groups and members | list, eliminate duplicates, list again, fetch members, create groups, add and remove members | dozens of remote calls, each of which can fail or half-fail; the event handlers and other processes write to the same groups |
| Graph client (`internal/azure`) | none, but for its token | one HTTP request per method, paged listings | some methods do not look at the status of the answer |
| orchestrator (`vendor/go.dfds.cloud/orchestrator`) | per job: `lastExecuted`, `SyncStatus`; a wait group | scheduler loop, `Job.Run` | `Run` is called by the scheduler and by requests; check and update of the status are two critical sections |
| process (`cmd/orchestrator/main.go`) | context, HTTP server | registration of jobs, four POST routes, shutdown | shutdown waits for goroutines while the scheduler still starts some |
| event loop (`internal/event/event.go`, `internal/kafkautil`) | the message in hand; reader position; committed offset (broker) | fetch, dispatch, DLQ, commit | crashes and rebalances between handling and committing |
| job `aws2K8s` (`internal/handler/aws2k8s.go`, `internal/k8s`) | none between runs; in a run: roles found, loaded ConfigMap | ask accounts, load, prune, map, save | edits a slice while it walks through it; others edit the ConfigMap |
| member event handlers (`internal/event/handlers`) | none | add a member on joining, remove it on leaving, in Azure AD and in AWS | they race with `capSvc2Aad`, may arrive before the group, and may be repeated |
| token client (`internal/util/auth.go`) | the current token | refresh when expired | fifty goroutines share it without a lock |
| concurrent fetches (in `capsvc2aad.go`, `aws/aws.go`, `capability_email_alias.go`) | semaphore, wait group, map | one goroutine per group or account | deferred calls run in reverse; at a shutdown the semaphore is not acquired and released all the same |
| jobs `aad2Aws`, `assignGroups2AzureEnterpriseApps` | none between runs | assign groups to applications | decide on several snapshots, end at the first assignment that is refused |
| job `awsMapping` (`internal/handler/awsmapping.go`, `internal/aws`) | none between runs; in a run: accounts, groups, what is assigned | list, ask for account assignments | AWS makes an assignment later or fails to; an error ends the run |
| job `capabilityEmailAlias` and Exchange clients (`internal/ssu_exchange`) | none between runs; in a run: capabilities, aliases, copies of the members | create aliases, add and remove members, update settings | compares with a copy that lags behind; the first error ends the run for all capabilities; panics on one error path |
| commands under `cmd/` | none | one handler, or the event loop, once | a second process beside the orchestrator |
| configuration, logging, Kafka dialer, test helpers | fixed at start | | |

How they interact. `main` registers six jobs with the orchestrator and starts
three goroutines: the scheduler, the event loop, and the HTTP server. Scheduler
and server meet in `Job.Run` and share the status of the job and the wait group.
An error of the event loop cancels the context, on which `main` waits; it then
waits for the wait group, in which jobs and the event loop count alike
(`backgroundJobWg`). Otherwise jobs and event handlers share nothing inside the
process but the token of a client: they meet in Azure AD, AWS and Kubernetes.
During a rolling update, or with a command started by hand, two processes do so.

What makes each part correct:

- `capSvc2Aad`: it must never delete the only group of a capability, never
  write to a group it has deleted itself, take nobody out who belongs in, and in
  the end bring every group in line with the service.
- Orchestrator: one run of a job at a time; no job blocked for good; due jobs
  are started; shutdown waits for the runs and the event loop, and completes.
- Event loop: no event lost, none handled ahead of an earlier one, all settled in
  the end.
- `aws2K8s`: no role mapped twice, nobody else's mapping lost, stale mappings
  removed and only those.
- Token client: a request carries a token that is complete, and does not expire
  long before it is sent; where the missing lock breaks that, how far.
- Concurrent fetches: no more calls at a time than the semaphore allows, no
  wake-up lost, the map complete when it is read.
- Member event handlers: the last event about a user decides, however often
  events are repeated; together with the job the groups become right.
- Assignment jobs: no capability without a context gets the application of AWS;
  every group gets its applications in the end.
- `awsMapping`: a run that gets to its end has left out nobody it has listed,
  whatever is out of date; every account and every shared role is assigned in the
  end.
- E-mail aliases: mail to an alias never goes to nobody; no sub alias without its
  main alias; the aliases become right.

`PROJECT.json` lists, under `hazards`, every place where these can go wrong.

## The modules

| module | what it is |
|---|---|
| `CapSvc2Aad` | the job, one remote call per step, with several runners |
| `MemberEvents` | the handlers of joining and leaving, over a topic, beside `CapSvc2Aad` |
| `AppAssignment` | the two jobs that assign groups to applications |
| `Orchestrator` | scheduler, requests, goroutines of runs and of the event loop, shutdown |
| `Delivery` | abstract: what the event loop promises about its topic |
| `EventLoop` | the loop and its process, shown to implement `Delivery` |
| `AwsAuthMap` | the job `aws2K8s`, one loop iteration or call per step |
| `AwsMapping` | the job `awsMapping`, with what AWS makes of its requests |
| `EmailAlias` | the job `capabilityEmailAlias`, one remote call per step |
| `TokenClient` | the token that the goroutines of a client share |
| `FanOut` | the goroutines that fetch concurrently, under semaphore and wait group |
| `GroupFetch` | `FanOut` and `TokenClient` composed: those goroutines, with their client |
| `MC*` | instances for TLC, one configuration per run |
| `*_proofs` | theorems and their proofs |

A definition whose comment begins "Variant" is no part of a specification: it is
a plausible mistake in the definition below it. A property of a run is worth
keeping only as long as some variant breaks it (`mutants` in `PROJECT.json`).

### CapSvc2Aad

`capabilities` is the state of the service, `groups` that of the unit. `job[r]`
holds what the local variables of one run hold: `known` is what `GetCapabilities`
returned, `listing` is `aUnitMembers`, `azure` is `groupsInAzure`. The phases
follow the handler: `list` (lines 49-67), `eliminate` (69-71 and 231-265),
`fetch` (78-122), `sync` (125-227). One capability's two inner loops leave their
remaining iterations in `adds` and `removes`.

- A display name is the prefix and a root id: the root id stands for both.
- Group ids follow `CreatedDateTime`, by which duplicates are ordered. Ties are
  not modelled.
- Errors. A listing cut short by an error page is indistinguishable from a
  complete one, because `GetAdministrativeUnitMembers` does not look at the
  status: `Listed` lets a failure return any part of the groups. A member fetch
  may fail outright (the group is dropped) or decode an error body (no members).
  Writes may fail before or after they took effect; an error ends the run.
  `AddGroupMember` and `DeleteGroupMember` count some statuses as success.
- `Killed` is a cancelled context, a dead process, or an error of a call that
  writes nothing.
- Iterations that make no call are not steps. A listing with all its pages is one
  step. No capability lists the empty address.
- `ServiceChange` and `DirectoryChange` are the rest of the world; the writes of
  the event handlers are among the latter.

### MemberEvents

Extends `CapSvc2Aad`: the job's actions are those of that module, and service and
handlers take the place of `ServiceChange` and `DirectoryChange`. `log` is the
topic and `pos` the place of the event in hand, whose handler is in `ev`:
`FindCapability` (lines 56-72 of both handlers), `FindGroup` (74-110), `AddJoined`
(112-120 of `member_joined_capability.go`) or `DeleteLeft` (112-120 of
`member_left_capability.go`), `PatchAws` (122-140). `aws` and `awsUsers` are the
identity store, which Azure provisions by itself (`AzureProvisions`) and the
handlers patch directly.

- An event is settled whether its handler succeeds or not: the loop forwards what
  failed to the DLQ. Delivery is that of `Delivery`: in order, and again from an
  earlier place after a crash, a rebalance or a failed commit (`Redeliver`). One
  process handles events. With two, a handler that has lost its partition could
  still write after the new owner has handled a later event.
- Users stands for the names of accounts (UPNs) as well as for addresses. The
  handlers use the `UserID` of an event as a UPN (`member_joined_capability.go`,
  lines 107 and 112); the job looks the UPN of an external user up by the address
  (`capsvc2aad.go`, line 171). The two are one in the model, so what it shows is
  about topics whose user ids are UPNs.
- The look-ups in AWS and the patch are one step: what is provisioned stays so.
- Failed calls of handlers count against `MaxFailures`, those of the job against
  `MaxFaults`.
- `crossed` remembers whether a membership has changed during a run of the job, or
  the unit began with two groups of one name: then a run may write what it has read
  before, or the event may have changed the other group, and only a later run of the
  job helps.
- `Abstracts` says that everything that happens here is allowed for in
  `CapSvc2Aad`, each write of a handler as one `DirectoryChange`. So the theorems
  about that module are about this composition, too.

### AppAssignment

Groups are numbered in the order of their creation; `name[g]` is the root id in
the display name, `live` the groups that exist, `assigned` the assignments. A
runner of either kind holds what the handler's variables hold: `known` is
`capabilitiesByRootId`, `seen` the names in `appAssignments`, `listing` is
`groups.Value`. `todo` are the iterations of the loop that make a call; the other
job's outer loop over the file is `app`. The order of the listings differs
between the jobs, and so do the phases. Assignments go with their group;
capabilities do not lose their contexts.

### Orchestrator

A caller is the scheduler or one HTTP request. Its `pc` goes through the route's
own check (`called`), `InProgress` (`check`), the assignment of `lastExecuted` and
`SetStatus(true)` (`claim`), `wg.Add` and `go` (`add`). A run is a goroutine that
is in its handler (`handling`) or has cleared the status and not yet called
`wg.Done` (`ending`). `main` goes from `up` to `waiting`, `released` and `exited`.
Job and route names are those of `main.go`, because the routes find jobs by them.
What a request is answered is left out, and a caller whose call of `Run` is over
forgets its job.

`loop` is the goroutine of the event loop, which counts in the same wait group from
`wg.Add` (`event.go`, line 91) to the deferred `Done`: it sets up (`starting`, where
an error returns before the `Add`), waits for a message (`fetching`), has one in hand
(`handling`), or is in a handler that never returns (`hung`). A fetch that ends, with
a cancelled context or another error, returns nil; a message that the DLQ does not
take returns an error, on which the context is cancelled. What happens to the messages
is in `EventLoop`.

Time is the set `due`: a job enters it when its interval has passed. Of the jobs in
`Hanging` nothing is assumed: `http.DefaultClient` has no timeout, and their
handlers may never return.

### Delivery and EventLoop

`EventLoop` is one partition with `N` messages, of which a handler is registered
for some. `outcomes` records what was done with each, over all attempts;
`committed` is the offset at the broker and `next` the position of the reader. A
failed call may have taken effect. `Rebalance` takes the reader back to the
committed offset while a message is in hand, `Crash` and `Restart` do so with
nothing in hand. The reader commits synchronously, as kafka-go does without a
commit interval, and a committed offset may go back. In `Delivery` the only state
is which messages are settled and what is committed.

### AwsAuthMap

`mappings` is the list in the ConfigMap, `roles` the role of each account, under
`Accounts \X RoleNames` as ARNs. A mapping is its ARN, whether this job manages
it, and whether its user name and groups are those the job would give.
`job[r].maps` is the loaded copy, edited in place: `PruneEntry` removes as
`removeArrayItem` does, by moving the last entry into the gap, and moves on.
`latest` holds the runs that have the resourceVersion of the cluster: a write by
anybody empties it. An account has at most one access role, accounts have
different names, and the mappings at the start have different ARNs. `GetSsoRoles` reads
only the first page of `ListRoles` (`aws.go`, line 523): the access role is taken to be
on it. One that is not would look like a role that does not exist.

### AwsMapping

`accounts` are the accounts of the organization by name, `name` and `live` the
groups that Azure has provisioned to the identity store, `assigned` the account
assignments that AWS has made and `pending` those it has been asked for. A run asks
for role 0, the access of a capability to its own account, and then for each of the
shared roles in turn (`Shared`: the logs account and the ECR account), which is the
order of the handler; `todo` are the calls of the loop it is in. `lost` is history:
assignments that failed, or were taken away, since they were last asked for.

- For an account of its own a group is looked up by its whole name: prefix, space and
  the account's name without the account prefix. For the shared accounts its name need
  only contain the prefix, anywhere (`sso.go`, line 105): `Lookalikes` are such names,
  and `Prefixed` all that the code takes there.
- `Settles` is AWS: an assignment is made or fails, and the job never asks which.
- Accounts are listed with the organizational units one after the other:
  `ListAccounts` may miss one that is moved meanwhile. Account names are unique.
- Whether an account has been served is read from `Provisioned`, as the code does:
  any principal with the permission set counts. An account whose only assignment
  belongs to somebody else, or to a group that has gone, is therefore passed over
  for good (`OwnOnly`).
- An error of a call for a shared role that comes from a cancelled context is
  returned as success by the code; either way the run is over (`Killed`).

### EmailAlias

`mail` holds the main aliases and their members in Exchange, `subs` the sub
aliases, `auth` those with the wrong setting, `azure` the copy of `mail` in Azure
AD, made by `AzureCopies` at any later time. A run holds the capabilities
(`known`), the aliases (`listed`), the copies of the members (`groups`), and the
loop it is in: `ReconcileMainAlias` (phases `main` and `members`) or
`ReconcileSubAliases` (`sub`).

- Internal members' addresses are the names of their accounts. External ones are
  looked up: `Upn` is what the account of an address is called, in the copy and in
  Exchange, and the alias is created with addresses, which Exchange resolves. The list
  in the cache is rewritten in place, so `Wanted` is what the comparison sees.
- `CcEmail` belongs to every alias that exists, but is not among the members an
  alias is created with: the run after the creation adds it. `ccTaken` is history: the
  aliases an administrator took it out of.
- Main aliases are never deleted: the code has nobody who does (`RemoveAlias` is not
  called), and an administrator who does is left out.
- Groups fit in one page. Members come into an alias and leave it only as `mail`
  says.
- A failed `GetGroupMembers` ends the process by a panic when the answer is nil
  (`Killed`), or leaves no members (`FetchMembers`).

### TokenClient

`heap` holds token objects, `cur` is `c.Token`, `req[g]` is where goroutine `g` is in
`prepareHttpRequest`, `RefreshAuth` and `GetToken`. The statements of `RefreshAuth`
that write the fields of the new token through `c.Token` are steps of their own,
and so are the two halves of the write of a string: a reader in between finds a
torn one (`text`). Loading `c.Token` and storing through it is one step that may use
the pointer just stored or the one that is there (`Target`).

- Time is relative: `life` is how many seconds the token is still valid, `expiresIn`
  how many the cache believes. They differ, because the life counts from the issue
  and the expiry from the arrival of the answer, and because one goroutine may
  record its expiry beside another's token.
- `MaxDelay` bounds the seconds from the check of the token to its use.
- The tokens that can be given in the environment are left out.

### FanOut and GroupFetch

`FanOut` is the code that three handlers share, with the weighted semaphore of
`golang.org/x/sync`, whose weights are one: `held` and its queue `waiters`, `wg`,
and the locked map `payload`. Which handler runs it is chosen at the start. Only
`capabilityEmailAlias` waits with a context that a shutdown cancels; it then goes
on without the semaphore and releases it nevertheless, which panics when more is
released than held. It is also the one that panics after a failed fetch.

`GroupFetch` puts `TokenClient` in the place of the call: a goroutine's fetch goes
through the steps of its request, a refresh that fails is a fetch that fails, and
the handler itself has made requests before it starts the goroutines or waits. The steps of
the composition are those of its parts, except that a panic in either ends it.

## The runs

Runs that pass:

| run | what it asks | instance |
|---|---|---|
| `capsvc2aad_faults` | Does a run work on groups that exist, and on one per capability, through two failures? | 1 runner, 2 capabilities, 2 external users of whom one has no account, up to 2 groups at the start, 1 change by others |
| `capsvc2aad_two` | Can two processes together delete the last group of a capability? Do groups become what the service says, from every initial unit? | 2 runners, up to 3 duplicates at the start, 1 failure, 1 change by others |
| `members_job` | Do handlers stay within what `CapSvc2Aad` allows for? Does the last event decide? Do groups become right when events fail or come too early? | job and handlers, 2 users of whom one has no account, up to 2 groups at the start, 2 changes, 1 failure of a handler, 1 redelivery |
| `assignment_apps` | Does a capability without a context get the application of AWS? Do all groups get their applications? | both jobs, 2 applications in the file, 2 capabilities, 1 failure, 2 changes by others |
| `orchestrator_jobs` | Do status and wait group keep their meaning, are due jobs started, does shutdown end? | 2 jobs, one of which a route reaches and the other may hang; 1 request; the event loop; 1 late tick |
| `event_topic` | Is any event lost, reordered, or left? Is `Delivery` implemented? | 3 messages of any kind, 3 faults |
| `authmap_map` | Is any role mapped twice, any foreign mapping lost? Are all mappings right in the end? | 2 runners, 2 accounts, up to 2 mappings, 1 failure, 1 change by others |
| `groupfetch_shared` | Are calls bounded, is a wake-up lost, is the map complete, what becomes of the token that all share? | 3 goroutines and their handler, a semaphore of 2, 1 failed fetch, tokens of 2 seconds, requests of up to 1 |
| `awsmapping_access` | Does a run that gets to its end leave anybody out? Is everything assigned in the end? | 1 capability and 1 name that merely contains the prefix, up to 2 groups, both shared accounts, 2 failures, 1 change by others |
| `emailalias_aliases` | Does a run ever take somebody out of an alias that `CcEmail` is not in, is there a sub alias without its main alias? Do the aliases become right? | 2 capabilities, an internal and an external member, 1 sub alias, 2 failures, 1 change by others |

What they show, property by property:

- `CachedGroupsExist`: the second listing of the unit, after the elimination, is
  what keeps a run from writing to a group it has deleted; with the first listing
  alone (`ListOnce`) it would. It is true of a run that has the unit to itself.
- `NoDuplicatesLeft`: without failures the rest of the run works on at most one
  group per capability.
- `OldestGroupKept`: two runs that eliminate duplicates from
  different listings, each possibly incomplete, never delete the oldest group.
- `Converges` (CapSvc2Aad): failures may leave duplicates, missing groups and
  wrong members behind; later runs, of two processes at once, repair all of it.
- `Converges` (MemberEvents): so they do with the handlers writing in between, and
  for users whose joining event came before the group and was forwarded to the DLQ.
- `Abstracts`: no handler deletes or creates a group, or changes more than one
  member at a time.
- `EventsDecide`: between runs of the job the groups are as the last event about
  each user says, and AWS as it says about those who left, even if the job ran in
  the middle of a handler and an event is handled again after a later one. It takes the
  404 of a removal that was already made to count as success, because otherwise the
  repeated event would not reach AWS. A run of the job during which a membership
  changed is the exception (`crossed`): it writes what it read. So is an external user
  without account (`External \subseteq Directory` is a condition): the job ends at the
  first it meets, and a group it has just created stays without the members who come
  after, whose joining events may have been handled before there was a group. TLC finds
  this with `Directory = {ext}` and `External = {ext, ghost}` once the condition is left
  out; the proof of the theorem has brought it to light.
- `ContextsOnly`: three snapshots, of contexts, assignments and groups, never
  combine to an assignment nobody wanted.
- `Converges` (AppAssignment): a run that ends at a refused assignment, an
  assignment found under the name of a duplicate, and a listing cut short only
  delay the groups behind.
- `SingleRun`: as long as no request reaches a job, the status is enough to keep
  its runs apart. With a request it is not, see below.
- `NeverStuck`: although overlapping runs clear each other's status, the status is
  never set with nobody left to clear it.
- `ReleasedWhenQuiet`, `ShutdownCompletes`: `wg.Add` may race with `wg.Wait`, the
  event loop's too, but at the moment `Wait` returns no goroutine of a job is alive and
  the event loop is not under way; and it does return, unless a call of a job or of an
  event handler hangs. Each return of the loop must count itself off, also the one that
  has stopped the process (`ForwardFailsUndone`).
- `DueJobsRun`: requests cannot keep a due job from being started, and a call that
  hangs keeps only its own job from that.
- `CommittedIsSettled`, `FirstInOrder`, `Delivers`: at-least-once, in order.
- `AllSettled`: every message is settled in the end, unless a failed
  `FetchMessage` has ended the loop and nothing has stopped the process since.
- `MappedOnce`, `ForeignKept`: the resourceVersion keeps two runs from mapping a
  role twice and from overwriting what others have added.
- `KeepsExisting`: a run that could ask every account removes no mapping of a role
  that exists; with an account that it could not ask it does, see below.
- `Converges` (AwsAuthMap): the entry that a removal moves under the index is
  missed by that run and caught by a later one.
- `AtMostSize`, `NeverStuck`, `CompleteAfterWait`: as long as the context lives the
  semaphore counts the calls under way; no goroutine waits with nobody left to wake
  it, cancelled or not; and `Done`, deferred last and so called first, comes after
  the write to the map. `NeverStuck` and the bounded number of steps of each
  goroutine are why `Wait` returns.
- `DriftBounded`: however refreshes overlap and fields are mixed, the cache believes
  in a token at most one request's duration too long. A token can therefore be
  sent expired, for no longer than twice that (`NotLongExpired`, proved).
- `UnfinishedOnlyMeanwhile`, `FinishedAfterWait`: an empty or torn token is used only
  while another goroutine is filling it in, never because a refresh has failed; when
  all goroutines are through, the handler goes on with a complete one.
- `RolesInTurn`: the three kinds of assignment are served in turn, and the first error
  ends the run, so a run that gets past one has had every assignment it wanted: AWS
  has made it, was asked for it, or has lost it since, by a failure or by others. With an
  error that is only logged (`CreateAssignmentLogged`) a run would end as if it had.
- `Converges` (AwsMapping): errors that end the run before the shared roles, accounts
  missed in a listing and assignments that AWS fails to make are made up for by later
  runs.
- `SubsHaveMain`: wherever a run is cut off, a sub alias has a main alias to forward
  to, because the loop over the main aliases comes first and ends at its first error.
- `CcReceives`: a main alias is created without `CcEmail`, and another run, or one that
  was cut off, may have made it. A run that takes somebody out has put `CcEmail` in, or
  has seen it in the copy, however old that is: it adds before it removes. An alias out
  of which an administrator took `CcEmail` is excepted (`ccTaken`).
- `Converges` (EmailAlias): the aliases become right although a member who is there
  already, or an alias that has not been copied, ends a run; provided that at least
  one alias exists and that members have accounts (`Possible`). External members count
  under another name than the one the service has for them (`Upn`).

Runs that find a disagreement between the code and what its comments say
(`findings` in `PROJECT.json` quote them):

| run | what it shows |
|---|---|
| `orchestrator_overlap` | a request and the scheduler both pass the check of the status: two runs of one job |
| `event_fetch` | a failed `FetchMessage` ends the loop without an error: the process stays up and reads no more |

Reading the code for the models also showed the following, which no run states. Two
of the points, the members beyond the first page and the external address without an
account, break `Converges` in `capsvc2aad_two` once its instance has two users.

- One failed listing or member fetch is enough for `capSvc2Aad` to create a second
  group for a capability that has one; a later run removes it.
- An account that cannot be asked once loses its mapping in the ConfigMap until the
  next run.
- At a shutdown, a goroutine of `capabilityEmailAlias` goes on without the semaphore
  it waited for, and its release may panic.
- Without any alias, or with one external member who has no account,
  `capabilityEmailAlias` gets nowhere; an alias of a capability that has gone is never
  removed.
- A group of AWS whose name merely contains the prefix, at any place, gets the shared
  roles like that of a capability (`strings.Contains`, `sso.go`, line 105).
- Of an account's roles only the first page is read (`aws.go`, line 523): an access role
  on a later one is taken not to exist, and its mapping is removed.
- The handlers of member events use the user id of an event as a UPN, where the job looks
  an external user's up: an event that names an external user by the address finds no
  account, or another one.
- An event handler whose call hangs keeps the shutdown waiting as a job does.
- An account that always fails keeps `awsMapping` from the accounts after it and from
  the shared roles.
- `GetGroupMembers` reads one page: with `PageSize = 1`, a leaver beyond the first
  page is never removed.
- An external address without an account makes `GetUserViaEmail` fail, which ends
  the run, in every run: with an external user outside `Directory`, groups of other
  capabilities are never reached. The runs therefore claim convergence only for
  users who have an account.
- Three of the four routes of `main.go` look up keys under which no job is
  registered (`aadToAws`, `awsToK8s`, `capSvcToAad` against `aad2Aws`, `aws2K8s`,
  `capSvc2Aad`), and always answer 404. `Orchestrator` has these keys.
- One failed look-up of an external user (`MailUnread`) makes the job remove a
  member the capability lists, until the next run.
- A user who joins during a run, and is added by the event handler, is removed by
  the run and added again by the next one.
- A request can be answered "job created" although `Run` did nothing.
- The scheduler never looks at the context, so it may start a job between the
  return of `Wait` and the end of the process.
- `producer.go` says of failed writes that the service keeps trying; the event
  loop tries the DLQ once, and ends.

### Bounds, and why they are enough

Every bound is a constant in the configurations. `MaxFaults` and `MaxChurn` bound
failures and changes by others; each hazard listed needs one or two of them, and
the liveness properties are about what happens after the last. `MaxGroups` is
large enough for every creation the faults allow, so that it never keeps a run
from creating a group. `MaxInitial = 3` in `capsvc2aad_two` gives two victims and
an elder; `MaxInitial = 2` in `authmap_map` gives two stale entries, of which the
first removal hides the other. `MaxGoroutines = 2` is the number of callers that
can overlap with one request. `MaxLateTicks` bounds how often a job becomes due
after the shutdown has begun: without the bound new runs could start for ever
while `main` waits, so `ShutdownCompletes` says that finitely many of them do not
keep it from completing. Three goroutines over a semaphore of two give one that waits
behind others, and four token objects let the handler and three goroutines refresh at
once. Three messages give one in hand, one before and one
after it. The unbounded safety statements are the theorems.

### Fairness

- Jobs, also in `MemberEvents`, where nothing is assumed of the handlers:
  `WF(Step(r))`. The scheduler starts a job again and again, and a run
  proceeds by itself. A run that fails just ends; the next one starts.
- `AwsMapping`, `EmailAlias`: in addition AWS settles what it was asked for and
  Exchange copies its groups, at some time.
- Orchestrator: each goroutine proceeds by itself, and handlers return, except those
  of the jobs in `Hanging`: a request that hangs keeps its job in progress and the
  shutdown waiting for good, and the properties say of which jobs. The event loop gets
  done with a message or hangs, and nothing is assumed of messages. `FetchMessage`
  selects among a message and the cancelled context, and Go selects at random: with
  messages without end, the context is selected at some time (`SF` of `FetchEnds`).
- `GroupFetch`: none. A panic or the end of the handler stops everything, so deadlock
  is not checked there; `NeverStuck` says what it should.
- Event loop: the loop and the exit of `main` proceed by themselves, and the
  cluster starts a pod again that has ended. Nothing is assumed of failures,
  rebalances, signals or crashes but that there are finitely many.

## The proofs

Every theorem holds for all values of the constants. The assumptions are those named
in the modules: bounds are natural numbers, `Directory` and `External` are sets of
users, the scheduler is no request, the handler is none of its goroutines and the
semaphore has room for one, `NoRole` and `NoCapability` are no role and no
capability, roles outside the accounts are outside the accounts, a request up to its
`GetToken` takes no longer than a token lives, shared accounts and lookalikes are no
capabilities, an internal account is called by its address, and `CcEmail` is no user.

- `MemberEvents_proofs`, about the job (`Spec` of `CapSvc2Aad`): `TypeCorrect`;
  `VictimsHaveEldersAlways`; `OldestGroupKeptAlways`; for one runner (`Alone`)
  `CachedGroupsExistAlways` and `NoDuplicatesLeftAlways`. `VictimsHaveElders` is not
  inductive alone: a victim's elder may itself be a victim of another run, and a new
  group might have the id of one that some run is about to delete. `EliminationInv`
  adds that ids are used once (`IdsUsed`). The argument then is that every write to
  the unit is a `SafeWrite`: it removes at most one group, and only one that has an
  elder, so every group that had an elder still has one, its elder's elder if need be
  (`ElderKept`). `AloneInv` adds what a run knows when nobody else deletes groups: it
  caches only what exists (`HoldsExisting`), all groups of a name but the oldest are
  victims until none is left (`LessOne`), and every group is fetched before its
  capability's turn (`SeesAll`), which is why a creation makes no second group.
- The same module, about the composition (`MemberSpec`): `AbstractsAlways`, that
  `MemberEvents` implements `CapSvc2Aad`. The bound on changes by others in the
  abstract module must have room for every write of a handler: `WritesCounted` says
  that each event is written at most once in each pass over the log, and that a
  redelivery begins a pass. `OldestGroupKeptBesideEvents` and `AloneBesideEvents`
  carry the theorems over.
- `EventsDecideAlways`, for one runner. The event that decides has been handled in
  Azure AD up to `Handled` and in AWS up to `pos - 1`; `AzureRight` and `AwsRight` say
  that up to there both are right about every user with no later event, but for those
  whom a run is still to add to a group it has created (`Adding`). They rest on: the
  last event tells what the service says (`LogTells`); what a run has read is current
  and it writes to the right group (`KnowsCurrent`), as does a handler (`HandlerKnows`);
  a capability has one group (`OneGroup`), so that a look-up finds the one the job
  works on; and AWS has only what came from the unit (`AwsKnown`), so that an event
  that finds nothing provisioned leaves nobody behind.
- `Orchestrator_proofs`: `SingleRunAlways` from `SingleInv`, which says that the
  status of a job no route reaches is set exactly while its run is being started or
  is in the handler (`StatusTells`), and that requests only hold jobs a route
  reaches (`Targets`). `NeverStuckAlways`: the last caller between claim and start,
  or the last goroutine in the handler, still has its clearing of the status before
  it. `TypeCorrect` and `ReleasedWhenQuietAlways`: the wait group is the sum of the
  goroutines of all jobs, written out over the six names there are, and one for the event
  loop while it is under way (`Counted`), so that it is at least one wherever `Done` is
  called and zero only when all are gone.
- `EventLoop_proofs`: `LoopInvAlways`, `TypeCorrect`, `NoEventLost`, `OrderAlways`,
  `LoopDelivers`. `ReaderInv` says that the reader is at most one unsettled message
  ahead, the one in hand, and `HandInv` that all before the one in hand is settled.
  `StepSettles` reduces every action to two cases, nothing settled or the message
  in hand settled, from which the refinement follows.
- `AwsAuthMap_proofs`: `MapInvAlways`, `TypeCorrect`, `MappedOnceAlways`,
  `ForeignKeptAlways`, `KeepsExistingAlways`. The invariant says of every run that its
  copy has no role twice, and, if the run holds the latest resourceVersion, all foreign
  mappings of the cluster. The lemmas on lists show that a removal, an append and a
  correction keep both (`Good`). `KeepsExisting` needs `HeardInv`: as long as no account
  has been skipped and no role has changed, a run has found the role of every account it
  has heard from, all of them once it has waited for the goroutines, and if it holds the
  latest resourceVersion its copy has the mappings of all of them.
- `AppAssignment_proofs`: `AssignInvAlways`, `TypeCorrect`, `ContextsOnlyAlways`.
  `ContextsOnly` needs `RunOK`: what a run of `aad2Aws` is about to assign carries
  names of which the run has seen a context, and a group that goes keeps its name.
  `WhichApp` says that no run of the other job touches the application of AWS.
- `AwsMapping_proofs`: `TypeCorrect`, `RolesInTurnAlways`. `InTurn` says of every run
  that what the role it serves wants has been had or is still to be asked for, and that
  the roles before it are served. It stays so because the set of what AWS has made, was
  asked for, or has lost since (`Had`) only grows, and because names of groups do not
  change (`StaysInTurn`); that two groups which exist do not share a name
  (`NamesUnique`) makes an assignment found under a name that of the group.
- `GroupFetch_proofs`, about `TokenClient` by itself (`Spec`): `TypeCorrect`,
  `DriftBoundedAlways`, `NotLongExpiredAlways`, `UnfinishedOnlyMeanwhileAlways`. The
  invariant relates three things: how much a token's life can be shorter than the expiry
  any goroutine may still write (the delay of that goroutine), who owns which object,
  and that the object all share is complete unless its owner is still writing.
- The same module, about `FetchSpec`: `ImplementsToken`, that the composition implements
  `TokenClient`, so that its theorems hold here too (`FetchDriftBounded`,
  `FetchUnfinishedOnlyMeanwhile`); `AtMostSizeAlways`, `NeverStuckAlways`,
  `CompleteAfterWaitAlways`, `FinishedAfterWaitAlways`. `SemInv` says that the queue
  holds exactly those who wait, once each, that nobody waits while there is room,
  and that `held` is the number of goroutines that hold, or less after a shutdown:
  when all that are left wait, nobody holds, so there was room. `RunInv` says that
  the wait group is the number of goroutines before their `Done` and that those
  past their fetch are stored or failed. `TokenInv` adds who has a request under
  way: when all are counted off there is nobody left who could be filling in a
  token, and one has been there since the handler's listing (`Provided`).

- `EmailAlias_proofs`: `TypeCorrect`, `SubsHaveMainAlways`, `CcReceivesAlways`, for
  any number of overlapping runs. `RunsFit` says of each run (`Fits`) that the main alias
  of a capability it knows exists unless its turn is still to come, so that all exist
  when the loop over the sub aliases begins; that it fetches only aliases that have been
  copied; and that it does not remove `CcEmail` and, when it has nobody to add any more,
  sees to an alias that has it. That rests on `Served`, the aliases that have `CcEmail` or
  had it until an administrator took it out: none leaves that set, so whoever saw
  `CcEmail` in an old copy is right about it.

Three theorems assume `Alone`, one runner: with two, what one has cached the other may
delete, and both may create a group, as `capsvc2aad_two` allows for. The orchestrator
runs a job that no route reaches once at a time (`SingleRun`), and `capSvc2Aad` is such
a job; a command started by hand or a rolling update adds a second runner.

Only model-checked: all liveness (`Converges`, `AllSettled`, `DueJobsRun`,
`ShutdownCompletes`), which is out of the provers' reach.

## Not modelled

Wording, metrics and logging; the HTTP endpoints without state; the reading of the
configuration; the decoding of answers, but for what an undecodable one does; calls
of the SCIM, Graph, AWS and Exchange clients that nobody makes, the PowerShell client
among them; the handler of `capability_created`, which is registered nowhere; the
test helpers. Two processes that handle events at once are not modelled either: with
two, a handler that has lost its partition could still write after the new owner has
handled a later event.

## Plan

Done, in this order: `CapSvc2Aad`, `Orchestrator`, `EventLoop` over `Delivery`,
`AwsAuthMap`, `MemberEvents` over `CapSvc2Aad`, `AppAssignment`, `TokenClient`,
`AwsMapping`, `EmailAlias`, `FanOut`, `GroupFetch`, hanging calls in `Orchestrator`,
and theorems about all of them: every safety property a passing run checks is now a
theorem. Worth proving next: what `EventsDecide` becomes with several runners, where a
group may be a duplicate that a later run deletes; and the refinements that would say
what `AwsAuthMap` and `AppAssignment` promise as `Delivery` does for the event loop.
