# A verification project for POPSigner

POPSigner is a key-management service: a *control plane* (Go, PostgreSQL,
Redis) with a dashboard, a REST API and a JSON-RPC signing gateway; a
*secp256k1 secrets engine* that runs as an OpenBao plugin and is the only place
where private keys live; client libraries, among them a Cosmos *keyring* over
that engine; a deployment service that puts rollups (OP Stack, Nitro, POPKins
bundles) on a parent chain; and a Kubernetes operator.

This directory holds TLA+ modules translated from that source, TLC
configurations that check them on small instances, and proofs that TLAPS checks
for every value of the constants. Paths below are relative to the repository's
root; `cp/` stands for `control-plane/internal/`. `PROJECT.json` ties every
definition to the lines it models.

## 1. Inventory

| component | state it keeps | operations | talks to | what is hard | what makes it correct |
|---|---|---|---|---|---|
| deployment life cycle (`cp/bootstrap/{orchestrator,repository,handler,opstack,nitro,popdeployer}`, `cp/handler/popkins`) | `deployments`, `deployment_artifacts`, the `runningJobs` map | create, start, resume, stop, start-up scan, sweep of stale rows, the worker of each stack | PostgreSQL, parent chain, dashboard | status read in one statement and written in another; a map without a lock; cancellation; crash; half-written artifacts | no row left running without a worker; nothing completed without its artifacts; a stop stops; every run ends |
| secrets engine (`plugin/secp256k1`) | `keys/<name>` in storage, the key cache | create, import, read, sign, verify, export, delete, invalidate, cleanup | OpenBao's storage and replication | no lock across storage and cache; a fill that ends after a delete | a served key was stored; a deleted key is gone; only exportable keys are exported |
| key service (`cp/service/key_service.go`, `cp/repository/key_repo.go`, `cp/openbao`) | `keys` table, the engine's storage | create, batch, import, delete, sign, export | both, with no transaction over them | partial failure, lost answers, compensation by name, quota checked early | no orphan keys, no live row without key, a deleted key never returns, the plan's limit |
| keyring library (`bao_keyring.go`, `bao_store.go`, `bao_client.go`) | metadata map, lock and file; keys in OpenBao | new, import, batch, sign, rename, delete, sync | OpenBao, disk | map, file and OpenBao disagree after a failure; two goroutines on one uid | the store is a durable map; an undisturbed uid stands for one key everywhere |
| key migration (`migration/`) | none of its own | import, export, batch | two keyrings | the source is deleted last; a migration back races the deletion | never zero copies of a key |
| webhooks (`cp/service/webhook_service.go`) | `webhooks`, `webhook_deliveries`, goroutines | update, rotate, delete, deliver, retry, count failures, disable | HTTP receivers | a copy of the row is written back over newer ones; count and check are two statements | a dead receiver is dropped for good |
| sessions and authentication (`cp/service/{auth,oauth}_service.go`) | `users`, `sessions` | log in, log out, change password | PostgreSQL, OAuth providers | a login that overlaps a change of password; an ignored failure | a new password closes the old sessions |
| API keys (`cp/service/api_key_service.go`, `cp/bootstrap/orchestrator/apikey_manager.go`) | `api_keys`, a secret in OpenBao | issue, revoke, delete, get or create the deployment key | PostgreSQL, OpenBao | two deployments create a key each; a failed read counts as no key | one live deployment key per organization |
| organizations (`cp/service/org_service.go`, `control-plane/cmd/server/access.go`) | members, invitations, namespaces | invite, accept, cancel, change role, remove, delete; join the shared organization at login | PostgreSQL | counts and roles read early; an invitation used while it is cancelled; a login that aligns a role while a request changes it | owners are the founder or the configured ones; who may demote whom; the team limit |
| contract infrastructure reuse (`cp/bootstrap/nitro`, `cp/bootstrap/opstack`) | `nitro_infrastructure`, contracts on the chain | look up, deploy 22 contracts, save | parent chain, signer | deployments share a nonce; deployment cut off half-way | only whole contract sets are registered and used |
| Kubernetes operator (`operator/controllers`) | custom resources, jobs, a bucket | reconcile, back up, restore | Kubernetes, OpenBao, PostgreSQL | stale cache, failed status updates, pods that start over | applications rest during a restore and come back; OpenBao and database agree |
| rate limits, usage, audit, client certificates | Redis windows, rows | count, issue, revoke | Redis, PostgreSQL, OpenBao PKI | one statement each | a counter loses nothing |
| JSON-RPC gateway, popsigner-lite, pop-deployer, bundles, popctl, SDKs, dashboard | little or none | encode, forward, render | the above | numeric edges in transaction encoding | encodings round-trip |

The components interact through three shared stores. The dashboard and the API
call the orchestrator, which writes the deployment's row; the key service calls
the engine over HTTP and writes its own rows before or after; a worker of the
deployment service signs with keys of the key service. `PROJECT.json` lists the
hazards at the lines where they bite and the property that covers each.

## 2. Modules

A component has a specification, an `MC` module that gives TLC the symmetry it
may use, and a `Proofs` module that extends the specification (the proofs about
`Infrastructure` are in `DeploymentsProofs`, whose workers deploy it). The step of
every module is what the program does without another actor in between: one
database statement, one request, one access under a lock, one command of a script.

Five abstract specifications say what a component promises to somebody who does not
see its requests. The component instantiates each with a refinement mapping, TLC
checks it as a property, and TLAPS proves it:

| abstract | implemented by | property | theorem |
|---|---|---|---|
| `Lifecycle` | `Deployments` | `IsALifecycle` | `DeploymentIsALifecycle` |
| `Ledger` | `KeyService` | `KeepsALedger` | `ServiceKeepsALedger` |
| `DurableMap` | `Keyring` | `StoreIsDurable` | `StoreImplementsDurableMap` |
| `Membership` | `Organization` | `ServesMembership` | `ServiceIsMembership` |
| `Catalogue` | `Infrastructure` | `ReuseIsACatalogue` | `ReuseImplementsCatalogue` |

### Deployments and Lifecycle

One row of `deployments` and everybody who moves it; rows of different
deployments share no state that the model keeps.

*State.* `row` (status, `current_stage`, whether there is an `error_message`,
whether `updated_at` is younger than thirty minutes), `stack`, `artifacts`,
`onchain` (stages whose work has been done at least once), `jobs` (the
`runningJobs` entry of this id), `stopper` (a `StopDeployment` between
`cancel()` and its update), `startup` (the scan of `main.go` is still to come),
and for every goroutine its program counter, its stage, whether its context is
cancelled, and whether its caller will record an error. `excused` is a history
variable: the last thing that happened to the row was a failed statement or a
crash.

*Actions.* Each database statement of the code is a step, since PostgreSQL
serialises statements and nothing serialises the goroutines in between.
`ApiCreate`, `FormCreate`, `ApiStart`/`ApiMarkRunning`,
`DeploymentResume`/`ResumeReset`/`ResumeClear` and `ProcessPendingDeployments`
are the ways in; `Enrich`, `SaveConfig`, `MarkRunning`, `Register` and
`CallerError` are `StartDeployment`; `Load`, `RunStage`, `PipelineDone`,
`SaveArtifacts`, `NitroSaveArtifacts`, `MarkComplete`, `MarkFailedError`,
`MarkFailedStatus`, `WorkerError` and `Cleanup` are the worker, with the
differences between the stacks in `Pipeline`, `ArtifactsOf` and the disjuncts;
`StopDeployment`/`StopMarkPaused`, `MarkStaleDeploymentsFailed`, `Age` and
`Crash` are the rest. A statement issued with the worker's context fails once
that context is cancelled (`CtxFails`); the last error handler has a context of
its own. Two goroutines may be admitted for the same row: the handlers read the
status in one statement and write it in another, as the code does.

*Left out.* What a stage computes, so that any stage may fail for any reason;
the table of single transactions; operations of `StateWriter` no caller uses;
the work directory and the shared artifact cache. Adjacent progress reports
made while artifacts are written are one step.

*Lifecycle* keeps status, whether there is a message, whether all the work is done
and delivered (`Backed`), whether anybody is busy (`~Quiet`), and `excused`. Whoever
is busy may do almost anything with the status, but the last one to leave does not
leave it running, or failed without a message; "completed" needs the work done, and
work is never undone. Nobody else moves it, except its creation, a start, the sweep.

### KeyEngine

*State.* `storage` and `cache` by name, the program counter, operation and
entry in hand of every request, `foreign` (names another node has written
and whose invalidation has not arrived) and three histories.

*Actions.* `Begin`, then `Lookup`, `Fetch`, `Fill` and `Serve` for `getKey` and
its callers, `Check`, `Put` and `CacheNew` for create and import, `Erase` and
`Uncache` for delete, `ForeignWrite` and `Invalidate` for replication, `Restart`
for shutdown and start. Each storage call and each access to the cache is a
step, because the lock of the cache covers only single accesses. Reading,
signing, verifying and signing an EVM transaction differ only in what they
compute from the entry, so they are one operation, `use`. `pathKeyDelete` takes the
entry out of the map (`plugin/secp256k1/path_keys.go:177`) and does nothing to the
object; `deleteKeyFromCache` and `clearCache`, which zero it, are called by tests only
and are not modelled.

### KeyService and Ledger

*State.* `rows` (name, key, deleted), whether the `namespace` exists, `bao` (the
engine's storage by name), and for every call its program counter, name, key in
hand and row id. `imported` is the history of keys that came from outside.

*Actions.* `Begin` (quota and namespace), `Prepare` and `Put` (the engine's side
of create and import), `Insert` with the unique indexes and the foreign key as
`Conflict` (`NameTaken`, `AddressTaken`), `Cleanup` (the compensation), `BeginDelete`, `Erase`, `SoftDelete`,
`DeleteNamespace` with its cascade, `Crash`. `CreateBatch` is several creates at
once. A request to OpenBao whose answer is lost may or may not have been
executed (`Request`).

*Left out.* Signing, its quota and usage counting, export, the audit log, rows
of older versions without a `BaoKeyPath`. The engine's cache is the subject of
`KeyEngine`; here a name stands for what storage has under it.

*Ledger* sees table and storage and no request: a key that nobody brought from
outside is stored under one name, before it has its only row, and has left storage
when that row is marked deleted; live rows differ in name and key; nothing is
entered once the namespace is gone. What is stored may be removed at any time: the
code does that (`reused_name`), and no ledger of it can promise more.

### Keyring and DurableMap

One process whose goroutines use a `BaoKeyring`, the `BaoStore` under it, the
engine that holds the private keys, and the local keyring on the other side of a
migration.

*State.* `mem`, `dirty`, `file`, `tmp` and `lock` are the store; `bao` is the
engine's storage and `local` the local keyring; each call has its program
counter, operation, uid and the key in hand. `disturbed` is a history: uids that
two calls changed at once, that were renamed, that a fault hit half-way, or whose
exported copy was moved on before the export ended.

*Actions.* `Create` and `Import` go through `Check` and `Put` (the engine looks
and then stores), `Save` (the store's map), `Write` and `Swap` (`syncLocked`:
temporary file, then rename), and `Cleanup` when saving failed; `Delete` through
`Erase` and `Forget`; `Rename` changes the store alone; `Sync` is `Sync` and
`Close`; `Export`, `Read`, `Store`, `Verify` and `Drop` are the migrations.
`LosePut`, `LoseErase`, `LoseCleanup`, `FailSync` and `Crash` are the failures.
A batch is several calls.

*DurableMap* says what a metadata store is for: a map in memory, a file that
always holds a whole map, and a flag that an operation is acknowledged only when
the file has it. `StoreIsDurable` is its specification with `map <- mem`,
`saved <- file`, `clean <- ~dirty`.

*Left out.* Reading, listing and signing, which change nothing, apart from the
test signature of an import.

### Webhooks

*State.* The `row` of one webhook (configuration, `enabled`, failure count), for
every request of its owner and every delivery the next step and the `copy` of the
row it will write back, the attempts made, whether a delivery has been recorded,
and whether the receiver is `down` for good. `slipped` is a history: since a
failure was last counted, the webhook was enabled again, or a crash or an error
cut off the check.

*Actions.* `Edit` and `Rotate` read and `Update` writes back, as the code does;
`Delete`; `Deliver` and `RetryDelivery` start a delivery, whose steps are
`Send`, `Record`, `Reset` after a success, `Count`, `Recheck` and `Disable`
after a failure; `Fail`, `Crash` and `GoDown`.

*Left out.* Payloads, signatures and backoff times. Counts above the limit are
kept one above it, since the code asks only whether the limit is reached.

### Operator

*State.* The replicas asked for and the `pods` of the applications, the keys in
OpenBao and in the database, `Status.Phase` of the backups and of the restore, the
components each of them names (`parts`), where the pod of each job is and how many of
its pods have `failed`, and what the bucket holds. `meddled`, `misread`, `fresh` and
`moved` are histories.

*Actions.* One per pass of a controller (`StartBackup`, `EndBackup`,
`BeginRestore`, `AwaitStopped`, `RunRestore`, `FollowJob`, `StartApps`,
`Refuse`, `ClusterReconcile`) and one per command of a job's script
(`SaveSnapshot`, `Dump`, `RestoreSnapshot`, `Load`, `PodFails`); `Skip` is the
`grep` on `COMPONENTS` that passes over one the object does not name. A pass whose
status update fails has done the rest of its work; a job the cache does not show
yet is created again, which the API server refuses and the pass takes for a failure.
A Get that fails is not handed on: a Deployment that cannot be read is not scaled
(`operator/controllers/restore_controller.go:181`) and counts as stopped and as ready
(`:237`). `Kubelet`, `Call` (the applications change a key, also while
they terminate), `Disaster` and the creation and deletion of the objects are the
environment. The applications are the API and the dashboard, the two Deployments a
restore scales. The RPC gateway (`operator/controllers/cluster_controller.go:93`),
which no restore stops, goes on running throughout; it changes no key and no row of
one, so it has no part in the model.

*Left out.* The data layer's own creation, unsealing, certificates, monitoring. The
component `secrets`, which a backup may name and no restore reads.
Tenants: they wait for a cluster phase (`operator/controllers/tenant_controller.go:55`)
that no controller ever assigns.

### Organization and Membership

*State.* Whether the configuration makes it the `shared` organization, the roles of
the users, the pending invitations with user and role, and for each request or login
its program counter, actor, target, the role it gives, the invitation it is about and
what it has read (`tally`, `seen`, `power`). `barred`, `current` and `uncounted` are
histories.

*Actions.* `InviteMember` with its four reads and `Insert`; `AcceptInvitation`
and `Commit`, the one transaction, which at READ COMMITTED does not lock what it
has read; `CancelInvitation`/`DeleteInvitation` and `Expire`; `RemoveMember` and
`UpdateMemberRole` with `GetMember`, `GetMemberRole` and `Write`;
`Delete`/`DeleteAll`. `JoinSharedOrg` is `joinSharedOrg`
(`control-plane/cmd/server/access.go:140`), which every login runs when a shared
organization is configured: `ReadOwn` reads the user's membership, `AddMember` inserts
who has none, with the owner's role for the e-mails of `auth.owner_emails` and the
default role for everybody else, and `AlignRole` writes the role of a member when one
of it and the configured one is the owner's and the other is not. A request that fails
half-way leaves nothing, because each has one write; so failures are no steps of
their own.

*Left out.* Changes of name, creation of namespaces. The deletion of a namespace with
its keys is in `KeyService`. A login raises the shared organization's plan to
Enterprise before it joins (`access.go:161`), so that a shared organization starts
without a limit here; nobody lowers the plan. When the shared organization has been
deleted the next login founds another one, which is a new `Init`; what a login does
that has read the old one is modelled.

*Membership* has the organization's standing, everybody's rank, what the door gives
to each who comes to it (`entry`, the configured role), and the offers that
are out: pending invitations, those being accepted and logins under way
(`Outstanding`). Everybody but the founder joins by an offer and with the rank it
names, the owner's rank is given and taken at the door alone, and after the end there
is nobody. One thing it has to allow: a request that read a member before their login
made them an owner writes afterwards, and demotes or removes somebody whom the
configuration makes owner again, although `UpdateMemberRole` and `RemoveMember` both
refuse to touch an owner.

### Credentials

*State.* The user's password as the number of its changes, the password each
session was opened with, sessions that have expired; of each API key whether its
row is unused, live or dead, and which key OpenBao stores; for each call what it
has read. `spared`, `astray` and `late` are histories.

*Actions.* `Login` and `HandleCallback`, then `CreateSession`;
`ChangePassword`, `UpdatePassword`, `DeleteAllForUser`; `Logout`, `LogoutAll`,
`Expire`, `ValidateSession`; `GetOrCreateForDeployment` with `Validate`,
`DeleteStoredKey`, `Create` and `StoreKey`; `Revoke`; `Fail`.

*Left out.* Registration, e-mail verification, the allowlist, linking of
accounts; scopes and expiry of API keys.

### ParentChain, Infrastructure and Catalogue

`ParentChain` is what the chain's node, which is external, and the registry hold, and
what is said of them; `Infrastructure` extends it with the deployments and the node's
steps.

*State.* `registry` (the `RollupCreator` the database remembers for the chain),
the node's `pool` of waiting transactions and those `mined` with the status of
their receipt, and for each deployment its next step, sender, nonce, gas price
and the addresses it has. `lost` is a history.

*Actions.* `Look` and `Ensure` ask the registry; `ReadNonce`, `Send`, `Receive`
are the loop over the contracts, the rollup and the optional transactions;
`Save` registers; `GiveUp` is every error. `Mine` and `Forget` are the node,
which is external: it orders by nonce, replaces a transaction by one of a higher
price, reverts and forgets.

*Left out.* The OP Stack's reuse, whose contracts `op-deployer` sends; versions.
The 21 contracts the creator refers to are `Parts` many, and one optional
transaction stands for those of batch posters and WETH.

*Catalogue* has the sites where something whole stands, the one registered entry and
the sites that have been used: only a whole site is registered or used, and the
entry never vanishes.

## 3. What is checked

| run | configuration | instance | shows |
|---|---|---|---|
| `deployments` | `MCDeployments.cfg` | 2 goroutines, 3 stacks, 1 failed statement, 1 crash | `RunningIsOwned`, `CompletedIsBacked`, `JobIsLive`, `FailedIsExplained`, `CancelledMakesNoProgress` |
| `deployments_live` | `MCDeploymentsLive.cfg` | 2 goroutines, bundle, 1 crash, with fairness | `CompletedIsFinal`, `EveryRunEnds`, `IsALifecycle` |
| `key_engine` | `MCKeyEngine.cfg` | 2 requests, 1 name, 2 keys, a second node | `TypeOK`, `Coherent`, `OnlyStoredKeysAreServed`, `OnlyExportableIsExported` |
| `key_service` | `MCKeyService.cfg` | 2 calls, 3 rows, 3 names, 3 keys, limit 1, 1 fault | `DeletedKeyIsGone`, `NoOrphanKey`, `OverrunIsBounded`, `KeepsALedger` |
| `keyring` | `MCKeyring.cfg` | 2 calls, 2 uids, 2 keys, one of them exportable, 1 fault or crash | `TypeOK`, `Settled`, `StoreIsDurable`, `OnlyDeletionLoses` |
| `webhooks` | `MCWebhooks.cfg` | 2 deliveries, 1 request, limit 2, 1 retry, 2 edits, 1 fault, with fairness | `TypeOK`, `FailingIsDisabled`, `DeadReceiverIsDropped` |
| `operator` | `MCOperator.cfg` | 2 keys, 1 backup, 1 restore, of both components or of OpenBao alone, 1 change of a key, 1 fault next to a loss of all data, with fairness | `TypeOK`, `StaysDown`, `RestoredPairAgrees`, `RestoreEnds`, `AppsComeBack` |
| `organizations` | `MCOrganization.cfg` | 3 users, 2 of whom are invited, 2 invitations, 2 requests or logins, limit 2, one configured owner, shared or not | `OwnersAreNamed`, `LimitHolds`, `RemovedStaysOut`, `RanksFallByRight`, `ServesMembership` |
| `credentials` | `MCCredentials.cfg` | 2 sessions, 3 API keys, 2 calls, 2 changes of the password | `TypeOK`, `OldPasswordIsOut`, `OrphansAreExplained` |
| `infrastructure` | `MCInfrastructure.cfg` | 2 deployments with one signer, 1 contract and the creator, 2 gas prices, 4 nonces, 1 fault, with fairness | `CreatorIsWhole`, `ReuseIsACatalogue`, `WaitEnds` |
| `ghost_key` | `MCKeyEngineGhost.cfg` | 2 requests, 1 node | violation of `NoGhostKey` |
| `reused_name` | `MCKeyServiceReuse.cfg` | 1 call, 2 rows | violation of `LiveKeyIsStored` |

The type invariants of `Deployments`, `KeyService`, `Organization` and
`Infrastructure` are proved (section 4), so that no run has to check them.

The last two runs state what a test and a comment of the repository say and what the
code does not do:

- A delete that falls between another request's access to storage and its
  access to the cache leaves the deleted key in the cache, where it goes on
  signing.
- Deleting an already deleted key again removes from OpenBao the private key of
  whichever key has taken over the name.

### What some of the properties say

- `IsALifecycle`, `KeepsALedger`, `StoreIsDurable`, `ServesMembership`,
  `ReuseIsACatalogue`: the refinements of section 2. They say of every step what the
  invariants say of states: how a deployment, a key, a member or a registered
  contract may come, change and go, although no transaction covers the change.
- `Settled`: what a caller may rely on after any history of failed requests,
  failed writes and crashes, for every uid none of them hit half-way.
  `OnlyDeletionLoses`: no step but one of a requested deletion makes the last
  copy of a private key disappear.
- `FailingIsDisabled`: of two concurrent deliveries that count to the limit, one
  always looks after the last count. `DeadReceiverIsDropped`: stale write-backs
  may enable a webhook again, but not for ever.
- `StaysDown`: no failed, repeated or stale pass of the restore controller starts the
  applications while a restore writes; the cluster controller does (`meddled`), since
  it writes the whole Deployment with its replicas, and a read that fails or comes
  late passes for applications that are gone (`misread`). It does not promise that
  nothing runs: the controller asks for `Status.Replicas`, which leaves out pods that
  still terminate, and never stops the RPC gateway. Because of the cluster controller
  `RestoreEnds` has to allow a restore that waits for pods to go.
- `RestoredPairAgrees`: whichever of the files in the bucket are read and however
  often pods start over, a key on which they agree is in OpenBao exactly if it
  has a row - when the restore names both components. One of OpenBao alone
  (`operator/controllers/restore_controller_test.go:143`) leaves keys without rows.
- `OwnersAreNamed`, `RanksFallByRight`, `RemovedStaysOut`, `LimitHolds`: what
  survives roles and counts that are read early, next to logins that write roles
  without asking anybody. `barred` and `uncounted` name exactly the races that break
  the plain statement, `seen` the late request that takes a rank it never saw. As
  `access.go:181` says, a removed member of the shared organization is out until
  their next login.
- `OldPasswordIsOut`, `OrphansAreExplained`: likewise, with `spared` and `astray`.
- `CreatorIsWhole`: deployments that take each other's nonces never register or
  use a half-built set, because each address comes from the receipt of the very
  transaction that was sent. `WaitEnds`: none waits for ever, except for a
  transaction the node has accepted and lost.

### What the code does and the properties allow

The models contain these, and the properties are stated so as to allow them. Of the
first three a comment, an error message or a test of the repository says otherwise.

- After a crash a *running* deployment is not resumed: the start-up scan lists
  pending rows only (`cp/bootstrap/orchestrator/orchestrator.go:330`). It stays
  running until the sweep of the list page fails it.
- Two starts of a deployment, or a start and a resume, can both read a startable
  status (`cp/bootstrap/handler/deployment.go:276`) and launch it twice; a
  resumed OP Stack deployment repeats its finished stages.
- Two creates of a key at once overrun the plan's limit. `OverrunIsBounded` says
  by how many at most: fewer than the requests handled at a time.
- `pg_dump | gzip` runs without `pipefail`
  (`operator/controllers/backup_controller.go:176`): a backup can complete with an
  empty dump. `gunzip | psql` stops at no error either.
- The restore fetches `openbao-*.snap` with `aws s3 cp`, which expands no
  wildcards, and writes one slash more than the backup did. The model takes the
  pattern as the script means it: some snapshot of the bucket.
- Rotating a webhook's secret writes back a row without the secret, and the reset
  of the failure count on enabling has no effect either.
- The password's update does not ask for the hash that was verified; a database
  error while the deployment key is validated counts as an invalid key; nothing
  calls the clean-up of expired sessions.
- Two first deployments on a chain build a set of contracts each, and the second
  overwrites the registry, though `cp/bootstrap/nitro/infrastructure.go:33` speaks
  of contracts deployed once per parent chain; a deployment cut off half-way
  starts all of them again.

### Bounds, and why they are enough

Two goroutines, calls or requests are what every race here needs: one to be
overtaken and one to overtake; a third only repeats the second. (The engine was
also checked with three requests.) One fault and one crash make every partial
failure that a single fault can cause, and a fault next to a crash; the
invariants that depend on faults are proved for any budget. Three of the four stacks are
in the safety run; the fourth, the Nitro bundle, has the actions of the OP Stack
bundle and a longer list of stages, and passes the same run on its own
(`Stacks = {"pop-nitro"}`). The liveness run takes one, the bundle, whose pipeline is the shortest
of them, since the stacks share the loop that liveness is about (`IsALifecycle` also passes on
the instance of `deployments`, in twice the time); it has no failed
statements, because the sweep, which is what ends a run nobody works on, is
retried by the next visit of the list page.
The key service has three rows, names and keys, so that a name can be used,
deleted and used again while another call is under way, and a limit of one so
that the quota matters. One name is enough for the engine, whose requests for
different names touch disjoint entries; two keys tell the old entry from the
new. The engine's counts are bounded by the supply of keys and by nothing else.
The keyring has two uids, so that one can be renamed to the other, and an
exportable and a private key. A webhook fails at two, so that a success can fall
between the first and the last failure, and has two configurations, subscribed or not.
The operator has two keys, one that the files agree on and one that they do not; the
loss of all data is not counted as a fault, so that a pod can still fail after it.
`Lists` has both kinds of restore that differ for `RestoredPairAgrees`. Three users
are the founder, whom the configuration does not name, a configured owner, and a third
one; all of them log in when the organization is shared; two invitations fill the limit and leave one to be
accepted while the other is closed. Three API keys are one to lose, one to replace it and
one of the deployment that overtakes; two changes of the password let a login be
two behind. One part before the creator is enough for a set to be half-built, and
two gas prices for one transaction to replace another; four nonces let both
deployments send a whole part-and-creator between them, and one deployment go on to
its rollup.

Calls, keys, ids and names are interchangeable in the safety runs, which use
symmetry; runs that check liveness do not.

`CHECK_DEADLOCK FALSE` stands where the system may come to rest: a deployment
that is completed, with all bounds used up; a key service whose namespace has
been deleted and which nobody calls; a deleted webhook; a cluster whose restore is
over; an organization that is gone; a chain whose nonces are used up.

### Fairness

`ServerFairness` is the Go scheduler: a goroutine that can take its next step
takes it at last, and the start-up scan is one of the goroutines. It includes the assumption
that stages, requests and statements return, with an error if need be. `DashboardFairness` is an assumption on the
environment: time passes, and somebody goes on opening the list page, because
nothing in the server itself calls the sweep. `EveryRunEnds` needs both.

`Fairness` of `Webhooks` is the scheduler again, for deliveries and requests that
have started, and the assumption that events keep coming, without which a dead
receiver would not be noticed. Nobody has to edit, retry or crash. `Fairness` of
`Operator`: controllers requeue what is not finished, Kubernetes runs pods and jobs,
and the data layer gets ready again, which the cluster controller waits for; all but
the last is asked only of steps that use up no fault (`Smooth`), so nobody owes one.
`FairSpec` of `Infrastructure`: deployments that have started go on, and the chain
produces blocks; that anybody gives up, reverts or forgets is never assumed. All of
it is weak fairness of what one goroutine, controller, pod or chain does next.

## 4. What is proved

All proofs are for every number of goroutines, requests, calls, names, keys and
rows, and every budget of faults and crashes, from the assumptions
the `...Assumption` of each module: the null values are not members of what they
stand for, bounds are numbers, stacks are among the four, what is counted (calls
and row ids of the key service, users, invitations and requests of an organization)
is a finite set.

- **`TypeCorrect`** (every module with proofs): the type invariant. In `KeyServiceProofs` it
  needs `HeldWhere` beside it: a call has a key in hand exactly between
  generating it and the end of its clean-up; in the modules from `Keyring` on it is `TypeInv`,
  which adds what a program counter says of the other fields of its call.
- **`JobIsLiveAlways`**: by `JobInv`, which adds that only workers are ever
  cancelled. The clean-up of one worker may delete another's entry, so the
  entry can be missing, but it never points to a worker that is over.
- **`RunningIsAlwaysOwned`**: `RunningIsOwned` with `JobInv`, one step of the
  proof per action. It rests on the fact that every way out of the worker
  writes the row with a context that cannot be cancelled, or is excused.
- **`FailedIsAlwaysExplained`**: by `ExplainedInv`: a failure without a message has a
  call on its way to another status or about to record its error (`WillSettle`); a
  call on any other path cannot be the last to clear a message or to fail the row.
- **`CompletedIsAlwaysBacked`**: by `WorkInv`: a worker past stage *k* has had
  stages 1..*k* carried out, one past the pipeline all of them, and one about to
  complete the row has the required artifacts. Stages and artifacts only
  accumulate, so workers cannot spoil it for each other.
- **`CancelledNeverProgresses`**: an action property, from the type invariant. It is about
  `StopDeployment`, which the orchestrator exports and no handler of the program calls.
- **`CompletedIsAlwaysFinal`**: a formula over two moments. `Settled`, a completed row
  with nobody at work, survives every step, since from quiet only a creation, a start,
  the sweep, a crash or the passing of time can happen (`QuietStep`), and none of
  them touches a completed row; temporal logic does the rest.
- **`DeploymentIsALifecycle`**: the refinement, from the invariants above. A step from
  quiet is one of `QuietStep`; any other is `Work`, the end of it being in order by
  `RunningIsOwned` and `FailedIsExplained` after the step, a completion backed by
  `CompletedIsBacked`, and no work undone (`Accumulates`). `AbsentInv` says that nobody
  is at work on what has not been created.
- **`OnlyStoredKeysAreAlwaysServed`**: by `StoredInv`, which says the same of
  storage, cache and of every entry in hand.
- **`OnlyExportableIsEverExported`**: from `StoredInv`; the flag an export
  decides on is that of an entry that was stored.
- **`AlwaysCoherent`**: by `CachingInv`: a request about to fill the cache has
  what storage has, or the name is in `raced`.
- **`DeletedKeyIsAlwaysGone`**: by `GoneInv`: a generated key belongs to one call,
  one row or one name at a time (`OwnedByOne`), and a deletion that has passed
  OpenBao has removed the key of its row (`Deleting`).
- **`OverrunIsAlwaysBounded`**: by `AdmittedInv`: live rows and calls past the
  quota check together stay below limit plus calls, with lemmas on
  cardinalities.
- **`NoKeyIsEverOrphaned`**: by `OrphanInv`: while nothing failed, what is stored
  under a name has its row (`Known`) or a call that will insert the row or clean
  up (`Settling`).
- **`ServiceKeepsALedger`**: the refinement, from `GoneInv`. `Prepare` is `Bring` or
  nothing, `Put` is `Store`, `Insert` is `Enter`, `Cleanup` and `Erase` are `Remove`,
  `SoftDelete` is `Retire`, `DeleteNamespace` is `Close`; `OwnedByOne` gives the guards
  of `Store` and `Enter`, `Deleting` that of `Retire`.
- **`LedgerKeepsDeletedKeysOut`**: `Ledger` alone implies `DeletedKeyIsGone`, so the
  abstract specification promises no less than the invariant.
- **`StoreImplementsDurableMap`** (`KeyringProofs`): the refinement. `LockInv` says
  that whoever is between lock and rename holds the lock, and that the temporary
  file then is the map, so `Swap` is `Persist`, `Crash` is `Restart`, every change of
  the map is `Change`, and all else stutters.
- **`AlwaysSettled`**: by `SettledInv`: an undisturbed uid has at most one call
  working on it, and map, file and engine differ by exactly what that call has done.
- **`OnlyDeletionAlwaysLoses`**: an action property from `SettledInv`: an export that
  is about to erase has its copy in the local keyring, an import that is about to drop
  has it in the engine.
- **`FailingIsAlwaysDisabled`** (`WebhooksProofs`): inductive with `CopyInv`, that a
  delivery only ever writes back a disabled webhook.
- **`AlwaysStaysDown`** (`OperatorProofs`): by `PhaseInv`, which ties the phase of the
  restore to its job and to the replicas asked for.
- **`RestoredPairAlwaysAgrees`**: by `PairInv`: OpenBao is what one of the snapshots
  says, once a job that names it has come to the database; the database is empty or
  what the dumps agree on.
- **`OwnersAlwaysAreNamed`** and **`RanksAlwaysFallByRight`** (`OrganizationProofs`): by
  `RoleInv`: a request past its read of the target is about an owner only when the
  configuration made them one since; one past its checks is an owner's or has seen a
  role below admin; a login that writes a role has seen the owner's and gives another,
  or the other way round.
- **`RemovedAlwaysStaysOut`**: by `BarredInv`: no invitation of a barred user is pending
  or being accepted, and no login of theirs may still insert a row.
- **`ServiceIsMembership`**: the refinement, from `RoleInv`: the write of a removal or
  change of role is `Change` because its target is no owner, or one the configuration
  makes owner again; `Commit` and `AddMember` are `Join` when they add a member, since
  the invitation or the login under way still is an offer; `AlignRole` is `Align`.
- **`LimitAlwaysHolds`**: by `LimitInv`, unless it is shared: a request nobody overtook has counted at least
  what there is, with lemmas on cardinalities of the seats.
- **`OldPasswordIsAlwaysOut`** and **`OrphansAreAlwaysExplained`** (`CredentialsProofs`):
  the first is inductive with the types; the second rests on `NotLateInv`: a deployment
  that nothing made late knows what OpenBao holds.

- **`InfraTypeCorrect`**, **`CreatorIsAlwaysWhole`** (`DeploymentsProofs`, about an instance
  of `Infrastructure`): by `ReuseInv`: whatever a deployment has in hand
  (`Supplied`) and whatever a sent transaction refers to (`Sound`) stands for a
  mined transaction of the right step, because an address is read from the receipt of
  the transaction that was sent, and what is mined stays.
- **`ReuseImplementsCatalogue`**: the refinement, from `ReuseInv` and `BuiltInv`: the
  sites where something whole stands are those of the mined creators, so that mining is
  `Build`, `Save` is `Register`, a rollup mined is `Use`.
- **`OneContractPerAddress`**: by `UsedInv`: a mined nonce is below the sender's count,
  so no second transaction of that nonce is mined; addresses are functions of both.

Only model-checked: the liveness properties `EveryRunEnds`, `DeadReceiverIsDropped`,
`RestoreEnds`, `AppsComeBack` and `WaitEnds`, which rest on fairness and ENABLED and
are out of the prover's reach. Every other property of a passing run is proved.

## 5. Abstractions a reader should know of

- A database statement that fails has not been executed. A commit whose answer
  is lost is not modelled; a request to OpenBao whose answer is lost is.
- A late execution of an OpenBao request is the same as a late answer, because
  the service does nothing after such an error.
- `StopDeployment` is modelled as the orchestrator exports it, although nothing in the
  program calls it, so that the life cycle holds for whoever will.
- `JobIsLive` says that an entry of `runningJobs` is a worker's that runs. The converse
  fails: the clean-up of one of two workers deletes the other's entry.
- The parts of the contract infrastructure refer to each other in the code; `Needed`
  gives the creator all these references. The parts are sent in the
  code's order, each after the receipt of the one before, but a reference of one part
  to a wrong one would show only in the creator.
- A history variable that excuses a race (`raced`, `disturbed`, `slipped`, `meddled`,
  `misread`, `uncounted`, `spared`, `astray`) marks what the code does get wrong. The
  property beside it says that nothing else goes wrong, not that the race is harmless.
- Concurrent access to `runningJobs`, which Go answers by aborting the process,
  is the `Crash` action; otherwise accesses to the map are atomic.
- A restart of the plugin ends every request at once; what a request answers
  while `cleanup` runs is not seen.
- A generated key is new. An imported one need not be, so `DeletedKeyIsGone`
  speaks of keys that were not imported.
- The commands of the operator's scripts are atomic, and what applications change
  while a snapshot and a dump are taken falls between the two.
- An id, a name of a file or a token is never drawn twice; sessions' ids are, since
  that only makes the property stronger.
- A chain does not reorganise; what is in a block stays there.
- The invalidation of a name arrives some time after the write of the other
  node, and never without one.

## 6. Not modelled, and the plan

Not modelled, and why:

- *Rate limiting*: windows in Redis, counted by one script or pipeline per request
  and open when Redis fails. There is nothing between two steps of it.
- *Usage metering and audit*: one statement per event whose error is dropped, so that
  nothing can be promised of the sums. *Signing* in the key service changes only these;
  its quota is read before and is as early as the quota of keys.
- *Client certificates*: rows with one statement each over an external PKI.
- *JSON-RPC gateway, popsigner-lite, pop-deployer, bundles, popctl, SDKs, dashboard*:
  encoding, rendering and forwarding; sequential, without state of their own.
- *Files of the workers*: the shared artifact cache and work directory are within a
  stage, which may fail for any reason.
- *Tenants, monitoring and the data layer* of the operator: idempotent creation of
  objects.

Next, in this order:

1. Signing and the signature quota in `KeyService`.
2. Abstract specifications of `KeyEngine` (create, import and delete atomic, implemented
   when requests for a name do not overlap), `Webhooks`, `Credentials` and `Operator`.
3. Transaction encoding (`v`, chain ids, length prefixes) as operators checked against
   a reference definition.

## 7. Running it

    tlc -workers 2 -config MCDeployments.cfg MCDeployments
    tlapm DeploymentsProofs.tla

and likewise for the other configurations and proofs.
