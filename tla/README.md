# A verification project for db-operator

db-operator is a Kubernetes operator. It watches three kinds of resources and
keeps a SQL server in step with them:

* a **DbInstance** names a database server (a generic postgres or mysql server,
  or a Google Cloud SQL instance that the operator creates);
* a **Database** asks for a SQL database and a main user on such an instance, and
  for a Secret with the credentials;
* a **DbUser** asks for one more SQL user with access to a Database.

This directory holds TLA+ models of the three controllers, written from the Go
code, the TLC configurations that check them on small instances, and TLAPS
proofs of the main safety properties for every value of the constants.
`PROJECT.json` is the index: which definition models which lines (`map`), what
each run checks, which hazard each property is aimed at, what is proved.

## 1. Inventory

### Parts, their state and their operations

| Part | Source | State | Operations |
|---|---|---|---|
| Database controller | `internal/controller/database_controller.go` | none of its own; a working copy of the Database and of its Secret during one reconcile | health check, `isFullReconcile`, Secret, `createDatabase`, six handlers of dependent objects, `handleDbDelete`, `manageError` |
| DbUser controller | `internal/controller/dbuser_controller.go` | working copies of a DbUser and of its Database | SQL role: create, update, permissions; finalizers on two objects; deletion |
| DbInstance controller | `internal/controller/dbinstance_controller.go` | working copy of the DbInstance | validation, `create`, `broadcast`, `createProxy`, deferred status update |
| Instance backends | `pkg/utils/dbinstance` | the Cloud SQL instance, outside | exists, create, update, wait until runnable, admin password, `getInfoMap` |
| SQL operations | `pkg/utils/database` | databases, users and roles on the server | create/delete database, create/update/delete user, permissions, `CheckStatus` |
| Custom resources | `api/v1beta1` | finalizers, deletion mark, annotations, spec, status | read, `Update`, `Status().Update` |
| KubeHelper | `internal/helpers/kube` | labels and owner references of dependent objects | `ModifyObject`: create, claim, own, update, release |
| Credential templates | `internal/utils/templates`, `pkg/utils/templates` | keys of the credentials Secret and the info ConfigMap | render, add, remove |
| Backup job | `internal/controller/backup` | the CronJob | build |
| Admission webhooks | `internal/webhook` | – | default template, exclusion of the two kinds of templates, checks of one object |
| Change detection | `internal/helpers/common` | the annotations `checksum/spec` and `checksum/secret`, `Status.Checksums` | compare, record |
| Database helper | `internal/helpers/database` | – | connection data, credentials from a Secret |
| Proxy, names and passwords, metrics | see `components` | – | build or check one object |

### How they interact

The three controllers run as goroutines of one process with one worker each.  They
never call each other. They meet in shared state:

* **the API server.** The DbUser controller writes its finalizer into the *Database*, so
  two controllers update that object, each from a copy it read at the start of its
  reconcile. The DbInstance controller blanks `checksum/spec` on Databases. The
  API server refuses a write from an outdated copy (`resourceVersion`), keeps an
  object that is marked for deletion until its finalizers are gone, and keeps
  status and the rest apart (`Update` does not write the status, `Status().Update`
  writes nothing else). An `Update` also answers with the stored object, which
  replaces the status the caller has in memory.
* **the SQL server**, which knows nothing of versions.
* **the credentials Secret**, written by the Database controller and by people, and by the DbUser
  controller where `secretName` collides. The labels `used-by-kind` and `used-by-name` say whose
  an object is, owner references let the garbage collector of Kubernetes delete it.
* **finalizers**: `db.<name>` on the Database holds it until the SQL database is
  dropped, `dbuser.<name>` on the Database holds it while a DbUser refers to it,
  `dbuser.<name>` on the DbUser holds that one until its role is dropped.

### What is hard here

* A reconcile is a chain of ten to fifteen remote calls. Each can fail, succeed
  without the answer arriving, or be the last one before a restart; the next
  reconcile starts from what was stored, which is not what was in memory.
* Decisions are made on a copy and carried out several calls later.
* Several facts are stored in two objects, one after the other.
* "Ready" is stored in a status, the work is on another server.
* An error must be retried, and the retry must be able to succeed.
* Objects are claimed by two requests (labels, then owner reference) and released by one that
  leaves the owner reference, after the finalizer is gone.
* Grants are made on the server first and written down in the status afterwards.

`hazards` in `PROJECT.json` lists these at the lines where they bite.

### What makes each part correct

* **Database**: ready implies that the SQL objects and the finalizer are there;
  nothing in use is dropped; the finalizer goes only after the drop; it converges
  to spec and Secret; its deletion ends.
* **DbUser**: created implies that the Database is held; becomes ready; its
  deletion ends.
* **DbInstance**: ready implies provisioned; settles on the checksums of the last
  configuration, and on its connection data unless it was changed and put back during one reconcile;
  its Databases follow it to another server; no Database is set up on a rejected
  one.
* **Dependent objects**: only the resource named on an object writes it; credentials survive
  templating; in the end the objects are there, owned and templated as the spec says; a deletion
  releases them, and is not blocked by them.
* **Extra grants**: what is recorded is what the users can do; in the end the list is applied.

## 2. Modules

```
Cluster  <-  SqlServer  <-  DatabaseController  <-+
                        <-  DbUserController    <-+-  Operator  <-  OperatorInv  <-  OperatorProofs  <-  SafetyProofs
                                                                        ^
             Lifecycle  <- - - - - - - (INSTANCE) - - - - - -  Refinement  <-  MCOperator
                                               SafetyProofs, Refinement  <-  RefinementProofs  <-  FinalizerProofs
KubeHelper  <-  Dependents  <-  MCDependents,  DependentsProofs
Grants  <-  MCGrants,  GrantsProofs
InstanceController  <-  MCInstance,  InstanceProofs
```

| Module | Models |
|---|---|
| `Cluster` | API server: one Database, its DbUsers, the Secret, optimistic locking, finalizers, status subresource; what people do to the resources |
| `SqlServer` | the functions of `pkg/utils/database` with every error path, for both engines (`Postgres`) |
| `DatabaseController` | the Database reconciler, one action per call another process can observe |
| `DbUserController` | the DbUser reconciler, likewise |
| `Operator` | both controllers, people and restarts together; fairness; the properties |
| `OperatorInv` | the inductive invariant |
| `OperatorProofs`, `SafetyProofs`, `RefinementProofs`, `FinalizerProofs` | the proofs about `Operator` |
| `InstanceProofs`, `DependentsProofs`, `GrantsProofs` | the proofs about these components, with their inductive invariants |
| `InstanceController` | the DbInstance reconciler, the two backends, and what a Database reconcile has to do with the instance |
| `Lifecycle` | the abstract promise: a SQL database is guarded before anybody relies on it, and dropped only on request and after its last user |
| `Refinement` | the mapping from `Operator` to `Lifecycle` |
| `KubeHelper` | `internal/helpers/kube`: a reconcile as the sequence of its calls on objects, with labels, owner references and versions |
| `Dependents` | what the Database and the DbUser controller do with Secret, ConfigMap and CronJob, both kinds of templates, the default of the webhook, the garbage collector |
| `Grants` | `.spec.extraGrants`, `.status.extraGrants` and the privileges on the server, one statement per step |
| `MCOperator`, `MCInstance`, `MCDependents`, `MCGrants` | model values for TLC |

### State and code

* `db`, `du[u]` are the objects as stored; `dbcr`, `ucr`, `udb` are the working copies
  with the names the Go code uses (`udb` is the `dbcr` of the DbUser controller). A
  stored status and a status in memory are different variables, because the code
  often changes the second and loses it.
* `fresh`, `uFresh`, `iFresh`, `listed`, `placeOk` stand for `resourceVersion`: TRUE
  while nobody has changed the object since the copy was taken. One bit is enough,
  because a controller has one copy at a time and never writes an older one.
* `db.users` is the set of finalizers `dbuser.<u>`, `db.own` the finalizer `db.<name>`.
  `db.name` says that `Status.DatabaseName` and `Status.UserName` are set: they are
  set together, and their value never changes.
* A checksum is modelled by the value it is computed from: equal checksums are equal
  values.
* `dpc`, `upc`, `ipc` are where the reconcile is. A guard `dpc = "addFinalizer"` is the
  point in the Go function; the actions of one reconciler are in the order of the code.
* `ok` is the error result of a Go function. `Fault` charges a failure to the budget.
  A call that changes something has three outcomes: done, failed without effect,
  and failed after it took effect; in the last case the caller's copy is outdated.
* `config` in `InstanceController` is the spec of the DbInstance with the data it refers
  to; `inst` is its stored status, `icr` the status in memory, `cloud` the Cloud SQL
  instance. `dbs[d]` keeps of each Database the state of its `checksum/spec` annotation
  and the servers on which it was set up.

* `todo[c]` in `KubeHelper` is what the reconcile of resource `c` still has to call; a `Call` names the
  operation, the object, and how many calls the code leaves out if the object does not exist.
  `cur[c]` are the copies in memory that are still the latest version. `Calls` spells out the two
  paths of the two reconcilers; what they do on the SQL server is a call that may fail.
* `res[c]` is the resource: its `uid` tells a re-created one from its predecessor, which is what owner
  references and the garbage collector go by.
* `spec`, `recorded` and `granted` in `Grants` are `.spec.extraGrants`, `.status.extraGrants` and
  the privileges on the server; `revokes` and `grants` are the rest of the two loops.
* The refinement maps `db.own` to `guarded`, `db.users` to `pins`, `sqlDb` to `stored`, and the stored Database
  to absent, declared or deleting.

### Steps that are not obvious

* `Update(c, o, ok)` keeps the stored status and `WithStatus(o, db)` puts the stored
  status into the working copy, as the client does with the answer. This is
  why `name` is set in memory after `UpdateAgain` and not before.
* `PutSecret`: when `Create` answers "already exists", `ModifyObject` reads and labels the
  existing Secret and drops the new content; the reconcile goes on with the password
  it has generated. `SecretGenerated` includes the client's cache that lags behind.
* `DeleteDatabase` and `DeleteMainUser` contain a success without any effect: on postgres
  `isRowExist` answers "no" when the query fails.
* `ReconcileMissing` and `ReconcileMissingUser` are the requests for an object that is gone:
  they change nothing, and they stand in the specification so that an empty cluster
  is not a deadlock. Deadlock is checked in every run.
* `WriteLegacy`: after `ModifyObject` worked on a deep copy, `createTemplatedSecrets` updates the Secret once
  more from the copy it had before. If the helper changed anything this is a conflict, and the
  reconcile after it goes on.
* `Rendered` takes nothing out of the Secret: `Render` of an empty list leaves the data as it is.
* `RevokePermissions` of `Grants` has an outcome without effect: a failed existence check counts as
  "no such user". The flag `lost` remembers it.
* `EditSpec` of `Grants` with `Patient` waits for the status to hold the last list. Without it an entry can be
  removed between its grant and its record, which is the finding of run `impatient`.
* The DbUser controller compares checksums that nothing stores, so every reconcile is a
  full one; the model has no second kind.

## 3. Runs

Passing runs:

| Run | Question |
|---|---|
| `lifecycle` | mysql, one DbUser, 3 edits, 1 fault, fair: `TypeOK`, `ReadyDatabaseIsBacked`, `CreatedUserPinsDatabase`, `DropOnlyUnreferenced`, `FinalizedOnlyAfterDrop`, `DeletionCompletes`, `UserDeletionProgress` |
| `sharing` | postgres, two DbUsers (one of an existing role), `--check-for-changes`, 3 edits, 1 fault: the whole inductive invariant `Inductive` and the refinement `ImplementsLifecycle` |
| `rotation` | postgres, two passwords, two specs of which one is deletion-protected, a DbUser of an existing role, `--check-for-changes`, 2 edits, 1 fault, fair: `Converges`, `DeletionCompletes` (also when the Secret is removed during the deletion), `ExistingUserBecomesReady` |
| `instance` | a generic server or Cloud SQL, two Databases, three configurations of which one is invalid, 2 edits, 2 faults, fair: `InstanceTypeOK`, `ReadyInstanceIsProvisioned`, `DatabasesOnAcceptedServers`, `InstanceSettles`, `InfoFollowsConfig`, `DatabasesFollow` |
| `dependents` | a Database and a DbUser of another one with the same `secretName`, 2 events (failures, lost answers, restarts, edits, deletions, re-creations), fair: `DependentsTypeOK`, `OnlyOwnerWrites`, `CredentialsKept`, `DependentsConverge`, `DeletionReleases`, `UserReleaseCompletes` |
| `grants` | postgres, two users, 3 edits of the list, 2 faults, patient people, fair: `GrantsTypeOK`, `RecordedMeansApplied`, the inductive invariant `GrantsInv`, `GrantsApplied` |

TLC visits 175,386, 628,487, 272,429, 383,952, 246,327 and 42,460 distinct states in these runs, each
in at most three minutes with two workers.

Runs that TLC must refute, each a disagreement between the code and something the
repository says of it (`findings` quotes the lines):

| Run | What happens |
|---|---|
| `orphan` | A Database is deleted after its finalizer and before its names are stored. On postgres `deleteDatabase` then works with an empty name, succeeds, and the finalizer is taken off while the SQL database stays. (On mysql the same state makes the deletion fail in every retry, which is why `DeletionCompletes` asks for stored names on mysql.) |
| `failed_drop` | The existence query of the drop fails, the drop is reported as done, and the finalizer goes. |
| `user_ready` | `CreateUser` succeeds, the finalizer on the Database conflicts with the Database controller, and from then on `CreateUser` finds that the user exists, for ever. |
| `user_deletion` | The Database goes away while a DbUser has its own finalizer only; the DbUser reconciler needs the Database and the DbUser can never be deleted. |
| `broadcast` | A Database changes between the list and the update of the broadcast. `Status.Status` is stored as true and the phase stays `Broadcasting`: later reconciles see equal checksums and do nothing. |
| `impatient` | An entry of `extraGrants` is removed from the spec after the reconcile has read the list, before or after it is granted, and before the status is stored. The status update conflicts, and the next reconcile finds the entry in neither list: nothing revokes it. |

### Where the code does more than its documentation says

Three passing properties assert what a document or a comment denies. The model follows the code;
`findings` quotes the lines.

* `DeletionCompletes`: `documentation/docs/database.md:123` and `documentation/docs/index.md:159` say that a Database cannot be removed once its
  Secret is gone. `deleteDatabase` takes the names from the status and needs no Secret, so the
  deletion ends; in `rotation` people remove the Secret at any time of it.
* `DeletionCompletes`: comments at `database_controller.go:367` and `:438` say that a failed creation or deletion is
  not requeued. Both return through `manageError` with a `RequeueAfter` of 60 s.
* `InstanceSettles`: the comment at `dbinstance_controller.go:146` says that a failed creation is retried only when spec
  or configuration change. `Reconcile` returns a `RequeueAfter`, and the property needs no further edit.

`InstanceSettles` speaks of the checksums. A configuration that is changed after the checksums were computed, read by
`create`, and put back before the next reconcile leaves its own checksums with the host of the other one in
`Status.Info`, and nothing corrects that. `InfoFollowsConfig` is what holds: a configuration whose checksums are
not the recorded ones when a reconcile is about to start ends up in `Status.Info`, unless it is changed again.

### Bounds

* `MaxEdits` counts what people do, `MaxFaults` failed calls, lost answers, a lagging cache and
  restarts. Two edits cover a change in the middle of a reconcile and one after it;
  three in `lifecycle` are a DbUser created, it deleted and the Database deleted, or the Database
  deleted, created again and a DbUser created for it. For the invariants of that run and for the
  drop the proofs cover any number. One fault at any of some thirty places, in combination with any edit at any
  place, is what the error paths are about; Cloud SQL gets two, since a timed-out
  creation is followed by a retry that can fail in its turn.
* One or two DbUsers: DbUsers meet only in the Database's finalizers. One Database:
  Databases share nothing but the instance, and there `instance` has two.
* Two specs, passwords and configurations are enough to change and to change back; the
  third configuration is the invalid one.
* `MaxEvents` of `dependents` is shared by failures and people: two events are a failure and a
  deletion, a deletion and a re-creation, or two edits, each at any call of either reconcile. Without any event
  the two resources already race for the Secret. There is one credential key and one other key; a list of templates
  names none, one that is allowed or one that is not.
* Two users in `grants`: users of the server meet only in the list. Three edits grant, change and
  revoke; a list has at most one entry for a user, and `allowExtraGrants` stays what it is.
* `Dependents` and `Grants` read the latest version; that a cached copy may be older is covered by
  the conflict it would end in, since every write checks the version.
* The safety properties do not depend on these bounds: all of them are proved (section 4). The bounds matter for
  liveness and for the runs that refute something.

### Fairness

* A running reconcile goes on (`WF` of the controllers' steps): nothing in it blocks for ever.
* After a reconcile another one follows: an error requeues after 60 s, whatever the comments named above say;
  a change of the resource, of a watched Secret or, for a DbInstance, of a referenced object delivers the request; and the
  informers' resync delivers it in any case. The DbUser and the DbInstance controllers also
  requeue after every success. For the Database controller the model does *not* rest on that timer:
  `r.Interval * time.Second` multiplies two durations, which for the default of 30 s overflows
  `int64` and becomes negative, and a negative `RequeueAfter` is none.
* The DbUsers share one worker and a FIFO queue, so each gets its turn again and again even
  if others come in between (`SF` of `ReconcileUser(u)`, and of `PlaceDatabase(d)` for the
  Databases of an instance).
* Cloud SQL finishes what it has started (`WF` of `CloudReady`), and so does the garbage collector.
* In `Dependents` each controller goes on by itself (`WF` of `Step(c)`): they are different goroutines.
* People and faults are under no fairness; they are bounded, so every fair behaviour ends in a
  time without them. That is what `<>[]` in the liveness properties refers to.

## 4. Proofs

The modules `*Proofs` are checked by TLAPS with Z3, Zenon and, for the last steps, LS4. The theorems hold
for any set of DbUsers, specs, passwords, configurations, Databases, keys, templates and users of the
server, both engines and backends, both values of `--check-for-changes`, and any bounds on faults and edits.
The assumptions are the named ones of the modules (`ClusterAssumption`, `InstanceAssumption`, `HelperAssumption`,
`DependentsAssumption`, `GrantsAssumption`): subsets are subsets, `None` is no value of any other kind, flags are
Boolean, bounds are natural. Two results have a hypothesis of their own, which the table names; each is needed:
on postgres the run `orphan` refutes `FinalizedOnlyAfterDrop`, and with `Patient = FALSE` in `grants.cfg` TLC refutes
`RecordedMeansApplied`, by the behaviour that the run `impatient` shows.

| Theorem | States |
|---|---|
| `TypeCorrect` | `Spec => []TypeOK` |
| `InductiveInvariant` | `Spec => []Inductive` |
| `ReadyIsBacked` | `Spec => []ReadyDatabaseIsBacked` |
| `CreatedUserPins` | `Spec => []CreatedUserPinsDatabase` |
| `DropsAreSafe` | `Spec => DropOnlyUnreferenced` |
| `OperatorImplementsLifecycle` | `Spec => ImplementsLifecycle`: `Operator` implements `Lifecycle` under the mapping of `Refinement` |
| `MysqlFinalizedAfterDrop` | `Spec => FinalizedOnlyAfterDrop` if not `Postgres` |
| `InstanceTypeCorrect` | `Spec => []InstanceTypeOK` |
| `ReadyIsProvisioned` | `Spec => []ReadyInstanceIsProvisioned` |
| `OnlyAcceptedServers` | `Spec => []DatabasesOnAcceptedServers` |
| `DependentsTypeCorrect` | `Spec => []DependentsTypeOK` |
| `OnlyOwnersWrite` | `Spec => OnlyOwnerWrites` |
| `CredentialsAreKept` | `Spec => CredentialsKept` |
| `GrantsTypeCorrect` | `Spec => []GrantsTypeOK` |
| `GrantsInvariant`, `RecordedIsApplied` | `Spec => []GrantsInv` and `Spec => []RecordedMeansApplied` if `Patient` |

### The Database and its DbUsers

None of the three safety properties is inductive by itself. What has to be added
(`OperatorInv`) is what a working copy still says about the stored object:

* `DbCopyInv`, `UserCopyInv`: *while a copy is current* it agrees with the stored object in what
  an `Update` writes back. Without it a write of the Database controller could take off a
  finalizer that a DbUser has just put there.
* `DbStepInv`, `UserStepInv`: what the steps before have established, for instance that the SQL
  database exists from `createDatabase` on. This needs that no other process drops it, and so
* `DeleteInv`: from the decision to delete until the finalizer is taken off the stored Database
  is being deleted, has its own finalizer and no DbUser's. The API server accepts no new
  finalizer on an object that is being deleted; this is why a check at the start of
  the reconcile and a drop some calls later are safe.
* `StoredInv`: a Database that a DbUser refers to has its finalizer and its SQL database. A DbUser
  puts its finalizer there from a current copy in which the Database was ready.

`SafetyProofs` has one lemma per action and invariant part that the action can disturb; the run
`sharing` checks the same invariant by TLC.

`RefinementProofs` shows that every step is one step of `Lifecycle` or none. A step that writes
neither the metadata of the stored Database nor the SQL database is none (`Unseen`): so are all
status updates and all Updates that put back what they read. The rest is one lemma per action:
`AddFinalizer` is `Guard`, because the copy is current and the SQL database was created before;
`AddDbFinalizer` is `Pin`, because a current copy that was ready is backed (or none, when the
finalizer is there already); `DropSqlDatabase` is `Drop` by `DeleteInv`; `RemoveFinalizer` is `LetGo`,
because the API server reaps the Database with its last finalizer. `RemoveDbFinalizer` is `Unpin` and
no more only if the Database keeps its own finalizer while it is being deleted. `Inductive` does not
say so; `Guarded` does, and it follows from the abstract steps themselves.

`FinalizerProofs` first shows that no step but `RemoveFinalizer` takes the finalizer off: every other `Update` is made
from a copy that, while it is current, has the finalizer if the stored object has it, and nobody marks
an absent Database. Then two facts about the delete path are invariant. `SpecInv`: while the copy is current,
it has the stored spec, so "protected" is decided on the spec under which the finalizer goes; an edit in
between outdates the copy and the `Update` is refused. `DroppedInv`: after the drop of an unprotected
Database the SQL database is gone and stays so until the reconcile ends. This is the one place where the engine
matters: on mysql a drop that reports success has happened.

### The DbInstance

`InstanceProofs` strengthens the two properties to `InstanceInv`. The stored status is written from a status in memory,
so `Provisioned` must hold of both. It is established step by step, which `CloudInv` records: past the insert
the Cloud SQL instance exists, past the user update it has its password. That no rejected server is
ever named needs `ReadInv` and `ServerInv`: the configuration is read once, checked, and its connection data
read a second time, so what is stored may belong to another configuration than the one that was
checked; but the spec's part of it cannot have changed while the working copy is current, and with an outdated copy
the status is not stored. `DatabaseInv` says that only Databases that are on some server are told about a change.

### The dependent objects

The argument of `DependentsProofs` does not depend on which calls a reconcile is made of. `CopyInv`: a copy that
is the latest agrees with the stored object in its label, and has no fewer credentials unless the
`secretsTemplates` of the caller name one of them. Every write is refused unless made from such a copy, hence writes
only what the copy's label allows. `LegacyInv` keeps the exception to the Database, `IdleInv` says that an idle
controller has no copies; the rest is one lemma per call of `kube.go` that the copy left behind is
again faithful, and one that a change made by another actor takes the copy out of `cur`.

### The extra grants

`RecordedMeansApplied` only speaks of moments when the two lists agree. In between (`GrantsInv`) `StoredInv` says what is
true of the server for each user separately: one whose recorded entry is still wished has at least what is
recorded and at most what is wished, so that `AllGranted` completes it whatever was done before; one whose
recorded entry is not wished any more will be revoked of everything first. `DoneInv` says what the running reconcile
has already done, `WorkInv` that its loops come from the stored lists as long as its copy is current. An
edit while the lists differ destroys `StoredInv`: an entry that was granted and is removed before it is recorded is in
neither list, and nothing revokes it (run `impatient`). Hence the hypothesis `Patient`.

### Only model-checked

* Everything about liveness (`Converges`, `DeletionCompletes`, `UserDeletionProgress`, `ExistingUserBecomesReady`,
  `InstanceSettles`, `InfoFollowsConfig`, `DatabasesFollow`, `DependentsConverge`, `DeletionReleases`, `UserReleaseCompletes`, `GrantsApplied`):
  fairness is out of the prover's reach.
* What the runs that expect a violation refute: a counterexample is all there is to show.

## 5. Not modelled

* Several DbInstances, and the labels they put on shared Secrets and ConfigMaps; the DbInstance's
  deletion (the controller has no finalizer and does nothing on it).
* The proxy and the instance access Secret: their outcome, success or failure, is in `HandleObjects`, `Cleanup`
  and `CreateProxy`. They go through the same helper as the objects of `Dependents`.
* The content of the objects beyond their keys: rendered text, connection data in the info ConfigMap
  (which is not refreshed once it exists), the pod of the backup job.
* A DbUser whose Database is the one it shares the Secret with; three resources on one object.
* `.spec.existingUser` of a Database, extra privileges, the single statements behind
  permissions, extra grants on mysql (where `revokePermissions` does nothing) and on an instance whose
  `allowExtraGrants` changes.
* Sanitizing of names, and what webhooks check in one object without any state.
* Passwords and SSL, parsing of monitoring settings, metrics, logging, events, flags, the legacy
  API version: they decide nothing the properties tell apart.

## 6. Plan

Done, in this order: the Database and its DbUsers with all failures, the instance under them, the
dependent objects, the extra grants, the abstract lifecycle and its refinement, and the proofs of all safety
properties. Next:

1. Proofs: what is left of `FinalizedOnlyAfterDrop` on postgres, where the names are recorded and no query
   fails; the steps of `Grants` and `Dependents` as implementations of an abstract grant list and an
   abstract owner.
2. Pure algorithms, each against a reference definition: `StringSanitize` and the names built from
   it, the substring test for `dbuser.` finalizers, the int64 arithmetic of the requeue interval.
3. Two DbInstances that refer to one Secret: the label ping-pong.
4. Proxy and instance access Secret as further objects of `Dependents`.

## 7. Running it

```
tlc -config lifecycle.cfg MCOperator      # any run: module and .cfg are in PROJECT.json
tlapm OperatorProofs.tla
tlapm SafetyProofs.tla
tlapm RefinementProofs.tla
tlapm FinalizerProofs.tla
tlapm InstanceProofs.tla
tlapm DependentsProofs.tla
tlapm GrantsProofs.tla
```
