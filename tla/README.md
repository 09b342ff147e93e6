# raven-controller-manager in TLA+

raven-controller-manager keeps, for every Gateway object of a Kubernetes
cluster, the endpoint that carries its VPN traffic and the nodes behind it; it
keeps the Service through which gateways behind a load balancer are reached;
and it serves and provisions the admission webhook of the Gateway objects.
This directory holds TLA+ modules of that program, TLC configurations, and
theorems with proofs for TLAPS.

## Inventory

| component | state it keeps | operations | interacts with |
|---|---|---|---|
| Gateway controller (`controllers/gateway`) | none of its own: Gateway and Node caches, a work queue, one worker | `Reconcile`, `electActiveEndpoint`, `recordEndpointEvent`, `getPodCIDRs`, node predicate and mapping | reads Gateways, Nodes, the Service, BlockAffinities from caches; writes `status` of Gateways; records events |
| Service controller (`controllers/service`) | caches of Services, Endpoints, Gateways, Nodes; a queue of one name; one worker | `Reconcile`: ensure or delete the Service, then the Endpoints | reads the `status` that the Gateway controller writes; the Gateway controller reads the Service's ingress |
| Gateway admission (`apis/raven/v1alpha1/gateway_webhook.go`) | none | `Default`, `ValidateCreate`, `ValidateUpdate`, `ValidateDelete` | called by the API server on every write of a Gateway |
| Webhook certificate controller (`webhook/util/controller`, `webhook.go`) | a queue of one key per replica | `sync`: ensure the certificates, write them to disk, put the CA into the two webhook configurations | Secret, webhook configurations; the other replicas |
| Certificate writers (`webhook/util/writer`) | the Secret, or files | `EnsureCert`: read, create, overwrite | generator; atomic writer |
| Atomic writer (`webhook/util/writer/atomic`) | a directory of symbolic links | `Write` in eleven numbered steps | the file system |
| Certificate generator (`webhook/util/generator`) | the CA set last | `Generate`, `ValidCACert` | |
| Manager process (`main.go`, `webhook.go`) | the caches and the client that the controllers share | wires the controllers, waits five seconds for the first `sync`, starts | all of them: a panic of one ends all |

Not part of the program's own logic: the generated client, deep copies, the
Calico API types, `projectinfo`, the Helm chart and the manifests.

What is hard in each, and what makes it correct:

* **Gateway controller.** Its reads are from caches that lag behind the API
  server, each at its own pace; its queue holds a gateway's name once; a node's
  change wakes a gateway only through a predicate and a mapping that looks at
  the gateway cache; its write is refused when its copy is old; it can crash
  between any two calls. Correct: no wakeup is lost, so a gateway at rest has the
  right status; an endpoint becomes active only if the spec declares it then; a
  healthy active endpoint is not replaced; the two fields of a status fit
  together; a change of the active node is always announced.
* **Service controller.** Creates and deletes are decided from caches; the list
  of gateways comes in no particular order; Service and Endpoints are written
  one after the other. Correct: at rest the Service exists exactly when some
  gateway is behind the load balancer, and the Endpoints lead to the active
  node of such a gateway.
* **Certificates.** Two replicas run `sync` at once, leader election does not
  cover it. Correct: at rest both webhook configurations trust the CA that signed
  the certificate in the Secret, whichever replica won.
* **Atomic writer.** Every call to the file system may fail and the process may
  end after it; readers come at any time. Correct: the links lead into one
  complete payload; a `Write` that reports success has succeeded, whatever
  earlier ones left behind; little is left behind; a later `Write` comes
  through.
* **Admission.** Correct: what it lets in is what the controllers take for
  granted.
* **The controllers together.** Each waits on objects of the other and both end
  together. Correct: neither waits in vain, and an exposed gateway is reached
  under the IP it publishes.

## Modules

In the order they were written, the most important behaviour first.

1. `GatewayElection`, `GatewayObjects`, `GatewayController`,
   `GatewayProperties`, `AtomicGateway` with their proofs.
2. `ServiceController` and `ServiceProperties` with their proofs.
3. `WebhookCerts` and `WebhookProperties` with their proofs.
4. `AtomicWriter`, `AtomicWriterProperties` and the abstract `AtomicDirectory`,
   with their proofs. `WebhookCerts` has a `Write` in one step with its outcomes,
   the failed and the cut-off ones included; `AtomicDirectory` is why a reader
   tells no more of them apart.
5. `GatewayAdmission` with its proof, under the runs of the Gateway controller.
6. `RavenManager` and `ManagerProperties`: the two controllers composed, with
   their proofs, which instantiate those of the two.

Left: a status write that is still in the network when its process ends; the
theorem that the outcomes of a `Write` in `WebhookCerts` are those of
`AtomicWriter`.

## Gateway controller

`GatewayElection` is the pure part: `checkActive`, `electActiveEndpoint`,
`recordEndpointEvent`. `GatewayObjects` has the shape of Gateway and Node
objects and what `Reconcile` computes from a view of the nodes.
`GatewayController` is the machine; `GatewayProperties` states what it promises
and the inductive invariant; `AtomicGateway` is the abstract specification;
`MCGatewayController` gives the constants their values. `Watches` says how a
cache trails the API server, for this controller and the next.

State and code:

| variable | in the program |
|---|---|
| `gws`, `nodes` | Gateway and Node objects in the API server |
| `gwCache`, `nodeCache` | the informers' caches; every `r.Get` and `r.List` reads them |
| `gwWatch`, `nodeWatch` | versions written and not yet in the cache, oldest first |
| `svc`, `blocks` | the Service and the BlockAffinities as their caches show them |
| `queue` | names waiting in the controller's work queue |
| `pc`, `cur`, `gw`, `nodeList`, `activeEp`, `infos` | the place in `Reconcile` and its locals |
| `fresh` | whether the resourceVersion of `gw` is still the API server's |
| `event` | the last event this `Reconcile` recorded |

Actions and code: `StartReconcile` is the Get of the gateway (lines 67-76);
`ListNodes` the list, the election and the event (78-95); `WaitForService`,
`UseServiceIP` and `PanicOnNilEndpoint` the part for a load balancer (95-106);
`CollectNode` one turn of the loop over the listed nodes, in any order, since a
list from the cache follows the order of a Go map (109-122); `UpdateStatus` the
write and what the API server makes of it (126-132); `FailReconcile` and
`LoseReply` a call that fails before or after it is served; `Crash` and
`PanicOnNilEndpoint` end the process, whose caches are then listed anew and
whose queue holds every gateway. `DeliverGateway` and `DeliverNode` put one
version into a cache and run the handler, for nodes through
`NodeChangedPredicates` (`notable`) and `mapNodeToRequest`; `RelistGateways`
and `RelistNodes` skip to the last version; `Resync` queues every gateway.
Everything under "The environment" is users, kubelets, Calico and the cloud.

What the model abstracts:

* An endpoint's `underNAT` and `config` are compared together with `publicIP`
  and never looked at otherwise; the field `ip` stands for the three.
* The cache update and its event handler are one step. A handler that runs
  later only looks at later caches: a gateway it then misses is queued by its own
  creation.
* The resourceVersion is the bit `fresh`. A deleted and recreated gateway
  counts as a new version, as its UID and resourceVersion are new.
* A requeue after an error or after five seconds is a name in the queue at
  once; delays only remove interleavings that the model has.
* The order of the pod ranges of one node is left out: `subnets` is a set.
* A change of metadata only (labels or annotations of a Gateway) is not made; what
  it does to a write in progress is what `FailReconcile` does.
* A status write is sent and served in one step. One that is still in the
  network when its process dies is not modelled.
* Gateways are those admission lets through (`SpecsAssumption`, which
  `GatewayAdmission_proofs` derives).

`GatewayAdmission` has the webhooks: `Default` overwrites the selector, so that a
gateway always has the nodes with its label, `errList` collects what
`validateGateway` complains of, and `AdmittedSpecs` are the specs of the
`Requests` that pass. An empty list of endpoints makes `validateGateway` panic at
line 88; the API server gets no answer, which the webhook's `failurePolicy: fail`
makes a refusal. The configurations give `Requests` and take `AdmittedSpecs` for
`Specs`, in `gateway_lb` with five requests that are refused.

### Properties

Safety: `ActiveIsManaged`, `ElectedIsDeclared`, `NoSpuriousFailover`,
`SwitchAnnounced`, `SettledConverged`, `StaysConverged`; refinement:
`ImplementsAtomicGateway`; liveness: `EventuallyConverged`.
`SettledConverged` is the one that the queue, the predicate, the mapping and the
retries are for: once nothing is left to deliver, to take or to finish, no gateway
may have a status that its spec and its nodes do not call for. `StaysConverged` is
its counterpart for a `Reconcile` in progress: an old list of nodes in its hands
must have a request in the queue behind it.

`AtomicGateway` says what a user of the API can rely on: each change of a Gateway
object is a user's, or one atomic reconciliation of the object as it is then,
against some view of the nodes. The refinement mapping is the identity on `gws`;
what has to be shown is that the copy read several steps earlier is still the
object when the write succeeds, and that the list, the election and the written
status belong together.

### Runs

| run | instance | shows |
|---|---|---|
| `gateway_churn` | 1 gateway, 2 nodes, 2 specs, nodes ready, not ready or away, 2 undelivered versions, 3 disturbances | the safety properties, the inductive invariant, the refinement |
| `gateway_relabel` | 2 gateways, 2 nodes that move between them, 2 disturbances | no wakeup lost across gateways; convergence under fairness |
| `gateway_lb` | 1 gateway on and off the load balancer, the Service missing, without ingress or with one, nodes in and out of Calico | the same for the load-balancer path, the nil endpoint, the blocks |
| `gateway_lb_switches` | 1 gateway behind the load balancer | violation: a valid active endpoint is changed |
| `gateway_lb_panics` | the same, under fairness | violation: the lost endpoint is never removed |
| `gateway_stale_infos` | nodes that change address, pod range and blocks | violation: the status keeps old ones |

Bounds: `MaxLag` versions of one object wait for delivery, and
`MaxDisturbances` changes by users, kubelets, faults and crashes happen in one
behaviour. Two versions are what it takes for a change and its undoing to be
both in flight. Every property that relates a status to the nodes breaks, when
the code is changed, within two disturbances: the one that the reconciliation in
progress misses, and the one that should have woken it. The third lets a fault
or a crash fall between them. The initial states have every combination of
objects, so nothing has to be built up first. The theorems have no bounds but
these two, as parameters.

Fairness: watches deliver (weak fairness per object), a `Reconcile` in progress
goes on (weak), and a queued name is taken (strong, per gateway: the worker is
busy now and then, and the queue is FIFO). Nothing is assumed of users, kubelets,
faults, relists or the ten-hour resync; convergence does not lean on the resync.

Findings are in `PROJECT.json`. Two are about gateways behind the load balancer:
line 105 of `gateway_controller.go` writes the Service's IP into the endpoint
that is stored, after which it equals no declared endpoint and is not preferred
any more; and it does so through a nil pointer when no endpoint could be elected,
which stops the process again and again. The third: node addresses, pod ranges
and Calico blocks wake nobody.

`status.nodes` is written in a random order without a comparison, and each write
that only reorders it wakes the same gateway again. With n nodes one such round is
the last with probability 1/n!, so on a large gateway it hardly ends. The model
has these rounds, and convergence is checked with them going on; that none of
these writes makes a right status wrong is `StaysConverged`.

### Proofs

`GatewayAdmission_proofs`: what is let in satisfies `WellFormed`, which the other
proofs assume of `Specs`. `GatewayController_proofs`: an election is sound and
sticky, over specs of any length, and `Spec => []TypeOK`.
`GatewaySafety_proofs`: the inductive invariant `IInv` and from it each safety
property and the refinement. What a step shows is a lemma of its own
(`IInv /\ [Next]_vars => ...`), which the composition below cites.

None of the safety properties is inductive. `IInv` adds to them:

* `CachesTrail`: the last version under way to a cache, or the cache itself when
  none is, is the API server's. So a settled system has current caches.
* `CopyIsFresh`: while `fresh` holds, the copy is the API server's object, and the
  cache has it. So a write that succeeds changes nothing but the status, and the
  endpoint it publishes is declared by the spec it is written to.
* `HeldElection`: the elected endpoint, the event and the node infos collected so
  far are what the copy and the listed nodes call for. So the written status fits
  one view of the nodes, and the event tells the change.
* `WakeupPending`: a cached gateway that is neither queued nor about to be has a
  status fit for the node cache, or is being reconciled, and then either its copy
  is old, so it will be queued again, or what was listed agrees with the
  node cache on who is managed and who is ready. This is the part the predicate
  and the mapping keep: every change that makes two views disagree about a
  gateway queues it.

The step of each action has its own lemma, one for each part of the invariant
that the action can disturb. The assumptions are those of the modules: the shape
of specs, nodes and services, absent values that are none of the present ones, and
bounds that are numbers.

Only model-checked: `EventuallyConverged`, being liveness under fairness.

## Service controller

`ServiceController` is the machine, `ServiceProperties` what it promises and the
inductive invariant, `MCServiceController` the instances. It shares
`GatewayObjects` with the Gateway controller.

| variable | in the program |
|---|---|
| `gws`, `nodes` | what the caches of Gateways and Nodes show |
| `svc`, `svcCache`, `svcWatch` | `raven-agent-service` in the API server, in the cache, and its versions under way |
| `eps`, `epsCache`, `epsWatch` | its Endpoints, likewise |
| `queued` | the queue, which only ever holds one name |
| `pc`, `gwList`, `target`, `fresh` | the place in `Reconcile` and its locals |
| `missed` | history: a Service or Endpoints came and went between two lists |

Actions and code: `StartReconcile` lists the gateways (lines 56-67);
`GetService`, `CreateService` and `CleanService` are `reconcileService`
(81-128); `GetNode` chooses an active endpoint and looks at its node,
`LeaveEndpoints` and `CleanEndpoint` are the other two ways through
`reconcileEndpoint` (131-163); `GetEndpoints`, `CreateEndpoints` and
`UpdateEndpoints` are `ensureEndpoint` (165-205). `ChangeGateway` updates the
cache and runs the handler, which maps the old and the new object;
`DeliverService` and `DeliverEndpoints` put a version into a cache and run the
predicate and the mapping. `FailReconcile`, `LoseReply`, `Crash`,
`RelistService`, `RelistEndpoints`, `Resync` as above.

The controller only reads Gateways and Nodes, so their variables are their
caches, and every way a cache can change is a `ChangeGateway` or a `ChangeNode`.
The gateway that comes first in the list of `client.List` is any of them, as the
cache keeps them in a Go map. A Service is its ingress; Endpoints are the node
and address they lead to, or `Foreign`.

Properties. `SettledServed`: with nothing queued, running or undelivered, the
Service exists exactly when a gateway is behind the load balancer, and the
Endpoints fit the active nodes. It leans on the handler that maps both objects of
an update, on conflicts and on retries. It excludes one case, by the variable
`missed`: no handler sees an object that was created, or was seen last, before a
watch broke and was deleted before the list that replaces it. `KeepsEndpoints`:
the controller does not move the Endpoints off the only active node.
`EventuallyServed`: left alone, and with the node of every active endpoint
there, the controller comes to serve the gateways and goes on doing so.

| run | instance | shows |
|---|---|---|
| `service` | 2 gateways in four states each, 2 nodes, 2 undelivered versions, 2 disturbances | `SettledServed`, the inductive invariant, the Endpoints stay; convergence, also when two active nodes compete |

Two disturbances are a change that the request in progress misses, and its undoing,
a fault or a crash while it is put right; the initial states have every
combination of objects. With two active gateways the Endpoints may move at every
request: the convergence property accepts either node, and its own writes wake
the controller again. Nothing promises which node it is, so no property says
more.

Fairness: watches deliver, a request in progress goes on, a queued name is taken.
One worker has one name, so weak fairness is enough. No fairness for users,
faults, relists or the resync.

### Proofs

`ServiceController_proofs` proves `IInv`, and from it type correctness,
`SettledServed` and `KeepsEndpoints`. `IInv` adds `CachesTrail` (`Watches`);
`HeldTarget`, that what a request writes fits the gateways it listed; and
`WakeupPending`: without a request in the queue, the list of the request in
progress agrees with the cache on who is behind the load balancer and with which
active endpoint, and what is done already is right or has an event under way that
is handled and will queue the name. `EventuallyServed` is only model-checked.

## Webhook certificates

`WebhookCerts` is the certificate controller of every replica with the writers,
the generator and the configurations; `WebhookProperties` states what it
promises; `MCWebhookCerts` has the symmetry of replicas. Two replicas
are the default of the manifests, with `--leader-elect`; but `Initialize` starts
this controller in each, before the manager and its election.

| variable | in the program |
|---|---|
| `secret`, `confs` | the Secret and the validating and mutating configuration in the API server |
| `issued`, `aged`, `ending` | the CAs made, those with less than a year left, those with less than half a year |
| `disk`, `stuck` | the certificate directory of a replica; whether a `..data_tmp` was left in it |
| `pending`, `queued` | objects with an event not handled yet; the key in the work queue |
| `pc`, `certs`, `fresh` | the place in `sync`, the certificates in hand, and which objects it read are current |
| `inited` | the channel that `Initialize` waits for is closed |

Actions and code: `StartSync` takes the key; `Read`, `ReadNothing`, `Create`,
`Overwrite` (the Secret) and `WriteHost` (the directory) are `EnsureCert`, call
by call; `WriteDisk` is `WriteCertsToDir`; `GetMutating`, `GetValidating`,
`UpdateValidating`, `UpdateMutating` are `configuration.Ensure` in its order.
`WriteHost` and `WriteDisk` fail on a `..data_tmp` when they have something to
write. `FailSync` is a call that fails and leaves nothing behind, `LoseReply` one
that is served and whose answer is lost, `FailWrite` a `Write` that fails at its
rename and cannot remove `..data_tmp`, or after its rename. `GiveUp` is the exit
after the five seconds of `Initialize`, `Crash` the end of a process that was up; both `Restart`, and in the middle of a `Write` into a
host's directory they may leave `..data_tmp` there.
All reads and writes go to the API server: `Initialize` gives the controller the
manager's uncached reader, and the informers only wake it.

What the model abstracts:

* Certificates are known by the CA that signed them. A serving certificate is
  made for ten years by a CA of ten years that is older, so it is invalid only
  when its CA is about to end or its data are not there; that they are
  damaged in other ways is `usable` being false. A broken CA key with a good
  serving certificate is not distinguished.
* A configuration is its webhooks but for the CA (`hooks`), the template
  annotation, and the CA. Namespace, service name and URL are functions of the
  template and of the environment of the process, and are left out. A template
  that does not parse is a call that fails (`FailSync`).
* An event has no content: the handlers look at the name only.
* A `Write` is one step with one of its outcomes (`AtomicWriter` has the calls):
  done, nothing to do, failed without a trace, failed or cut off with `..data_tmp`
  left, or failed after the rename. `Write` compares bytes, and two certificates of
  one CA are not told apart here; so a write of certificates that look equal may
  still be a write, and then fails on a `..data_tmp`. With `Host` the second write
  of a `sync` has the bytes of the first, or those that were read (`HeldAt`).
  A container's directory is lost in a crash; with `Host` it is kept.
* Leaving out rate limits and backoff only adds interleavings.

Properties. `SettledTrusted`: whatever the replicas did to each other, with no
event and no work left every configuration that is there trusts the certificates
of every replica's directory and of the Secret, and has the webhooks of its
template. It speaks of objects that are there, since the controller has no
handler for deletions. `KeepsCA`: no replica replaces a CA that can still sign,
on whatever old copy it decided. `EventuallyTrusted`: with both configurations
there for good, every replica comes up and every configuration comes to trust it.
It leaves out the behaviours in which a `..data_tmp` stays in a directory: then
`sync` fails on it whenever there is something to write, and with `Host` the
replica never comes up again. Without that premise TLC finds such a behaviour,
one failed write or exit long; it is what the finding of `cert_dir_stuck` means
to the certificates.

| run | instance | shows |
|---|---|---|
| `webhook_replicas` | 2 replicas, a Secret, one hook, 1 disturbance | `SettledTrusted`, `KeepsCA`, the inductive invariant |
| `webhook_host` | 1 replica with its certificates on disk, 2 hooks, 3 disturbances | the template wins over a manifest; convergence under fairness |

Bounds: the race of two replicas needs no disturbance but an empty or missing
Secret, which are initial states; the one disturbance is a broken Secret, an
ageing CA, a lost answer or a crash in the middle of the race. With `Host`, two
are a changed manifest and a failure while it is put right, and three let a CA come
to its end and the write that replaces it fail or be cut off. The theorems have no
bound on either.

With two replicas and `Host` each has a CA of its own and the two overwrite the
configurations forever; the option is for a single process outside the cluster,
so `webhook_host` has one. `SettledTrusted` is proved for both cases: two such
replicas never come to rest.

Fairness: events are handled and a `sync` that can go on does. None for changes
from outside, faults or crashes: so a bounded number of five-second timeouts.

### Proofs

`WebhookCerts_proofs` proves `IInv` for any set of replicas, and from it
`SettledTrusted` and `KeepsCA`. `IInv` is a conjunction over replicas of three
parts: `FreshAt`, that a copy whose resourceVersion is current is the object;
`HeldAt`, that only usable certificates get on disk and `sync` knows which, and
with `Host` has them there before `WriteDisk`; and
`PendingAt`, that without a request in the queue what a replica did so far is
right for every object of which it has no event left to handle. So a write of
one replica disturbs another only in parts that the event it makes excuses: one
lemma says so for every action (a bystander keeps its part), and each action has
its own lemma for the replica that acts. `EventuallyTrusted` is only
model-checked.

## Certificate directory

`AtomicWriter` is `WriteCertsToDir` of `fs.go` with `Writer.Write`: one caller,
`sync`, which comes again after an error with the certificates it then has.
`AtomicDirectory` is what readers may rely on; `AtomicWriterProperties` has the
refinement mapping, the properties and the inductive invariant.

| variable | in the program |
|---|---|
| `plain`, `links` | the names of the directory: ordinary files with their contents; links into `..data` |
| `dirs`, `data`, `tmp` | the timestamped directories; where `..data` and `..data_tmp` lead |
| `certs`, `done` | the certificates last handed to `WriteCertsToDir`, and whether it returned no error |
| `pc`, `todo`, `oldTs`, `ts`, `extra` | the place in `Write` and its locals |
| `refused` | history: names whose ordinary file could once not be removed |

Actions and code: `prepareToWrite` removes one ordinary file, or fails to and only
logs it; `Detect` is (2) to (4) with the early return; `newTimestampDir` (5);
`OpenFile` and `FillFile` one file of (6), since `os.WriteFile` creates before it
fills; `CreateLink` one name of (7); `Symlink`, or `SymlinkExists`, (8); `Rename`
(9); `removeUserVisiblePaths` one name of (10), which goes on after an error;
`RemoveOld` (11). `Fail`, `FailInstall` and `FailRemoveOld` are a call that fails,
with the cleanup the code does and the errors of it that the code ignores;
`Crash` ends the process between any two calls.

What the model abstracts: a payload is one set of certificates, and a file is
known by the certificates it is a part of, or `Torn`; names have no directories in
them, as the six of `certToProjectionMap` have none, so `validatePath` passes and
subpaths do not occur; modes are left out. `os.RemoveAll` removes a directory, or
fails with any part of it left. Files written are there after a crash of the
process: a loss of power, which the code does not guard against with a sync of the
disk, is not modelled. Nor is the Windows branch. Readers are those of one
instant: one that opens the certificate before a rename and the key after it gets
one of each, and is not modelled. By default the webhook server serves from the
mounted Secret, and reads this directory only where `WEBHOOK_CERT_DIR` is the one it
serves from. A directory that outlives the
process is a volume or a host's directory (`WEBHOOK_CERT_DIR`).

Properties. `ImplementsAtomicDirectory`: through every failure and crash, names
become links one by one, links lead into one complete payload, and that is
replaced at once when every name of the next is there. `Installed`: a success
means that the certificates can be read under all their names, also when an
earlier call ended half way and this one found nothing to write; but for names
in `refused`. That exception is the code's: `prepareToWrite` swallows the error,
and the name keeps the old file, or after its later removal has none while the
payload does not change. `LeftoversBounded`: a failure or crash leaves at most one
directory, however many calls follow. `EventuallyWritten`: repeated, the call
comes through, if no `..data_tmp` is in its way.

| run | instance | shows |
|---|---|---|
| `cert_dir` | 2 certificate names and one of an earlier release, 2 sets of certificates, 4 directories, 2 failures or crashes | the four properties and the inductive invariant |
| `cert_dir_stuck` | the same with 3 directories and 1 failure or crash | violation: a `..data_tmp` that was left stops every later write |

Bounds: with two names a payload can be torn between them; the earlier releases
wrote fewer names or one more, so links are made and pruned. Two failures let one
leave something and the next hit the call that finds it. Four directories are
what two failures can leave, the current one and the one in the making.

Fairness: a call goes on, and `sync` comes again after an error (the rate-limited
queue of `WebhookCerts`). None for failures.

### Proofs

`AtomicWriter_proofs` proves `IInv`, and from it `Installed`, `LeftoversBounded`
and the refinement, for any finite set of directories and any names,
certificates and bound. Besides types, `IInv` says: `..data` leads to a complete
payload all of whose names are links or refused (`DataComplete`); a name is not
both a link and a file, and the loops have treated the names they have left
behind (`NamesApart`); what will be pruned are links of the old payload
(`ExtraLinks`); the directory in the making is not the one shown, and is
complete before it is linked (`MakingDir`); leftovers are paid for
(`LeftoversCounted`, with a credit for the one that a failed pruning is about to
leave). For the refinement, a step of the writer changes `current`, the contents
of the directory that `..data` leads to, only in `Rename`; `DataComplete` and
`MakingDir` show that no other write or removal touches that directory.

## Both controllers

`RavenManager` composes `GatewayController` and `ServiceController`
(`INSTANCE ... WITH`): the Gateways and Nodes of the Service controller are the
Gateway controller's caches, since the manager has one cache for both, and the
Service's cache is the one the Gateway controller reads. Steps of one controller
leave the other's variables alone, but for three that are written anew:
`DeliverGateway` is an event for both, `Restart` lists all caches and empties both
controllers, `Panic` is the nil endpoint of line 105. `SetIngress` is the cloud.
Broken watches are left to the two modules.

`SettledReachable`: when nothing is left to do, the IP in the status of an exposed
gateway is the Service's and the Endpoints lead to its active node (with several
exposed gateways, to that of one of them); without exposed gateways Service and
Endpoints are gone. It speaks of a Service that has had one IP: one that is
deleted and made again may get another, the Gateway controller does not watch it,
and the old IP stays published. `EventuallyReachable`: the controllers do not
wait for each other; it excludes exposed gateways without a ready node, whose
panic keeps the Service controller from its work too.

| run | instance | shows |
|---|---|---|
| `manager` | 1 gateway on or off the load balancer, 2 nodes, 2 IPs, 1 undelivered version, 1 disturbance | both properties, the inductive invariant |

Bounds: the controllers race without any disturbance, from a cluster in which a
gateway is there and the Service is not; the disturbance is a spec or node that
changes, a Service or Endpoints that somebody deletes, a fault or a crash in the
middle. Two, on one node, were checked for `SettledReachable` as well, without a
violation.

Fairness: as for each controller; and the cloud gives a Service an IP some time,
without which nothing could be published.

### Proofs

`RavenManager_proofs` instantiates `GatewaySafety_proofs` and
`ServiceController_proofs` with the composition's variables, so that their lemmas
apply to each controller's part as they stand. It first derives the assumptions of
the two modules from those of `RavenManager` (`GatewayAssumptions`,
`ServiceAssumptions`), and shows that the operators of the two instances are the
same (`SameGatewaySteps` and the like). Then:

* `Steps`: a step of the manager is one of the Gateway controller's module, one of
  the Service controller's, or one of the three that concern both.
* What is a step for one controller is a small change for the other, and each such
  change keeps the other's inductive invariant: another version of the Service in
  the cache (`GatewayLeft`), a changed node (`ServiceLeft`), a gateway's version
  delivered (`ServiceSeesGateway`), an IP for the Service (`ServiceGetsIngress`),
  a restart (`GatewayRestarts`, `ServiceRestarts`). So both invariants hold
  together (`PartsNext`), which neither module shows alone: in each of them the other
  controller is an environment that is only allowed `MaxDisturbances` changes.
* Three parts tie the two together. `IngressesKnown`: a version of the Service,
  wherever it is, has an IP the cloud gave it or none. `HeldIngress`: what
  `Reconcile` is about to publish for an exposed gateway is such an IP.
  `PublicationPending`: an exposed gateway that is not queued, has no version
  under way and is not being reconciled publishes such an IP; `Reconcile` lets go
  of a gateway without queueing it only after a write that changes nothing
  (`LeftByReconcile`).

From this `IInv` follow `SettledReachable`, for any gateways, nodes, IPs and bounds,
and in the composition every safety property and the refinement that the two
controllers have alone (`GatewayPromisesKept`, `ServicePromisesKept`). The
assumptions are those of the two modules, said of one set of constants: the values
that stand for no object, no ingress and foreign Endpoints differ from IPs and
from what the controller writes. `EventuallyReachable` is only model-checked.

## All runs

`CHECK_DEADLOCK FALSE` is said in the two runs of `WebhookCerts`, whose informers
never resync: it comes to rest when the disturbances are used up, the queue is
empty and no event is under way. All other runs check for deadlock. Every action
of the modules is fired by the passing runs.

## Not modelled

Leader election and the wiring of the manager, which are controller-runtime's;
the generated client, which the controllers do not use; the registration and deep
copies of the Calico and Raven types; keys, PEM and X.509 beyond which CA signs and
when it ends; validation of path names, the Windows branch and loss of power in
the atomic writer; the chart and the manifests. Metrics, logs and events other
than the one that announces a switch of the active endpoint have no effect on the
state.

Out of the prover's reach is liveness under fairness, which TLC checks on the
instances above: `EventuallyConverged`, `EventuallyServed`, `EventuallyTrusted`,
`EventuallyWritten`, `EventuallyReachable`. Every invariant, action property and
refinement that a passing run checks is also a theorem. No module declares a
recursive operator: loops of the code over a list are set expressions or steps, so
that everything else could be proved.
