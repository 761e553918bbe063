# A TLA+ model of the gokube control plane

gokube is a small Kubernetes-like system. An API server (go-restful handlers
over the pod, node and ReplicaSet registries) keeps all state in etcd. Three
kinds of process work against it, and each sees the others only through that
store:

* the **ReplicaSet controller** (`src/unnamed/part_004`, the completed
  `replica_set_controller.go`). Every second it lists the ReplicaSets and
  reconciles each one: it re-reads the ReplicaSet, lists all pods, counts the
  active pods it owns by name prefix, creates the missing ones, and writes the
  ReplicaSet back with `status.replicas` set;
* the **scheduler** (`src/workbench/pkg/scheduler/scheduler.go`). Every tick
  it lists the Pending pods and the nodes. It then writes each listed pod
  back with a random node and status Scheduled;
* one **kubelet** per node (`src/unnamed/part_005`). It registers its node,
  polls `GET /pods` and starts containers for every pod it has not seen. It
  then derives each tracked pod's status from Docker and `PUT`s the tracked
  copy back when that status changes;

plus **users**, who create, scale and delete ReplicaSets, delete pods and
delete nodes through the API server.

`src/unnamed/part_015` is the workshop skeleton of the scheduler.
`pkg/controller/replica_set_controller.go` is the same file as `part_004`
except that its pod-creation branch is a stub. The lines the two share are
mapped to `pkg/controller`; the creation branch is mapped to `part_004`.

## Modules

| Module | Models | State |
|---|---|---|
| `Registry` | the etcd key spaces and the registry calls: `PodRegistry.CreatePod/UpdatePod/ListPendingPods`, `ReplicaSetRegistry`, `NodeRegistry.CreateNode/ListNodes/DeleteNode` and the 409 of `POST /nodes` (`part_003`, `replicaset_registry.go`, `node_registry.go`, `handlers/node.go`), the API types and `Validate/IsActive/IsOwnedBy` (`part_013`, `types.go`), `GenerateName` | `pods`, `nodes`, `rsets` |
| `ReplicaSetController` | `Start`, `Run` and `Reconcile` | `ctrl` (pc, Run's remaining list, the ReplicaSet and its copy, the pods still to create), `generated` |
| `Scheduler` | `schedulePendingPods` | `sched` (pc, the listed pod copies not bound yet, the listed nodes) |
| `Kubelet` | `Start/registerNode`, `watchPods/runNewPods/runPod`, `updatePodStatuses/updatePodStatus`, `getPodStatus/determinePodStatus`, the status `PUT` in flight, and a crash | `kubelet[n]` (pc, `k.pods`, the PUT in flight), `runtime[n]` (Docker's containers), `crashes` |
| `Cluster` | composes the above as the three processes of the entry points. Adds the users' API calls (`handlers/replicaset.go` with `LoadReplicasetIntoRequest`, `DELETE /pods`, `DELETE /nodes` with `LoadNodeIntoRequest`), fairness, the refinement mapping and the properties | `userOps` |
| `PodBinding` | the abstract specification of binding: a pod's node is set only from none and is only cleared | `boundTo` |
| `PodLifecycle` | the abstract specification of a stored pod's phase: Unused, then Pending, then only Placed or Deleted, never Pending again | `life` |
| `MCCluster` | the model values and definitions the `.cfg` files use | |
| `ClusterProofs` | TLAPS proof of type correctness | |
| `BindingProofs` | TLAPS proof of `BindingInv` and `NeverRebound` | |
| `PodBindingProofs` | TLAPS proof that `Cluster` implements `PodBinding` | |
| `LifecycleProofs` | TLAPS proofs of `PendingNodeless`, `PendingNeverReentered`, and that `Cluster` implements `PodLifecycle` | |

Each storage call is one atomic step, because etcd is linearizable. A
registry operation that makes two storage calls is two steps, so that other
processes interleave between them as they can in the code:

* `ReplicaSetRegistry.Update`: the existence check (`CtrlUpdate`), then the
  put (`CtrlUpdatePut`);
* the `PUT /pods/{name}` handler: `LoadPodIntoRequest`'s Get with its 404
  (`KubeletReport` decides whether a request is sent), then `UpdatePod`
  (`KubeletPut`).

A process's loop is split at each call:

* `CtrlRun` is Run's List;
* `CtrlReconcile` is the Get, ListPods and count;
* each `CtrlCreatePod` is one CreatePod;
* `SchedList` is ListPendingPods and ListNodes, and each `SchedBind` is one
  UpdatePod;
* `KubeletPoll` is one `GET /pods` with the `runPod` of every new pod.

Every error path that the code takes to `log.Fatalf` sets the controller's pc
to `"Crashed"`.

### Fault model

* **Kubelet crash** (`KubeletCrash`, at most `MaxCrashes`). This stands for
  the panic of `runPod` on a failed image pull, and for the fatal error the
  unsynchronised map `k.pods` can raise. The process loses `k.pods` and its
  PUT in flight. Docker keeps the containers. A PUT the API server has
  already received could still complete after the crash; the model always
  drops it, so that late write is not explored. The restart runs `Start`
  again, and `registerNode` then meets its own Node (409).
* **Node deletion** (`DELETE /nodes`) by a user, at any time, also while the
  scheduler holds a list of nodes.
* **Controller exit.** Every error `Reconcile` returns ends the process with
  `log.Fatalf`. Nothing restarts it.
* Not modelled: transient HTTP errors, and etcd failures. etcd is taken as
  always available; a failed call would end the controller, as above.

### Abstractions, and why they are sound for the properties

* **Names.** Names are sequences of symbols. `GenerateName` appends one
  symbol from the finite set `Suffixes`, which stands for the 5 random
  characters. `IsOwnedBy` is a real prefix test. With `FreshSuffixes = TRUE`
  the controller never draws a name twice (the ghost variable `generated`).
  That is the practical behaviour of a 27^5 alphabet. A collision would make
  CreatePod fail, and then `log.Fatalf`.
* **Records.** Only the fields the loops read or write are kept: the pod's
  containers, nodeName and status, and the ReplicaSet's replicas, template
  and status. A container is a model value, since its name and image are
  always set, so `Validate` reduces to "non-empty container list". A node is
  its name: no process reads a node's spec or status.
* **runPod and the runtime.** The `runPod` goroutine is folded into the poll
  that starts it. `getContainerState` inspects the container by its bare spec
  name, while `StartContainer` creates it under
  `GenerateName(pod-container)`. The inspect therefore never finds it (see
  `ContainerStateOf`), and the derived status is always `Succeeded`, whenever
  the containers start.
* **Storage.** `EtcdStorage`, the etcd-backed `Storage` implementation,
  is kept in `workbench/pkg/storage/etcd_storage_test.go` (lines 162-255).
  Its `Create` and `Update` are the same unconditional `client.Put`, `Get`
  is one `client.Get`, and `Delete` is one `client.Delete`. The model's
  single-key `EXCEPT` writes are exactly these calls. An existence check is
  the registry's own Get before the write.
* **Users.** A user's `PUT /replicasets` is one step that sets
  `spec.replicas` and keeps the stored status. The handler's load and its
  `Update` (Get, then Put of the body's status) are not split, and the
  body's status is not modelled. The status property,
  `StatusEventuallyCurrent`, is violated by the controller's own writes
  alone, so a user's status write would add nothing to it. At most `MaxUserOps` user calls are made, so that
  behaviours where users stop exist and the state space is finite.

## Runs

Every run has one ReplicaSet name and a one-container template.
Nodes and suffixes are model values. Symmetry over them is used only in runs
that check safety and name neither.

| Run | cfg | Bounds | Result | What it shows |
|---|---|---|---|---|
| `core_safety` | `MCCluster.cfg` | 2 nodes, 3 suffixes, replicas ≤ 1, 2 user calls, 1 crash | pass, 107,552 states (about 80 s) | `TypeOK`, `BindingInv`, `PendingNodeless`, `NeverRebound`, `BindingRefinement`, `PendingNeverReentered`, `LifecycleRefinement`: whatever the interleaving of the three loops, the crash and the users, a pod bound to a node is never bound to another, and the binding behaves as `PodBinding`; a stored Pending pod names no node, a pod that left Pending is never stored Pending again, and the phases behave as `PodLifecycle`. |
| `convergence` | `MCClusterLive.cfg` | 1 node, replicas ≤ 2, 2 user calls, 1 crash | pass | `Convergence`: unless the controller exited, every ReplicaSet ends with at least `spec.replicas` active pods. `PendingEventuallyLeaves`: no pod stays Pending for ever, also when its node is deleted. |
| `kubelet_runs_unassigned` | `MCClusterUnassigned.cfg` | 2 nodes | violation of `RunsOnlyOnAssignedNode` | `runNewPods` has no nodeName filter, and `ListPods` ignores the query, so every node starts every pod (spec §4.6 says the agent filters). |
| `kubelet_unbinds_pod` | `MCClusterUnbind.cfg` | 2 nodes | violation of `NodeNameImmutable` | The kubelet caches a pod while it is Pending; its status PUT of that copy puts the stored nodeName back to none. |
| `controller_exits` | `MCClusterCrash.cfg` | 2 nodes | violation of `ControllerAlive` | A ReplicaSet deleted between `Run`'s List and `Reconcile`'s Get makes `log.Fatalf` end the controller. |
| `scheduler_resurrects_pod` | `MCClusterResurrect.cfg` | 2 nodes | violation of `NoOvershoot` | The scheduler's UpdatePod of a listed copy stores again a pod the user deleted after the controller replaced it. |
| `controller_lost_update` | `MCClusterLostUpdate.cfg` | 2 nodes | violation of `ReplicasChangedOnlyByUsers` | The controller's write-back of its old copy undoes a user's scale made during Reconcile. |
| `status_never_refreshed` | `MCClusterStaleStatus.cfg` | 1 node, 3 user calls | violation of `StatusEventuallyCurrent` | When the count reaches `spec.replicas` without the controller, Reconcile never writes, and `status.replicas` stays old for ever. |
| `kubelet_cannot_rejoin` | `MCClusterRejoin.cfg` | 1 node, 1 crash | violation of `KubeletRejoins` | A restarted kubelet gets 409 from `POST /nodes` for its own Node and never comes up. |
| `duplicate_containers` | `MCClusterDupContainer.cfg` | 2 nodes, 1 crash | violation of `OneContainerPerPod` | A restarted kubelet starts a second set of containers for pods whose containers are still in Docker. |
| `pod_never_running` | `MCClusterNotRunning.cfg` | 1 node | violation of `PodRunningReported` | A pod whose container runs is never reported Running: the status derivation inspects a name that does not exist. |
| `status_lost` | `MCClusterStatusLost.cfg` | 1 node | violation of `StatusEventuallyStored` | The scheduler's stale bind overwrites a reported status, and the kubelet, comparing with its own cache, never reports it again. |

`Cluster` states four more properties that no run checks. TLC found each
violated while the model was built, and `PROJECT.json` lists them with
their hazards:

* `ReplicaSetsCreatedOnlyByUsers`: a ReplicaSet deleted between Update's
  existence check and its put is stored again by the controller;
* `StatusPutNeverRecreates`: a pod deleted between the PUT handler's load
  and its UpdatePod is stored again;
* `BindsOnlyToRegisteredNodes`: the scheduler binds to a node deleted since
  its ListNodes;
* `NoOvershoot` with the ReplicaSet names `a` and `ab` (`MCPrefixRSNames`),
  or with a two-container template (`MCTwoContainerTemplates`): prefix
  ownership and one pod per container each give more active pods than
  `spec.replicas`.

**Why the bounds are enough.** Two nodes are the least that let a pod be
bound to a second node, and that let a stale node list meet a deletion. One
crash already loses `k.pods` and a PUT in flight. Two user calls let a
deletion race a scale or a replacement. The liveness runs use one node,
because convergence does not depend on which node a pod is on, and the
controller counts pods whatever their node. `core_safety` keeps replicas at
1 so that the refinement check stays within minutes, with the crash and two
nodes in.

Deadlock checking is off. The real processes never stop: each loop ticks
forever. The model leaves out the ticks that change nothing (an empty list,
no new pods, an unchanged status), so a quiescent system has no enabled step
although the code keeps running.

**Mutants.** Each property of a passing run has a mutant in `PROJECT.json`:
a plausible bug in a mapped definition that TLC must catch.

* The status reset is dropped (`ReconciledStatusNoReset`). This breaks
  `TypeOK` once the count exceeds `MaxReplicas`.
* `listPodsByStatus` loses its status filter (`ListPendingPodsAnyStatus`).
  This breaks `BindingInv`, `NeverRebound` and `BindingRefinement`.
* The scheduler's bind sets the node and leaves the status Pending
  (`SchedBindKeepStatus`). This breaks `PendingNodeless`,
  `PendingNeverReentered` and `LifecycleRefinement`.
* The creation loop stops one replica short (`PodsToCreateOneShort`). This
  breaks `Convergence`.
* `UpdatePod` keeps the stored status, as a status subresource would
  (`UpdatePodKeepStatus`). This breaks `PendingEventuallyLeaves`.

### Fairness

`FairSpec` assumes weak fairness of the controller's loop, the scheduler's
loop and each kubelet's loop. Each is a goroutine driven by a ticker or a
sleep-and-poll. Go's scheduler runs a runnable goroutine eventually, and
the calls between ticks are bounded. Users and crashes get no fairness:
they need not happen.

## What is proved

All proofs hold for every value of the constants satisfying the `ASSUME`s
of `Registry`, `Kubelet`, `ReplicaSetController` and `Cluster`.

**`ClusterProofs`** proves `TypeCorrect`: `Spec => []TypeOK`.

`TypeOK` is inductive only thanks to pc-dependent conjuncts of
`CtrlTypeOK`: in Create and Update the controller holds a ReplicaSet name
and a copy, and in Create a container is left to create a pod for. The
proof has one step lemma per process (`CtrlTypeOKStep`, `SchedTypeOKStep`,
`KubeletTypeOKStep`, `UserTypeOKStep`), each split per action and per
conjunct. It rests on lemmas about the operators: `PodNames` is finite, the
pod count is a natural, `PodsToCreate` is a sequence of containers that is
empty exactly when no pod is missing, `determinePodStatus` returns a pod
status, and `runPod` yields containers.

**`BindingProofs`** proves, under the further hypothesis
`FreshSuffixes = TRUE` (GenerateName never returns a name twice):

* `BindingInvariant`: `Spec => [](TypeOK /\ BindingInv)`;
* `NeverReboundThm`: `Spec => NeverRebound`.

`NeverRebound` is an action property, and the state it depends on is spread
over several places: the store, the scheduler's listed copies, every
kubelet's cache and every PUT in flight. Any of these copies can be written
back. `BindingInv` relates them, and it is inductive together with `TypeOK`.
It has five parts:

* `Generated`: every pod name stored, listed or cached was generated. So
  `CtrlCreatePod`, whose name is fresh, creates a pod of which no stale copy
  exists.
* `PendingUnbound`: no copy of a stored Pending pod names a node. So
  `SchedList` lists only copies without a node.
* `ListedUnbound`: a listed pod, and every copy of it, names no node. So
  `SchedBind` makes its node the only node named.
* `SingleBinding`: all copies of a pod that name a node name the same one.
* `InFlight`: a PUT in flight carries its kubelet's cached copy's node and a
  status other than Pending. So `KubeletPut` cannot name a new node or make
  a bound pod Pending.

There is one step lemma per process (`CtrlBindingStep`, `SchedBindingStep`,
`KubeletBindingStep`, `UserBindingStep`). Most of them go through the lemma
`Shrinking`: a step that names no new node and makes no pod Pending keeps
the invariant. `StatusNotPending` shows that the kubelet never derives
Pending. `NoRebindStep` then shows that each step satisfies the action of
`NeverRebound` under the invariant. Without fresh names the invariant is not
inductive: a name reused by `CtrlCreatePod` can meet a kubelet's cached copy
that names an old node.

**`PodBindingProofs`** proves `BindingRefinementThm`: under the same
hypothesis, `Spec => BindingRefinement`, that is, `Cluster` implements
`PodBinding` under the mapping `BindingOf` (a pod is mapped to the one node
its records name, or to none).

* `RefinementInit`: no record exists initially, so every pod maps to none.
* `NoNewNodeStep`: a step makes a record of a pod name a node only when no
  record of the pod named one before. This holds because `SchedBind`'s pod
  has no bound copy (`ListedUnbound`), a kubelet's PUT carries its cached
  node (`InFlight`), and every other step copies, keeps or drops records.
* `RefinementStep`: from `NoNewNodeStep` and `SingleBinding` before and
  after the step, each pod's image stays, goes from none to a node
  (`Bind`), or goes from a node to none (`Release`, by a deletion or a
  crash).

The theorem combines these with `BindingInvariant` by PTL.

**`LifecycleProofs`** proves three theorems about a stored pod's phase.
All rest on the step lemma `PodWrites`: under `TypeOK` and
`InFlightNotPending` (no status PUT in flight carries Pending), every step
writes each pod in one of four ways. It leaves the pod alone, deletes it,
stores a status other than Pending, or is the controller's `CreatePod` of a
pod without a node, under a name that was free and, with fresh names, never
generated before. The lemma also shows that `generated` only grows and that
`InFlightNotPending` is kept (`StatusNotPending`).

* `PendingNodelessThm`: `Spec => []PendingNodeless`, for every instance,
  fresh names or not. The inductive invariant is
  `TypeOK /\ InFlightNotPending /\ PendingNodeless`. `PendingNodeless`
  alone is not inductive: a PUT in flight carrying Pending with a node would
  break it.
* `PendingNeverReenteredThm`: with `FreshSuffixes = TRUE`,
  `Spec => PendingNeverReentered`. A pod that left Pending is a generated
  name that is not stored Pending (`Gone`, from `Generated` of
  `BindingInv`). By `PodWrites`, only `CreatePod` can store it Pending
  again, and only under a name not yet generated. So `Gone(p)` is stable.
  TLC shows the hypothesis is needed: with `FreshSuffixes = FALSE` the
  property is violated, because a reused name is created Pending again.
  `PendingNodeless` holds in that case.
* `LifecycleRefinementThm`: with `FreshSuffixes = TRUE`,
  `Spec => LifecycleRefinement`. That is, `Cluster` implements
  `PodLifecycle` under `LifeOf`: a name not generated is Unused, a deleted
  one Deleted, a stored one Pending or Placed by its status. The proof has
  three lemmas:
  * `NewNameCreated`: a name a step adds to `generated` was free, so
    `CreatePod` stores it Pending.
  * `LifecycleStep`: every other change of a name already generated is one
    of `PodWrites`' delete or non-Pending writes, that is a `Place` or a
    `Delete`.
  * The initial states map to `PodLifecycle`'s.

  The abstract step `Place` from Deleted is the stale status PUT that
  stores a deleted pod again (`StatusPutNeverRecreates` above, the hazard
  at `part_006:107`).

**Only model-checked.** Liveness (`Convergence`, `PendingEventuallyLeaves`
and the violated liveness properties) needs fairness and `ENABLED`, which
TLAPS cannot reason about. These stay with TLC.

## Not modelled

* **User `POST /pods`.** The controller is the only pod creator in the
  system's processes. A user's POST colliding with a name the controller
  draws at random is the hazard at `part_003:48`, which the model leaves
  out.
* **User `PUT /pods`.** Only the kubelet's status PUT is modelled. A user
  who overwrites a pod would be one more writer of stale copies, beside
  the scheduler and the kubelets.
* **A status PUT completed after its kubelet crashed.** See the fault
  model above.
* **`PUT /nodes` (`NodeRegistry.UpdateNode`).** A node is its name in the
  model, and no process reads a node's fields, so an update changes nothing
  the model holds.
* **Transient HTTP and etcd errors.** Each would end the controller through
  `log.Fatalf`, which `controller_exits` already reaches. The kubelet logs
  them. A failed status PUT is not retried, because the cache was updated
  before it; its effect is the lost status that `status_lost` shows.
* The `main` functions, flags, HTTP routing and JSON encoding.
* Makefiles, Dockerfiles and docs.
* The tests.

`PROJECT.json` lists each part and each hazard with the reason.

## Plans

* Prove a safety property of the controller, for example that its copy
  `snap` is always of a ReplicaSet it listed.
* Model user `POST /pods`, with colliding names, and check `NeverRebound`
  without `FreshSuffixes`.
* A larger `core_safety` instance (replicas 2, two crashes) once a faster
  machine allows it.
