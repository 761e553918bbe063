------------------------------- MODULE Cluster -------------------------------
(***************************************************************************)
(* The gokube control plane: the ReplicaSet controller, the scheduler and  *)
(* one kubelet per node, interacting only through the registries' store,   *)
(* and the users who call the API server.                                  *)
(***************************************************************************)
EXTENDS ReplicaSetController, Scheduler, Kubelet

CONSTANT MaxUserOps  \* how many API calls the users make in a behaviour

ASSUME MaxUserOpsAssumption == MaxUserOps \in Nat

VARIABLE userOps     \* API calls made by users so far

ctrlVars == <<ctrl, generated>>
schedVars == <<sched>>
kubeletVars == <<kubelet, runtime, crashes>>
vars == <<pods, nodes, rsets, ctrl, generated, sched, kubelet, runtime, crashes, userOps>>

TypeOK ==
    /\ StoreTypeOK
    /\ CtrlTypeOK
    /\ SchedTypeOK
    /\ KubeletTypeOK
    /\ userOps \in 0..MaxUserOps

(***************************************************************************)
(* The cluster the end-to-end test sets up: a new etcd, the API server,    *)
(* the controller, the scheduler and one kubelet per node, each at the     *)
(* start of its loop.                                                      *)
(***************************************************************************)
Init ==
    /\ StoreInit
    /\ CtrlInit
    /\ SchedInit
    /\ KubeletInit
    /\ userOps = 0

(***************************************************************************)
(* Users, through the API server handlers (handlers/replicaset.go,        *)
(* handlers/pod.go, handlers/node.go).  A user's GET-modify-PUT is taken   *)
(* as one step; a request the load filter answers with 404 changes        *)
(* nothing and is left out.                                                *)
(***************************************************************************)
UserCall(A) ==
    /\ userOps < MaxUserOps
    /\ A
    /\ userOps' = userOps + 1
    /\ UNCHANGED <<ctrlVars, sched, kubeletVars>>

(* POST /replicasets: ReplicaSetRegistry.Create (no validation). *)
CreateReplicaset(r, k, t) ==
    /\ RSCreate(r, [replicas |-> k, template |-> t, status |-> 0])
    /\ UNCHANGED <<pods, nodes>>

(***************************************************************************)
(* LoadReplicasetIntoRequest, the filter of PUT and DELETE                 *)
(* /replicasets/{name}: ReplicaSetRegistry.Get answers 404 for a name not  *)
(* stored, and the handler is not called.                                  *)
(***************************************************************************)
LoadReplicasetIntoRequest(r) == rsets[r] # NONE

(* PUT /replicasets/{name} with a new spec.replicas. *)
UpdateReplicaset(r, k) ==
    /\ LoadReplicasetIntoRequest(r)
    /\ RSPut(r, [rsets[r] EXCEPT !.replicas = k])
    /\ UNCHANGED <<pods, nodes>>

(* DELETE /replicasets/{name} *)
DeleteReplicaset(r) ==
    /\ LoadReplicasetIntoRequest(r)
    /\ RSDelete(r)
    /\ UNCHANGED <<pods, nodes>>

(* DELETE /pods/{name} *)
DeletePod(p) ==
    /\ pods[p] # NONE
    /\ pods' = [pods EXCEPT ![p] = NONE]
    /\ UNCHANGED <<nodes, rsets>>

(* LoadNodeIntoRequest: GetNode answers 404 for a node not registered. *)
LoadNodeIntoRequest(n) == n \in nodes

(* DELETE /nodes/{name}: no pod bound to the node is touched. *)
DeleteNodeRequest(n) ==
    /\ LoadNodeIntoRequest(n)
    /\ DeleteNode(n)
    /\ UNCHANGED <<pods, rsets>>

(* The routes of the API server that change the store. *)
UserNext ==
    \/ \E r \in RSNames, k \in 0..MaxReplicas, t \in Templates :
          UserCall(CreateReplicaset(r, k, t))
    \/ \E r \in RSNames, k \in 0..MaxReplicas : UserCall(UpdateReplicaset(r, k))
    \/ \E r \in RSNames : UserCall(DeleteReplicaset(r))
    \/ \E p \in PodNames : UserCall(DeletePod(p))
    \/ \E n \in Nodes : UserCall(DeleteNodeRequest(n))

(* The controller process: runController starts rsController.Start. *)
ControllerProcess == CtrlNext /\ UNCHANGED <<sched, kubeletVars, userOps>>

(* The scheduler process: runScheduler starts sched.Start. *)
SchedulerProcess == SchedNext /\ UNCHANGED <<ctrlVars, kubeletVars, userOps>>

(* The kubelet process of node n: runKubelet creates and starts it. *)
KubeletProcess(n) == KubeletNext(n) /\ UNCHANGED <<ctrlVars, sched, userOps>>

Next ==
    \/ ControllerProcess
    \/ SchedulerProcess
    \/ \E n \in Nodes : KubeletProcess(n)
    \/ \E n \in Nodes : KubeletCrash(n) /\ UNCHANGED <<ctrlVars, sched, userOps>>
    \/ UserNext

(***************************************************************************)
(* Fairness: every loop is driven by a ticker or sleeps and polls again,   *)
(* and every goroutine it starts runs to its end; users need not act, and  *)
(* nothing forces a crash.                                                 *)
(***************************************************************************)
Fairness ==
    /\ WF_vars(ControllerProcess)
    /\ WF_vars(SchedulerProcess)
    /\ \A n \in Nodes : WF_vars(KubeletProcess(n))

Spec == Init /\ [][Next]_vars
FairSpec == Spec /\ Fairness

-----------------------------------------------------------------------------
(* Properties. *)

(***************************************************************************)
(* A node runs only the pods bound to it: every container the runtime of  *)
(* node n holds belongs to a pod that is gone or has nodeName n.  The spec *)
(* (4.6) has the kubelet's poller filter GET /pods by pod.nodeName = self; *)
(* runNewPods starts a runPod for every new pod it is given.               *)
(***************************************************************************)
RunsOnlyOnAssignedNode ==
    \A n \in Nodes : \A ctr \in runtime[n] :
        pods[ctr.pod] # NONE => pods[ctr.pod].nodeName = n

(***************************************************************************)
(* Once a pod's nodeName is set it never changes, not even back to empty   *)
(* (the Pod invariant of spec section 3).  The scheduler sets it; the      *)
(* kubelet's status PUT sends back the whole copy it cached when it first  *)
(* saw the pod.                                                            *)
(***************************************************************************)
NodeNameImmutable ==
    [][\A p \in PodNames :
         (pods[p] # NONE /\ pods'[p] # NONE /\ pods[p].nodeName # NoNode)
            => pods'[p].nodeName = pods[p].nodeName]_vars

(***************************************************************************)
(* A pod bound to a node is never bound to another one: "a pod is never    *)
(* re-bound because binding flips status away from Pending" (spec 4.5).    *)
(* It rests on the scheduler listing only Pending pods, no writer setting  *)
(* a pod back to Pending, and the kubelet's stale PUT carrying either no   *)
(* node or the node the scheduler chose.                                   *)
(***************************************************************************)
NeverRebound ==
    [][\A p \in PodNames :
         (pods[p] # NONE /\ pods'[p] # NONE /\ pods[p].nodeName # NoNode
          /\ pods'[p].nodeName # NoNode)
            => pods'[p].nodeName = pods[p].nodeName]_vars

(***************************************************************************)
(* The copies of pod p that some process may write back to the store: the  *)
(* stored pod and every kubelet's cached copy; and the nodes they name.    *)
(***************************************************************************)
Copies(p) == ({pods[p]} \cup {kubelet[n].pods[p] : n \in Nodes}) \ {NONE}

BoundNodes(p) == {c.nodeName : c \in Copies(p)} \ {NoNode}

(***************************************************************************)
(* The refinement mapping to PodBinding: a pod is bound to the node its    *)
(* records name, and to none when none names one.                          *)
(***************************************************************************)
BindingOf ==
    [p \in PodNames |-> IF BoundNodes(p) = {} THEN NoNode
                        ELSE CHOOSE n \in BoundNodes(p) : TRUE]

PB == INSTANCE PodBinding WITH Pods <- PodNames, boundTo <- BindingOf

(***************************************************************************)
(* The refinement mapping to PodLifecycle: a name GenerateName has not    *)
(* returned is unused; a generated name is deleted when no pod is stored  *)
(* under it, Pending when the stored pod is, and placed otherwise.        *)
(***************************************************************************)
LifeOf ==
    [p \in PodNames |->
        IF p \notin generated THEN "Unused"
        ELSE IF pods[p] = NONE THEN "Deleted"
        ELSE IF pods[p].status = "Pending" THEN "Pending"
        ELSE "Placed"]

PL == INSTANCE PodLifecycle WITH Pods <- PodNames, life <- LifeOf

(***************************************************************************)
(* Why a pod is never re-bound, as a state invariant of four parts.        *)
(* Generated: every pod name stored, listed by the scheduler or cached by  *)
(* a kubelet was returned by GenerateName, so CreatePod never reuses a     *)
(* name a stale copy still carries.  PendingUnbound: no copy of a stored   *)
(* Pending pod names a node.  ListedUnbound: the same holds of a pod the   *)
(* scheduler listed and has not bound yet, and of its listed copy.         *)
(* SingleBinding: all copies of a pod that name a node name the same one.  *)
(* InFlight: a status PUT the API server has loaded carries the node of    *)
(* the kubelet's cached copy and a status other than Pending.  The stale   *)
(* PUTs of scheduler and kubelet then only write back no node or the node  *)
(* the scheduler chose.                                                    *)
(***************************************************************************)
Generated ==
    \A p \in PodNames :
        (pods[p] # NONE \/ sched.pending[p] # NONE
           \/ \E n \in Nodes : kubelet[n].pods[p] # NONE)
            => p \in generated

PendingUnbound ==
    \A p \in PodNames :
        pods[p] # NONE /\ pods[p].status = "Pending" => BoundNodes(p) = {}

ListedUnbound ==
    \A p \in PodNames :
        sched.pending[p] # NONE =>
            sched.pending[p].nodeName = NoNode /\ BoundNodes(p) = {}

SingleBinding == \A p \in PodNames : \A a, b \in BoundNodes(p) : a = b

InFlight ==
    \A n \in Nodes :
        kubelet[n].req # NONE =>
            LET c == kubelet[n].pods[kubelet[n].req.pod]
            IN  /\ c # NONE
                /\ kubelet[n].req.body.nodeName = c.nodeName
                /\ kubelet[n].req.body.status # "Pending"

BindingInv ==
    Generated /\ PendingUnbound /\ ListedUnbound /\ SingleBinding /\ InFlight

(***************************************************************************)
(* The controller process never exits: an error of one Reconcile must not  *)
(* crash the loop (spec 4.4), and a ReplicaSet gone when Reconcile         *)
(* re-fetches it is a no-op.  Run calls log.Fatalf on any error.           *)
(***************************************************************************)
ControllerAlive == ctrl.pc # "Crashed"

(***************************************************************************)
(* No ReplicaSet ever has more active pods than the largest spec.replicas  *)
(* a user asked for: the controller never creates more than the deficit   *)
(* it counted, and pods are destroyed only explicitly (spec section 3).    *)
(* The scheduler binds the copies it listed with UpdatePod, which also     *)
(* writes a pod deleted since the listing.                                 *)
(***************************************************************************)
NoOvershoot ==
    \A r \in RSNames : Cardinality(ActiveOwned(r)) <= MaxReplicas

(***************************************************************************)
(* Only users change spec.replicas: a step of the controller leaves the    *)
(* spec.replicas of every stored ReplicaSet as it is, since Reconcile only *)
(* writes back status.replicas (spec 4.4 step 7).  The code writes back    *)
(* the whole copy it read at the start of Reconcile.                       *)
(***************************************************************************)
ReplicasChangedOnlyByUsers ==
    [][ctrl' # ctrl =>
         \A r \in RSNames :
            (rsets[r] # NONE /\ rsets'[r] # NONE)
                => rsets'[r].replicas = rsets[r].replicas]_vars

(***************************************************************************)
(* Convergence: unless the controller has exited, eventually every stored  *)
(* ReplicaSet has, for good, at least spec.replicas active pods.  Users    *)
(* make finitely many calls; the controller's tick then recreates what     *)
(* they deleted.                                                           *)
(***************************************************************************)
Converged ==
    \A r \in RSNames :
        rsets[r] # NONE => Cardinality(ActiveOwned(r)) >= rsets[r].replicas

Convergence == <>[](ctrl.pc = "Crashed" \/ Converged)

(***************************************************************************)
(* Status projection: unless the controller has exited, eventually every   *)
(* stored ReplicaSet's status.replicas is for good the number of its       *)
(* active pods, or spec.replicas when there are more (spec 4.4 step 7 and  *)
(* the meaning of status.replicas in section 3).  Reconcile writes nothing *)
(* when the count already equals spec.replicas.                            *)
(***************************************************************************)
StatusCurrent ==
    \A r \in RSNames :
        rsets[r] # NONE =>
            LET cur == Cardinality(ActiveOwned(r))
            IN  rsets[r].status = IF cur > rsets[r].replicas
                                  THEN rsets[r].replicas ELSE cur

StatusEventuallyCurrent == <>[](ctrl.pc = "Crashed" \/ StatusCurrent)

(***************************************************************************)
(* A ReplicaSet is stored only by a user's POST: no step of another        *)
(* process turns a deleted ReplicaSet into a stored one (spec section 3:   *)
(* ReplicaSets are declared by users; ReplicaSetRegistry.Update answers    *)
(* NotFound for a missing key).  The controller's Update checks existence  *)
(* with a Get and then puts; the API server may delete in between.         *)
(***************************************************************************)
ReplicaSetsCreatedOnlyByUsers ==
    [][\A r \in RSNames :
         (rsets[r] = NONE /\ rsets'[r] # NONE) => userOps' = userOps + 1]_vars

(***************************************************************************)
(* A kubelet's status PUT never stores a pod that is not stored:          *)
(* LoadPodIntoRequest answers 404 for a missing pod (spec 4.3), so a pod   *)
(* the user deleted stays deleted.  The filter's Get and the handler's     *)
(* UpdatePod are two calls, and the pod may be deleted in between.         *)
(***************************************************************************)
StatusPutNeverRecreates ==
    [][\A n \in Nodes :
         LET req == kubelet[n].req
         IN  (req # NONE /\ kubelet'[n].req = NONE /\ pods[req.pod] = NONE)
                => pods'[req.pod] = NONE]_vars

(***************************************************************************)
(* A pod is only ever bound to a node that is registered when it is bound: *)
(* the scheduler chooses among the nodes it listed (spec 4.5), and S1      *)
(* expects every pod bound to a node of the registered set.  A node may be *)
(* deleted between ListNodes and the UpdatePod.                            *)
(***************************************************************************)
BindsOnlyToRegisteredNodes ==
    [][\A p \in PodNames :
         (pods'[p] # NONE /\ pods'[p].nodeName # NoNode
          /\ (pods[p] = NONE \/ pods[p].nodeName # pods'[p].nodeName))
            => pods'[p].nodeName \in nodes]_vars

(***************************************************************************)
(* Every kubelet that is down comes up again: a kubelet restarted after a  *)
(* crash (a panic on a failed image pull, the race on k.pods) registers    *)
(* and serves its node again.  registerNode treats the 409 for its own     *)
(* still-registered Node as a failure and Start aborts.                    *)
(***************************************************************************)
KubeletRejoins == \A n \in Nodes : kubelet[n].pc = "Down" ~> kubelet[n].pc = "Up"

(***************************************************************************)
(* A node runs each container of a pod at most once: the pod runner runs   *)
(* once per pod (spec 4.6) and no container state leaks (spec 5).  A       *)
(* restarted kubelet starts with an empty k.pods and does not look at the  *)
(* containers its labels would let it find.                                *)
(***************************************************************************)
OneContainerPerPod ==
    \A n \in Nodes : \A c1, c2 \in runtime[n] :
        (c1.pod = c2.pod /\ c1.name = c2.name) => c1 = c2

(***************************************************************************)
(* A pod whose containers run on the node it is bound to is eventually     *)
(* reported Running, unless it is deleted: "any container running" derives *)
(* Running (spec 4.6 and S6), and S1 expects every pod Scheduled/Running.  *)
(* getContainerState inspects the container by its bare spec name, which  *)
(* StartContainer never gives it.                                          *)
(***************************************************************************)
PodRunningReported ==
    \A n \in Nodes, p \in PodNames :
        (/\ pods[p] # NONE
         /\ pods[p].nodeName = n
         /\ \E c \in runtime[n] : c.pod = p /\ c.running)
            ~> (pods[p] = NONE \/ pods[p].status = "Running")

(***************************************************************************)
(* The status reporter keeps the stored status current: while kubelet n is *)
(* up and tracks a stored pod whose stored status is not the one n        *)
(* derives, the stored status eventually becomes the derived one, the pod  *)
(* is deleted or the kubelet goes down (spec 4.6: derive, and PUT when it  *)
(* changed).  updatePodStatuses compares the derived status with its own   *)
(* cached copy, never with the stored pod, and updates the cache before    *)
(* the PUT.                                                                *)
(***************************************************************************)
StatusEventuallyStored ==
    \A n \in Nodes, p \in PodNames :
        (/\ kubelet[n].pc = "Up"
         /\ kubelet[n].pods[p] # NONE
         /\ pods[p] # NONE
         /\ pods[p].status # getPodStatus(n, kubelet[n].pods[p]))
            ~> \/ pods[p] = NONE
               \/ kubelet[n].pc = "Down"
               \/ kubelet[n].pods[p] = NONE
               \/ pods[p].status = getPodStatus(n, kubelet[n].pods[p])

(***************************************************************************)
(* No pod stays Pending for ever: while the loops keep running, a stored   *)
(* Pending pod is eventually deleted or leaves Pending, bound by the       *)
(* scheduler's UpdatePod or reported by a kubelet's status PUT.  Nodes may *)
(* be deleted and kubelets may crash meanwhile (spec 4.5: the scheduler    *)
(* binds the Pending pods while a node is registered).  When every node   *)
(* is deleted it is the kubelets, which poll every pod whatever its node, *)
(* that move it on.                                                        *)
(***************************************************************************)
PendingEventuallyLeaves == \A p \in PodNames :
    (pods[p] # NONE /\ pods[p].status = "Pending")
      ~> (pods[p] = NONE \/ pods[p].status # "Pending")

(***************************************************************************)
(* The control plane implements PodBinding: whatever the interleaving of   *)
(* the scheduler's binds, the kubelets' stale PUTs and crashes, and the    *)
(* users' deletes, the node that the stored pod and the kubelets' cached   *)
(* copies name is set once and only cleared, never switched to another.   *)
(***************************************************************************)
BindingRefinement == PB!Spec

(***************************************************************************)
(* Spec 2 (Pod): status = Pending implies nodeName = "".  Of the stored   *)
(* pod: CreatePod stores a pod without a node, and every write that sets a *)
(* node, the scheduler's bind and the kubelet's status PUT, also sets a    *)
(* status other than Pending.  It holds whether or not names are reused.   *)
(***************************************************************************)
PendingNodeless ==
    \A p \in PodNames :
        pods[p] # NONE /\ pods[p].status = "Pending" => pods[p].nodeName = NoNode

(* The pod p is stored, with status Pending or with another status. *)
StoredPending(p) == pods[p] # NONE /\ pods[p].status = "Pending"
LeftPending(p) == pods[p] # NONE /\ pods[p].status # "Pending"

(***************************************************************************)
(* A pod that has been stored with a status other than Pending is never   *)
(* stored Pending again, also after it is deleted (spec 5: a pod is never  *)
(* re-bound because binding flips its status away from Pending).  The      *)
(* stale copies the scheduler binds and the kubelets PUT back never carry  *)
(* Pending, and the controller's CreatePod uses a name GenerateName has    *)
(* not returned before.                                                    *)
(***************************************************************************)
PendingNeverReentered ==
    \A p \in PodNames : [](LeftPending(p) => []~StoredPending(p))

(***************************************************************************)
(* The control plane implements PodLifecycle: whatever the interleaving   *)
(* of the controller's creates, the scheduler's and kubelets' stale puts, *)
(* the crashes and the users' deletes, a pod name is created once,        *)
(* Pending, and once off Pending never returns to Pending or to unused.   *)
(***************************************************************************)
LifecycleRefinement == PL!Spec

=============================================================================
