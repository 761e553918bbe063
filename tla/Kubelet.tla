------------------------------- MODULE Kubelet -------------------------------
(***************************************************************************)
(* The node agent (kubelet/kubelet.go), one per node.  Start registers the *)
(* node; then two goroutines run: watchPods polls GET /pods and starts a   *)
(* runPod goroutine for every pod name it has not seen, and                *)
(* updatePodStatuses derives each tracked pod's status from the container  *)
(* runtime and PUTs the tracked copy back when the status changed.  The    *)
(* container runtime (Docker) is the per-node set of containers.           *)
(***************************************************************************)
EXTENDS Registry

CONSTANT MaxCrashes  \* how many kubelet crashes a behaviour contains

ASSUME MaxCrashesAssumption == MaxCrashes \in Nat

VARIABLES
    kubelet,  \* kubelet[n]: pc, the in-memory map k.pods, the PUT in flight
    runtime,  \* runtime[n]: the containers Docker holds on node n
    crashes   \* kubelet crashes so far

(***************************************************************************)
(* A container as Docker reports it.  uid stands for the random suffix of  *)
(* its Docker name: runPod of the same pod by two incarnations of the      *)
(* kubelet gives two containers (the model takes the crash count).         *)
(***************************************************************************)
Container == [pod : PodNames, name : ContainerNames, uid : 0..MaxCrashes,
              running : BOOLEAN, exitCode : {0, 1}]

(* A PUT /pods/{name} the API server has loaded and not yet written. *)
PutRequest == [pod : PodNames, body : PodRec]

KubeletTypeOK ==
    /\ kubelet \in [Nodes -> [pc : {"Down", "Up"},
                              pods : [PodNames -> PodRec \cup {NONE}],
                              req : PutRequest \cup {NONE}]]
    /\ runtime \in [Nodes -> SUBSET Container]
    /\ crashes \in 0..MaxCrashes

(* NewKubelet: an empty k.pods; Docker starts empty. *)
NoPods == [p \in PodNames |-> NONE]

KubeletInit ==
    /\ kubelet = [n \in Nodes |-> [pc |-> "Down", pods |-> NoPods, req |-> NONE]]
    /\ runtime = [n \in Nodes |-> {}]
    /\ crashes = 0

(***************************************************************************)
(* The Docker name StartContainer gives a container:                       *)
(* GenerateName(pod.Name + "-" + containerName), unique per pod/container. *)
(***************************************************************************)
DockerName(ctr) == <<ctr.pod, ctr.name, ctr.uid>>

(***************************************************************************)
(* getContainerState(ctx, containerName): ContainerInspect by the name     *)
(* passed in; NotFound gives {exists: false} (exitCode 0).                 *)
(***************************************************************************)
ContainerStateOf(n, cname) ==
    IF \E ctr \in runtime[n] : DockerName(ctr) = cname
    THEN LET ctr == CHOOSE x \in runtime[n] : DockerName(x) = cname
         IN [exists |-> TRUE, running |-> ctr.running, exitCode |-> ctr.exitCode]
    ELSE [exists |-> FALSE, running |-> FALSE, exitCode |-> 0]

(***************************************************************************)
(* determinePodStatus and its four helpers, over a sequence of container   *)
(* states.                                                                 *)
(***************************************************************************)
anyContainerRunning(st) == \E i \in DOMAIN st : st[i].running
allContainersFailed(st) == \A i \in DOMAIN st : ~(st[i].exists /\ st[i].exitCode = 0)
anyContainerExists(st) == \E i \in DOMAIN st : st[i].exists
allContainersSucceeded(st) == \A i \in DOMAIN st : st[i].exitCode = 0

determinePodStatus(st) ==
    IF anyContainerRunning(st) THEN "Running"
    ELSE IF allContainersFailed(st) /\ anyContainerExists(st) THEN "Failed"
    ELSE IF allContainersSucceeded(st) THEN "Succeeded"
    ELSE "Scheduled"

(* getPodStatus: one getContainerState per container of the pod's spec. *)
getPodStatus(n, rec) ==
    determinePodStatus([i \in DOMAIN rec.containers |->
                            ContainerStateOf(n, rec.containers[i])])

(***************************************************************************)
(* Start/registerNode: POST /nodes with status Ready; 201 starts the two   *)
(* loops.  Any other answer makes Start fail and runKubelet exit: a node   *)
(* still registered (409) keeps its kubelet down, a step that changes      *)
(* nothing and is left out.                                                *)
(***************************************************************************)
KubeletStart(n) ==
    /\ kubelet[n].pc = "Down"
    /\ CreateNodeAnswer(n) = 201
    /\ CreateNode(n)
    /\ kubelet' = [kubelet EXCEPT ![n].pc = "Up"]
    /\ UNCHANGED <<pods, rsets, runtime, crashes>>

(***************************************************************************)
(* The containers runPod starts for a pod copy: StartContainer (pull,      *)
(* create, start) for each container of its spec, running on node n.       *)
(***************************************************************************)
runPod(rec, p, uid) ==
    {[pod |-> p, name |-> rec.containers[i], uid |-> uid,
      running |-> TRUE, exitCode |-> 0] : i \in DOMAIN rec.containers}

(***************************************************************************)
(* watchPods: getPodAssignments (GET /pods?nodeName=.. returns every pod:  *)
(* ListPods ignores the query), then runNewPods records every pod whose    *)
(* name is not yet in k.pods and starts runPod for it.  No nodeName test.  *)
(* The runPod goroutine is folded into this step: nothing the model reads  *)
(* depends on when its containers start (getContainerState never finds    *)
(* them, see ContainerStateOf).                                            *)
(***************************************************************************)
KubeletPoll(n) ==
    LET new == {p \in PodNames : pods[p] # NONE /\ kubelet[n].pods[p] = NONE}
    IN
    /\ kubelet[n].pc = "Up"
    /\ new # {}
    /\ kubelet' = [kubelet EXCEPT
                    ![n].pods = [p \in PodNames |->
                                   IF p \in new THEN pods[p] ELSE kubelet[n].pods[p]]]
    /\ runtime' = [runtime EXCEPT ![n] = @ \cup UNION {runPod(pods[p], p, crashes) : p \in new}]
    /\ UNCHANGED <<storeVars, crashes>>

(***************************************************************************)
(* updatePodStatuses, one tracked pod: getPodStatus; when it differs from  *)
(* the copy's status, set the copy's status, then updatePodStatus PUTs the *)
(* whole copy.  The API server's filter LoadPodIntoRequest answers 404 for *)
(* a pod not stored, and the copy is kept changed; otherwise the request   *)
(* waits for the handler's UpdatePod.  The reporter goroutine blocks until *)
(* the answer; watchPods goes on.                                          *)
(***************************************************************************)
KubeletReport(n, p) ==
    LET rec == kubelet[n].pods[p]
        st  == getPodStatus(n, rec)
        req == IF pods[p] = NONE THEN NONE
               ELSE [pod |-> p, body |-> [rec EXCEPT !.status = st]]
    IN
    /\ kubelet[n].pc = "Up"
    /\ kubelet[n].req = NONE
    /\ rec # NONE
    /\ st # rec.status
    /\ kubelet' = [kubelet EXCEPT ![n].pods[p].status = st, ![n].req = req]
    /\ UNCHANGED <<storeVars, runtime, crashes>>

(***************************************************************************)
(* PodHandler.UpdatePod for the loaded request: the names match, and       *)
(* UpdatePod puts the body, whether or not the pod is still stored.        *)
(***************************************************************************)
KubeletPut(n) ==
    LET req == kubelet[n].req
    IN
    /\ req # NONE
    /\ UpdatePod(req.pod, req.body)
    /\ kubelet' = [kubelet EXCEPT ![n].req = NONE]
    /\ UNCHANGED <<nodes, rsets, runtime, crashes>>

(***************************************************************************)
(* The kubelet process dies: a panic of a runPod goroutine on a failed     *)
(* image pull, Go's fatal error on the unsynchronised k.pods map, or any   *)
(* other exit.  k.pods and a PUT not yet handled are lost (the server      *)
(* cancels the request's context); Docker's containers and the Node key    *)
(* stay.  At most MaxCrashes crashes happen.                               *)
(***************************************************************************)
KubeletCrash(n) ==
    /\ kubelet[n].pc = "Up"
    /\ crashes < MaxCrashes
    /\ kubelet' = [kubelet EXCEPT ![n] = [pc |-> "Down", pods |-> NoPods, req |-> NONE]]
    /\ crashes' = crashes + 1
    /\ UNCHANGED <<storeVars, runtime>>

KubeletNext(n) ==
    \/ KubeletStart(n)
    \/ KubeletPoll(n)
    \/ \E p \in PodNames : KubeletReport(n, p)
    \/ KubeletPut(n)

=============================================================================
