------------------------------ MODULE Registry ------------------------------
(***************************************************************************)
(* The shared state of gokube: the etcd keyspace as the three registries   *)
(* see it (PodRegistry, NodeRegistry, ReplicaSetRegistry), and the         *)
(* registry and API-handler operations the control loops call.             *)
(*                                                                         *)
(* etcd is a strongly consistent KV store: each Get, Put and Delete is one *)
(* atomic step.  A registry operation that makes two KV calls (the         *)
(* existence check before a write) is two steps where another process  *)
(* can write between them; see the README.  EtcdStorage implements Create *)
(* and Update alike as one unconditional client.Put.                       *)
(***************************************************************************)
EXTENDS Naturals, Sequences, FiniteSets

CONSTANTS
    Nodes,          \* node names, one per kubelet (model values)
    NoNode,         \* the empty Pod.NodeName "" (model value)
    RSNames,        \* ReplicaSet names, as sequences of characters
    Suffixes,       \* the random 5-character suffixes (model values)
    ContainerNames, \* container names (model values)
    Templates,      \* container lists a user may put in spec.template
    MaxReplicas,    \* largest spec.replicas a user submits
    NONE            \* an absent key

ASSUME NoNodeAssumption == NoNode \notin Nodes
ASSUME MaxReplicasAssumption == MaxReplicas \in Nat
ASSUME FiniteNamesAssumption == IsFiniteSet(RSNames) /\ IsFiniteSet(Suffixes)
ASSUME TemplatesAssumption == Templates \subseteq Seq(ContainerNames)

VARIABLES
    pods,   \* /pods/<name>            -> Pod
    nodes,  \* /registry/nodes/<name>  -> Node (registered node names)
    rsets   \* /replicasets/<name>     -> ReplicaSet

(* The key spaces behind storage.Storage, on which its calls act. *)
storeVars == <<pods, nodes, rsets>>

(***************************************************************************)
(* Names are sequences of characters.  GenerateName(base) returns base     *)
(* followed by a 5-character random suffix with no separator               *)
(* (generate.go), the suffix taken here as one symbol; ownership is        *)
(* strings.HasPrefix(pod.Name, rs.Name) (pod.go IsOwnedBy).                *)
(***************************************************************************)
GenerateName(base, suffix) == Append(base, suffix)

PodNames == {GenerateName(r, s) : r \in RSNames, s \in Suffixes}

HasPrefix(s, prefix) ==
    Len(prefix) <= Len(s) /\ SubSeq(s, 1, Len(prefix)) = prefix

IsOwnedBy(p, r) == HasPrefix(p, r)

(***************************************************************************)
(* Records.  Only the fields the control loops read or write are kept:    *)
(* a Pod's containers, nodeName and status; a ReplicaSet's spec.replicas,  *)
(* spec.template.spec.containers and status.replicas.                      *)
(***************************************************************************)
PodStatuses == {"Pending", "Scheduled", "Running", "Succeeded", "Failed"}

PodRec == [containers : Seq(ContainerNames),
           nodeName   : Nodes \cup {NoNode},
           status     : PodStatuses]

RSRec == [replicas : 0..MaxReplicas,
          template : Templates,
          status   : 0..MaxReplicas]

(* An absent key is not a pod: NONE is none of the records of PodRec. *)
ASSUME NoneAssumption == NONE \notin PodRec

StoreTypeOK ==
    /\ pods \in [PodNames -> PodRec \cup {NONE}]
    /\ nodes \subseteq Nodes
    /\ rsets \in [RSNames -> RSRec \cup {NONE}]

(***************************************************************************)
(* Pod.Validate: spec.containers is required and non-empty (each          *)
(* container's name and image are model values, always set).              *)
(***************************************************************************)
ValidPod(rec) == Len(rec.containers) > 0

(* Pod.IsActive: every status but Failed. *)
IsActive(rec) == rec.status # "Failed"

(* IsPodActiveAndOwnedBy over a ListPods result. *)
ActiveOwned(r) ==
    {p \in PodNames : pods[p] # NONE /\ IsOwnedBy(p, r) /\ IsActive(pods[p])}

(* Mutant: the status filter of listPodsByStatus dropped. *)
ListPendingPodsAnyStatus == {p \in PodNames : pods[p] # NONE}

(* listPodsByStatus(PodPending), used by ListPendingPods. *)
ListPendingPods == {p \in PodNames : pods[p] # NONE /\ pods[p].status = "Pending"}

(***************************************************************************)
(* The keyspace of a new etcd: StartEmbeddedEtcd gives the server a fresh *)
(* temporary data directory, so no key exists.                            *)
(***************************************************************************)
StoreInit ==
    /\ pods = [p \in PodNames |-> NONE]
    /\ nodes = {}
    /\ rsets = [r \in RSNames |-> NONE]

(* ReplicaSetRegistry.List *)
ListReplicaSets == {r \in RSNames : rsets[r] # NONE}

(***************************************************************************)
(* ReplicaSetRegistry.Create: a Get finds no ReplicaSet of that name (else *)
(* ErrReplicaSetExists), then the put.  Nothing is validated.             *)
(***************************************************************************)
RSCreate(r, rec) ==
    /\ rsets[r] = NONE
    /\ rsets' = [rsets EXCEPT ![r] = rec]

(* ReplicaSetRegistry.Delete: an unconditional delete of the key. *)
RSDelete(r) == rsets' = [rsets EXCEPT ![r] = NONE]

(***************************************************************************)
(* The put of ReplicaSetRegistry.Update, made after its existence check:   *)
(* storage.Update is an unconditional put, so it stores the ReplicaSet     *)
(* whether or not the key still exists.                                    *)
(***************************************************************************)
RSPut(r, rec) == rsets' = [rsets EXCEPT ![r] = rec]

(* NodeRegistry.ListNodes *)
ListNodes == nodes

(***************************************************************************)
(* POST /nodes: NodeRegistry.CreateNode answers ErrNodeAlreadyExists (409) *)
(* when GetNode finds the node, and stores it otherwise (the node's name,  *)
(* the only field Validate requires, is always set).                      *)
(***************************************************************************)
CreateNode(n) ==
    IF n \in nodes THEN UNCHANGED nodes ELSE nodes' = nodes \cup {n}

(***************************************************************************)
(* NodeHandler.CreateNode, the answer to POST /nodes: the registry's       *)
(* ErrNodeAlreadyExists is 409 Conflict, a stored node is 201 Created.     *)
(***************************************************************************)
CreateNodeAnswer(n) == IF n \in nodes THEN 409 ELSE 201

(* NodeRegistry.DeleteNode: an unconditional delete of the key. *)
DeleteNode(n) == nodes' = nodes \ {n}

(***************************************************************************)
(* PodRegistry.CreatePod after its existence check passed: an empty       *)
(* status defaults to Pending, the pod is validated and stored.            *)
(***************************************************************************)
CreatePod(p, rec) ==
    /\ ValidPod(rec)
    /\ pods' = [pods EXCEPT ![p] = rec]

(* Mutant: UpdatePod keeps the stored status, as for a status subresource. *)
UpdatePodKeepStatus(p, rec) ==
    /\ ValidPod(rec)
    /\ pods' = [pods EXCEPT ![p] = IF pods[p] = NONE THEN rec
                                    ELSE [rec EXCEPT !.status = pods[p].status]]

(***************************************************************************)
(* PodRegistry.UpdatePod: validate, then an unconditional put.  It does   *)
(* not check that the pod still exists.                                    *)
(***************************************************************************)
UpdatePod(p, rec) ==
    /\ ValidPod(rec)
    /\ pods' = [pods EXCEPT ![p] = rec]

=============================================================================
