-------------------------- MODULE PodBindingProofs --------------------------
(***************************************************************************)
(* Proof that the control plane implements the abstract specification      *)
(* PodBinding under the refinement mapping BindingOf of Cluster, for every *)
(* instance in which GenerateName never returns a name twice.  It rests on *)
(* the inductive invariant TypeOK /\ BindingInv of BindingProofs and on    *)
(* one step lemma: a step names a new node for a pod only when no record   *)
(* of the pod named one before.                                            *)
(***************************************************************************)
EXTENDS BindingProofs

USE NoneAssumption, NoNodeAssumption, MaxReplicasAssumption, TemplatesAssumption,
    MaxUserOpsAssumption, MaxCrashesAssumption

(* No step makes a record of p name a node unless no record named one. *)
NoNewNode(p) == (\A m : NamedBy(p, m)' => NamedBy(p, m)) \/ BoundNodes(p) = {}

(***************************************************************************)
(* Every step of the system names a node for a pod only if no record of    *)
(* the pod named one: SchedBind's pod names none (ListedUnbound), a        *)
(* kubelet's PUT carries the node of its cached copy (InFlight), and every *)
(* other step only copies, keeps or drops records.                         *)
(***************************************************************************)
LEMMA NoNewNodeStep ==
  ASSUME TypeOK, BindingInv, [Next]_vars, NEW p \in PodNames
  PROVE  NoNewNode(p)
<1>1. CASE ControllerProcess
  <2>0. kubelet' = kubelet
    BY <1>1 DEF ControllerProcess, kubeletVars
  <2>1. CASE CtrlRun \/ CtrlUpdate \/ CtrlUpdatePut \/ \E r \in RSNames : CtrlReconcile(r)
    <3>1. pods' = pods
      BY <2>1 DEF CtrlRun, CtrlUpdate, CtrlUpdatePut, CtrlReconcile, storeVars
    <3>. QED
      BY <2>0, <3>1 DEF NamedBy, NoNewNode
  <2>2. ASSUME NEW s \in Suffixes, CtrlCreatePod(s)
        PROVE  NoNewNode(p)
    <3>1. \A q \in PodNames : pods'[q] = pods[q] \/ pods'[q].nodeName = NoNode
      BY <2>2 DEF CtrlCreatePod, CreatePod, TypeOK, StoreTypeOK
    <3>. QED
      BY <2>0, <3>1 DEF NamedBy, NoNewNode
  <2>. QED
    BY <1>1, <2>1, <2>2 DEF ControllerProcess, CtrlNext
<1>2. CASE SchedulerProcess
  <2>0. kubelet' = kubelet
    BY <1>2 DEF SchedulerProcess, kubeletVars
  <2>1. CASE SchedList
    <3>1. pods' = pods
      BY <2>1 DEF SchedList, storeVars
    <3>. QED
      BY <2>0, <3>1 DEF NamedBy, NoNewNode
  <2>2. ASSUME NEW q \in PodNames, NEW n \in Nodes, SchedBind(q, n)
        PROVE  NoNewNode(p)
    <3>1. CASE q = p
      BY <2>2, <3>1 DEF SchedBind, BindingInv, ListedUnbound, NoNewNode
    <3>2. CASE q # p
      <4>1. pods'[p] = pods[p]
        BY <2>2, <3>2 DEF SchedBind, UpdatePod, TypeOK, StoreTypeOK
      <4>. QED
        BY <2>0, <4>1 DEF NamedBy, NoNewNode
    <3>. QED
      BY <3>1, <3>2
  <2>. QED
    BY <1>2, <2>1, <2>2 DEF SchedulerProcess, SchedNext
<1>3. ASSUME NEW n \in Nodes, KubeletNext(n), UNCHANGED <<ctrlVars, sched, userOps>>
      PROVE  NoNewNode(p)
  <2>1. CASE KubeletStart(n)
    <3>1. \A k \in Nodes : kubelet'[k].pods = kubelet[k].pods
      BY <2>1 DEF KubeletStart, TypeOK, KubeletTypeOK
    <3>. QED
      BY <2>1, <3>1 DEF KubeletStart, NamedBy, NoNewNode
  <2>2. CASE KubeletPoll(n)
    <3>1. \A k \in Nodes : \/ kubelet'[k].pods[p] = kubelet[k].pods[p]
                           \/ kubelet'[k].pods[p] = pods[p]
      BY <2>2 DEF KubeletPoll, TypeOK, KubeletTypeOK
    <3>. QED
      BY <2>2, <3>1 DEF KubeletPoll, storeVars, NamedBy, NoNewNode
  <2>3. ASSUME NEW q \in PodNames, KubeletReport(n, q)
        PROVE  NoNewNode(p)
    <3> DEFINE rec == kubelet[n].pods[q]
               new == [rec EXCEPT !.status = getPodStatus(n, rec)]
    <3>1. rec \in PodRec /\ new.nodeName = rec.nodeName
      BY <2>3 DEF KubeletReport, TypeOK, KubeletTypeOK
    <3>2. /\ \A k \in Nodes : kubelet'[k].pods[p] =
                 IF k = n /\ q = p THEN new ELSE kubelet[k].pods[p]
          /\ pods' = pods
      BY <2>3 DEF KubeletReport, storeVars, TypeOK, KubeletTypeOK
    <3>3. ASSUME NEW k \in Nodes, NEW m,
                 kubelet'[k].pods[p] # NONE, kubelet'[k].pods[p].nodeName = m
          PROVE  kubelet[k].pods[p] # NONE /\ kubelet[k].pods[p].nodeName = m
      <4>1. CASE k = n /\ q = p
        BY <3>1, <3>2, <3>3, <4>1, NoneAssumption
      <4>2. CASE ~(k = n /\ q = p)
        BY <3>2, <3>3, <4>2
      <4>. QED
        BY <4>1, <4>2
    <3>. QED
      BY <3>2, <3>3 DEF NamedBy, NoNewNode
  <2>4. CASE KubeletPut(n)
    <3>1. PICK r0 \in PutRequest : r0 = kubelet[n].req
      BY <2>4 DEF KubeletPut, TypeOK, KubeletTypeOK
    <3>2. /\ kubelet[n].pods[r0.pod] # NONE
          /\ r0.body.nodeName = kubelet[n].pods[r0.pod].nodeName
      BY <2>4, <3>1 DEF BindingInv, InFlight, KubeletPut
    <3>3. /\ pods' = [pods EXCEPT ![r0.pod] = r0.body]
          /\ \A k \in Nodes : kubelet'[k].pods = kubelet[k].pods
          /\ r0.pod \in PodNames
      BY <2>4, <3>1 DEF KubeletPut, UpdatePod, TypeOK, KubeletTypeOK, PutRequest
    <3>. QED
      BY <3>2, <3>3 DEF NamedBy, NoNewNode, TypeOK, StoreTypeOK
  <2>. QED
    BY <1>3, <2>1, <2>2, <2>3, <2>4 DEF KubeletNext
<1>4. CASE \E n \in Nodes : KubeletProcess(n)
  BY <1>3, <1>4 DEF KubeletProcess
<1>5. ASSUME NEW n \in Nodes, KubeletCrash(n)
      PROVE  NoNewNode(p)
  <2>1. /\ pods' = pods
        /\ \A k \in Nodes \ {n} : kubelet'[k] = kubelet[k]
        /\ kubelet'[n].pods[p] = NONE
    BY <1>5 DEF KubeletCrash, NoPods, storeVars, TypeOK, KubeletTypeOK
  <2>. QED
    BY <2>1 DEF NamedBy, NoNewNode
<1>6. CASE \E n \in Nodes : KubeletCrash(n) /\ UNCHANGED <<ctrlVars, sched, userOps>>
  BY <1>5, <1>6
<1>7. CASE UserNext
  <2>1. kubelet' = kubelet /\ (pods'[p] = pods[p] \/ pods'[p] = NONE)
    BY <1>7 DEF UserNext, UserCall, kubeletVars, CreateReplicaset, UpdateReplicaset,
                DeleteReplicaset, DeletePod, DeleteNodeRequest, TypeOK, StoreTypeOK
  <2>. QED
    BY <2>1 DEF NamedBy, NoNewNode
<1>8. CASE UNCHANGED vars
  BY <1>8 DEF vars, NamedBy, NoNewNode
<1>. QED
  BY <1>1, <1>2, <1>4, <1>6, <1>7, <1>8 DEF Next

(* A pod bound to exactly one node is mapped to that node, before and after a step. *)
LEMMA BindingOfSingle ==
  ASSUME NEW p \in PodNames, NEW a
  PROVE  /\ BoundNodes(p) = {a} => BindingOf[p] = a
         /\ (BoundNodes(p) = {a})' => BindingOf'[p] = a
BY DEF BindingOf

(* A pod no record binds is mapped to NoNode, before and after a step. *)
LEMMA BindingOfNone ==
  ASSUME NEW p \in PodNames
  PROVE  /\ BoundNodes(p) = {} => BindingOf[p] = NoNode
         /\ (BoundNodes(p) = {})' => BindingOf'[p] = NoNode
BY DEF BindingOf

(* The nodes the records of a pod name are nodes. *)
LEMMA BoundNodesType ==
  ASSUME TypeOK, NEW p \in PodNames
  PROVE  BoundNodes(p) \subseteq Nodes
BY DEF TypeOK, StoreTypeOK, KubeletTypeOK, BoundNodes, Copies, PodRec

(* A nonempty set whose elements are all equal is a singleton. *)
LEMMA SingleBound ==
  ASSUME NEW S, S # {}, \A a, b \in S : a = b
  PROVE  \E a \in S : S = {a}
OBVIOUS

(***************************************************************************)
(* A step between two states of the invariant is a step of PodBinding:    *)
(* per pod, the binding stays, is set from none, or is cleared.           *)
(***************************************************************************)
LEMMA RefinementStep ==
  ASSUME TypeOK, BindingInv, TypeOK', BindingInv', [Next]_vars
  PROVE  PB!Next
<1>1. ASSUME NEW p \in PodNames
      PROVE  /\ BindingOf'[p] \in Nodes \cup {NoNode}
             /\ \/ BindingOf'[p] = BindingOf[p]
                \/ PB!Release(p)
                \/ \E n \in Nodes : PB!Bind(p, n)
  <2>1. NoNewNode(p)
    BY <1>1, NoNewNodeStep
  <2>2. CASE BoundNodes(p)' = {}
    <3>1. BindingOf'[p] = NoNode
      BY <1>1, <2>2, BindingOfNone
    <3>2. CASE BoundNodes(p) = {}
      BY <1>1, <3>1, <3>2, BindingOfNone
    <3>3. CASE BoundNodes(p) # {}
      <4>1. PICK a \in BoundNodes(p) : BoundNodes(p) = {a}
        BY <1>1, <3>3, SingleBound DEF BindingInv, SingleBinding
      <4>2. BindingOf[p] = a /\ a # NoNode
        BY <1>1, <4>1, BindingOfSingle DEF BoundNodes
      <4>. QED
        BY <3>1, <4>2 DEF PB!Release
    <3>. QED
      BY <3>1, <3>2, <3>3
  <2>3. CASE BoundNodes(p)' # {}
    <3>1. PICK b \in BoundNodes(p)' : (BoundNodes(p) = {b})'
      BY <1>1, <2>3, SingleBound DEF BindingInv, SingleBinding
    <3>2. b \in Nodes
      BY <1>1, <3>1 DEF TypeOK, StoreTypeOK, KubeletTypeOK, BoundNodes, Copies, PodRec
    <3>3. BindingOf'[p] = b
      BY <1>1, <3>1, BindingOfSingle
    <3>4. CASE BoundNodes(p) = {}
      <4>1. BindingOf[p] = NoNode
        BY <1>1, <3>4, BindingOfNone
      <4>. QED
        BY <3>2, <3>3, <4>1 DEF PB!Bind
    <3>5. CASE BoundNodes(p) # {}
      <4>1. NamedBy(p, b)'
        BY <3>1, BoundNodesDef
      <4>2. NamedBy(p, b)
        BY <2>1, <3>5, <4>1 DEF NoNewNode
      <4>3. b \in BoundNodes(p)
        BY <4>2, BoundNodesDef
      <4>4. PICK a \in BoundNodes(p) : BoundNodes(p) = {a}
        BY <1>1, <3>5, SingleBound DEF BindingInv, SingleBinding
      <4>5. BindingOf[p] = b
        BY <1>1, <4>3, <4>4, BindingOfSingle
      <4>. QED
        BY <3>2, <3>3, <4>5
    <3>. QED
      BY <3>4, <3>5
  <2>. QED
    BY <2>2, <2>3
<1>2. BindingOf' \in [PodNames -> Nodes \cup {NoNode}]
  BY <1>1 DEF BindingOf
<1>. QED
  BY <1>1, <1>2 DEF PB!Next

(* The initial state is mapped to PodBinding's: no pod is bound. *)
LEMMA RefinementInit ==
  ASSUME Init
  PROVE  PB!Init
<1>1. \A p \in PodNames : BoundNodes(p) = {}
  BY DEF Init, StoreInit, KubeletInit, NoPods, BoundNodes, Copies
<1>. QED
  BY <1>1, BindingOfNone DEF PB!Init, BindingOf

(***************************************************************************)
(* When GenerateName never returns a name twice, the control plane         *)
(* implements PodBinding: the node that the stored pod and the kubelets'   *)
(* cached copies name is set once and only cleared, never switched.        *)
(***************************************************************************)
THEOREM BindingRefinementThm ==
  ASSUME FreshSuffixes = TRUE
  PROVE  Spec => BindingRefinement
<1>1. Init => PB!Init
  BY RefinementInit
<1>2. IInv /\ IInv' /\ [Next]_vars => [PB!Next]_BindingOf
  BY RefinementStep DEF IInv
<1>3. Spec => []IInv
  BY BindingInvariant DEF IInv
<1>. QED
  BY <1>1, <1>2, <1>3, PTL DEF Spec, BindingRefinement, PB!Spec
=============================================================================
