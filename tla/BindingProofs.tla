---------------------------- MODULE BindingProofs ----------------------------
(***************************************************************************)
(* Proof that a pod is never bound to a second node (NeverRebound), for   *)
(* every instance in which GenerateName never returns a name twice.  The   *)
(* argument is the inductive invariant TypeOK /\ BindingInv of Cluster.    *)
(***************************************************************************)
EXTENDS ClusterProofs

USE NoNodeAssumption, MaxReplicasAssumption, TemplatesAssumption,
    MaxUserOpsAssumption, MaxCrashesAssumption

IInv == TypeOK /\ BindingInv

(* The step relation of NeverRebound. *)
NoRebind ==
    \A p \in PodNames :
        (pods[p] # NONE /\ pods'[p] # NONE /\ pods[p].nodeName # NoNode
         /\ pods'[p].nodeName # NoNode)
            => pods'[p].nodeName = pods[p].nodeName

(* Node m is named by the stored copy of p or by some kubelet's copy. *)
NamedBy(p, m) ==
    /\ m # NoNode
    /\ \/ pods[p] # NONE /\ pods[p].nodeName = m
       \/ \E n \in Nodes : kubelet[n].pods[p] # NONE /\ kubelet[n].pods[p].nodeName = m

(* BoundNodes(p), pointwise, before and after a step. *)
LEMMA BoundNodesDef ==
  ASSUME NEW p, NEW m
  PROVE  /\ m \in BoundNodes(p) <=> NamedBy(p, m)
         /\ (m \in BoundNodes(p))' <=> NamedBy(p, m)'
BY DEF BoundNodes, Copies, NamedBy

(* The status a kubelet derives is never Pending. *)
LEMMA StatusNotPending ==
  ASSUME NEW n, NEW rec
  PROVE  getPodStatus(n, rec) # "Pending"
BY DEF getPodStatus, determinePodStatus

(***************************************************************************)
(* A step that leaves the scheduler alone, forgets no generated name,     *)
(* stores or caches only pods some process already held, makes no pod      *)
(* Pending, names no new node for any pod and keeps InFlight keeps         *)
(* BindingInv.  Every action but SchedBind and a fresh CreatePod is of     *)
(* this kind.                                                              *)
(***************************************************************************)
LEMMA Shrinking ==
  ASSUME BindingInv,
         sched' = sched,
         generated \subseteq generated',
         \A p \in PodNames : pods'[p] # NONE =>
                               \/ pods[p] # NONE
                               \/ \E n \in Nodes : kubelet[n].pods[p] # NONE,
         \A p \in PodNames : pods'[p] # NONE /\ pods'[p].status = "Pending"
                               => pods[p] # NONE /\ pods[p].status = "Pending",
         \A p \in PodNames, n \in Nodes :
            kubelet'[n].pods[p] # NONE =>
                kubelet[n].pods[p] # NONE \/ pods[p] # NONE,
         \A p \in PodNames : BoundNodes(p)' \subseteq BoundNodes(p),
         InFlight'
  PROVE  BindingInv'
<1>1. Generated'
  BY DEF BindingInv, Generated
<1>2. PendingUnbound'
  BY DEF BindingInv, PendingUnbound
<1>3. ListedUnbound'
  BY DEF BindingInv, ListedUnbound
<1>4. SingleBinding'
  BY DEF BindingInv, SingleBinding
<1>. QED
  BY <1>1, <1>2, <1>3, <1>4 DEF BindingInv

(***************************************************************************)
(* A step that keeps every in-flight PUT and the cached copy it was made  *)
(* from keeps InFlight.                                                    *)
(***************************************************************************)
LEMMA InFlightKept ==
  ASSUME InFlight,
         \A k \in Nodes : /\ kubelet'[k].req = kubelet[k].req
                         /\ (kubelet[k].req # NONE =>
                               kubelet'[k].pods[kubelet[k].req.pod]
                                 = kubelet[k].pods[kubelet[k].req.pod])
  PROVE  InFlight'
BY DEF InFlight

(* In the initial state nothing is stored, listed or cached. *)
THEOREM InitBinding == Init => BindingInv
<1> SUFFICES ASSUME Init PROVE BindingInv
  OBVIOUS
<1>1. \A p \in PodNames : BoundNodes(p) = {}
  BY DEF Init, StoreInit, KubeletInit, NoPods, BoundNodes, Copies
<1>. QED
  BY <1>1 DEF Init, StoreInit, SchedInit, KubeletInit, NoPods, BindingInv, Generated,
             PendingUnbound, ListedUnbound, SingleBinding, InFlight

(***************************************************************************)
(* The controller's steps.  Only CtrlCreatePod writes a pod, and its name  *)
(* is fresh: by Generated no copy of it is stored, listed or cached, so    *)
(* the new Pending pod, which names no node, is its only copy.             *)
(***************************************************************************)
LEMMA CtrlBindingStep ==
  ASSUME TypeOK, BindingInv, FreshSuffixes = TRUE, CtrlNext,
         UNCHANGED <<sched, kubelet, runtime, crashes, userOps>>
  PROVE  BindingInv'
<1>0. InFlight'
  BY DEF BindingInv, InFlight
<1>1. CASE CtrlRun \/ CtrlUpdate \/ CtrlUpdatePut \/ \E r \in RSNames : CtrlReconcile(r)
  <2>1. pods' = pods /\ generated' = generated
    BY <1>1 DEF CtrlRun, CtrlUpdate, CtrlUpdatePut, CtrlReconcile, storeVars
  <2>2. \A p \in PodNames : BoundNodes(p)' \subseteq BoundNodes(p)
    BY <2>1, BoundNodesDef DEF NamedBy
  <2>. QED
    BY <1>0, <2>1, <2>2, Shrinking
<1>2. ASSUME NEW s \in Suffixes, CtrlCreatePod(s)
      PROVE  BindingInv'
  <2> DEFINE rec == [containers |-> <<Head(ctrl.todo)>>, nodeName |-> NoNode,
                     status |-> "Pending"]
  <2>0. PICK p0 \in PodNames : p0 = GenerateName(ctrl.rs, s)
    BY <1>2 DEF CtrlCreatePod, TypeOK, CtrlTypeOK, PodNames
  <2>1. p0 \notin generated /\ generated' = generated \cup {p0}
    BY <1>2, <2>0 DEF CtrlCreatePod
  <2>2. CASE pods[p0] # NONE
    <3>1. \A p \in PodNames : BoundNodes(p)' \subseteq BoundNodes(p)
      BY <1>2, <2>0, <2>2, BoundNodesDef DEF CtrlCreatePod, NamedBy
    <3>. QED
      BY <1>0, <1>2, <2>0, <2>1, <2>2, <3>1, Shrinking DEF CtrlCreatePod
  <2>3. CASE pods[p0] = NONE
    <3>1. pods' = [pods EXCEPT ![p0] = rec] /\ UNCHANGED <<nodes, rsets>>
      BY <1>2, <2>0, <2>3 DEF CtrlCreatePod, CreatePod
    <3>2. sched.pending[p0] = NONE /\ \A n \in Nodes : kubelet[n].pods[p0] = NONE
      BY <2>1, <2>3 DEF BindingInv, Generated
    <3>3. \A m : ~NamedBy(p0, m)'
      BY <2>1, <3>1, <3>2 DEF TypeOK, StoreTypeOK, NamedBy, rec
    <3>4. BoundNodes(p0)' = {}
      BY <3>3, BoundNodesDef
    <3>5. ASSUME NEW p \in PodNames \ {p0}, NEW m
          PROVE  NamedBy(p, m)' <=> NamedBy(p, m)
      BY <1>2, <3>1 DEF TypeOK, StoreTypeOK, NamedBy
    <3>6. \A p \in PodNames \ {p0} : BoundNodes(p)' = BoundNodes(p)
      BY <3>5, BoundNodesDef
    <3>7. Generated'
      BY <1>2, <2>1, <3>1 DEF BindingInv, Generated, TypeOK, StoreTypeOK
    <3>8. PendingUnbound'
      <4>1. pods'[p0] # NONE /\ pods'[p0].status = "Pending" => BoundNodes(p0)' = {}
        BY <3>4
      <4>2. ASSUME NEW p \in PodNames \ {p0}
            PROVE  pods'[p] # NONE /\ pods'[p].status = "Pending" => BoundNodes(p)' = {}
        BY <3>1, <3>6 DEF BindingInv, PendingUnbound, TypeOK, StoreTypeOK
      <4>3. ASSUME NEW p \in PodNames
            PROVE  pods'[p] # NONE /\ pods'[p].status = "Pending" => BoundNodes(p)' = {}
        <5>1. CASE p = p0
          BY <4>1, <5>1
        <5>2. CASE p # p0
          BY <4>2, <5>2
        <5>. QED
          BY <5>1, <5>2
      <4>. QED
        BY <4>3 DEF PendingUnbound
    <3>9. ListedUnbound'
      <4>1. ASSUME NEW p \in PodNames \ {p0}
            PROVE  sched'.pending[p] # NONE =>
                     sched'.pending[p].nodeName = NoNode /\ BoundNodes(p)' = {}
        BY <1>2, <3>6 DEF BindingInv, ListedUnbound
      <4>2. ASSUME NEW p \in PodNames
            PROVE  sched'.pending[p] # NONE =>
                     sched'.pending[p].nodeName = NoNode /\ BoundNodes(p)' = {}
        <5>1. CASE p = p0
          BY <1>2, <3>2, <5>1
        <5>2. CASE p # p0
          BY <4>1, <5>2
        <5>. QED
          BY <5>1, <5>2
      <4>. QED
        BY <4>2 DEF ListedUnbound
    <3>10. SingleBinding'
      BY <3>4, <3>6 DEF BindingInv, SingleBinding
    <3>. QED
      BY <1>0, <3>7, <3>8, <3>9, <3>10 DEF BindingInv
  <2>. QED
    BY <2>2, <2>3
<1>. QED
  BY <1>1, <1>2 DEF CtrlNext

(***************************************************************************)
(* The scheduler's steps.  SchedList copies only stored Pending pods, so   *)
(* by PendingUnbound nothing it lists names a node.  SchedBind writes the  *)
(* listed copy with node n, and by ListedUnbound no other copy of the pod  *)
(* names a node: afterwards n is the only node named.                      *)
(***************************************************************************)
LEMMA SchedBindingStep ==
  ASSUME TypeOK, BindingInv, SchedNext,
         UNCHANGED <<ctrlVars, kubelet, runtime, crashes, userOps>>
  PROVE  BindingInv'
<1>0. InFlight'
  BY DEF BindingInv, InFlight
<1>1. CASE SchedList
  <2>1. \A p \in PodNames : \A m : NamedBy(p, m)' <=> NamedBy(p, m)
    BY <1>1 DEF SchedList, NamedBy, storeVars
  <2>2. \A p \in PodNames : BoundNodes(p)' = BoundNodes(p)
    BY <2>1, BoundNodesDef
  <2>3. ASSUME NEW p \in PodNames, sched'.pending[p] # NONE
        PROVE  /\ pods[p] # NONE /\ pods[p].status = "Pending"
               /\ sched'.pending[p] = pods[p]
    BY <1>1, <2>3 DEF SchedList, ListPendingPods
  <2>4. ASSUME NEW p \in PodNames, sched'.pending[p] # NONE
        PROVE  sched'.pending[p].nodeName = NoNode /\ BoundNodes(p)' = {}
    <3>0. pods[p] # NONE /\ pods[p].status = "Pending" /\ sched'.pending[p] = pods[p]
      BY <2>3, <2>4
    <3>1. BoundNodes(p) = {}
      BY <3>0 DEF BindingInv, PendingUnbound
    <3>2. ~NamedBy(p, pods[p].nodeName)
      BY <3>1, BoundNodesDef
    <3>. QED
      BY <2>2, <3>0, <3>1, <3>2 DEF NamedBy
  <2>5. Generated'
    BY <1>1, <2>3 DEF BindingInv, Generated, SchedList, storeVars, ctrlVars
  <2>6. PendingUnbound' /\ SingleBinding'
    BY <1>1, <2>2 DEF BindingInv, PendingUnbound, SingleBinding, SchedList, storeVars
  <2>. QED
    BY <1>0, <2>4, <2>5, <2>6 DEF BindingInv, ListedUnbound
<1>2. ASSUME NEW p \in PodNames, NEW n \in Nodes, SchedBind(p, n)
      PROVE  BindingInv'
  <2>1. /\ sched.pending[p] # NONE
        /\ sched.pending[p] \in PodRec
        /\ pods'[p].nodeName = n /\ pods'[p].status = "Scheduled"
        /\ pods' = [pods EXCEPT ![p] = pods'[p]]
        /\ sched'.pending = [sched.pending EXCEPT ![p] = NONE]
    BY <1>2 DEF SchedBind, UpdatePod, TypeOK, SchedTypeOK, StoreTypeOK
  <2>2. BoundNodes(p) = {}
    BY <2>1 DEF BindingInv, ListedUnbound
  <2>3. \A m : NamedBy(p, m)' => m = n
    <3>1. \A m : \A k \in Nodes : ~(kubelet[k].pods[p] # NONE /\ kubelet[k].pods[p].nodeName = m /\ m # NoNode)
      BY <2>2, BoundNodesDef DEF NamedBy
    <3>. QED
      BY <1>2, <2>1, <3>1 DEF NamedBy, TypeOK, KubeletTypeOK, ctrlVars
  <2>4. \A m : m \in BoundNodes(p)' => m = n
    BY <2>3, BoundNodesDef
  <2>5. \A q \in PodNames \ {p} : BoundNodes(q)' = BoundNodes(q)
    <3>1. \A q \in PodNames \ {p} : \A m : NamedBy(q, m)' <=> NamedBy(q, m)
      BY <1>2, <2>1 DEF NamedBy, TypeOK, StoreTypeOK
    <3>. QED
      BY <3>1, BoundNodesDef
  <2>6. Generated'
    BY <1>2, <2>1 DEF BindingInv, Generated, TypeOK, StoreTypeOK, SchedTypeOK, ctrlVars
  <2>7. PendingUnbound'
    BY <2>1, <2>5 DEF BindingInv, PendingUnbound, TypeOK, StoreTypeOK
  <2>8. ListedUnbound'
    BY <2>1, <2>5 DEF BindingInv, ListedUnbound, TypeOK, SchedTypeOK
  <2>9. SingleBinding'
    BY <2>4, <2>5 DEF BindingInv, SingleBinding
  <2>. QED
    BY <1>0, <2>6, <2>7, <2>8, <2>9 DEF BindingInv
<1>. QED
  BY <1>1, <1>2 DEF SchedNext

(***************************************************************************)
(* The kubelet's steps only copy.  KubeletPoll caches stored pods.        *)
(* KubeletReport changes the status of a cached copy and, when the pod is  *)
(* stored, makes a PUT of it.  KubeletPut stores that body, even when the  *)
(* pod has been deleted meanwhile, but the body names the node of the      *)
(* cached copy and a status other than Pending (InFlight).  No copy names  *)
(* a node no copy named before.                                            *)
(***************************************************************************)
LEMMA KubeletBindingStep ==
  ASSUME TypeOK, BindingInv, NEW n \in Nodes, KubeletNext(n),
         UNCHANGED <<ctrlVars, sched, userOps>>
  PROVE  BindingInv'
<1>0. generated' = generated /\ sched' = sched
  BY DEF ctrlVars
<1>1. CASE KubeletStart(n)
  <2>1. \A k \in Nodes : kubelet'[k].pods = kubelet[k].pods /\ kubelet'[k].req = kubelet[k].req
    BY <1>1 DEF KubeletStart, TypeOK, KubeletTypeOK
  <2>2. \A p \in PodNames : \A m : NamedBy(p, m)' <=> NamedBy(p, m)
    BY <1>1, <2>1 DEF KubeletStart, NamedBy
  <2>3. \A p \in PodNames : BoundNodes(p)' \subseteq BoundNodes(p)
    BY <2>2, BoundNodesDef
  <2>4. InFlight'
    BY <2>1, InFlightKept DEF BindingInv
  <2>. QED
    BY <1>0, <1>1, <2>1, <2>3, <2>4, Shrinking DEF KubeletStart
<1>2. CASE KubeletPoll(n)
  <2>1. \A k \in Nodes, p \in PodNames :
           \/ kubelet'[k].pods[p] = kubelet[k].pods[p]
           \/ kubelet'[k].pods[p] = pods[p]
    BY <1>2 DEF KubeletPoll, TypeOK, KubeletTypeOK
  <2>2. \A p \in PodNames : \A m : NamedBy(p, m)' => NamedBy(p, m)
    BY <1>2, <2>1 DEF KubeletPoll, NamedBy, storeVars
  <2>3. \A p \in PodNames : BoundNodes(p)' \subseteq BoundNodes(p)
    BY <2>2, BoundNodesDef
  <2>4. \A k \in Nodes, p \in PodNames :
           kubelet[k].pods[p] # NONE => kubelet'[k].pods[p] = kubelet[k].pods[p]
    BY <1>2 DEF KubeletPoll, TypeOK, KubeletTypeOK
  <2>5. \A k \in Nodes : kubelet'[k].req = kubelet[k].req
    BY <1>2 DEF KubeletPoll, TypeOK, KubeletTypeOK
  <2>6. \A k \in Nodes : kubelet[k].req # NONE =>
           kubelet[k].req.pod \in PodNames /\ kubelet[k].pods[kubelet[k].req.pod] # NONE
    BY DEF BindingInv, InFlight, TypeOK, KubeletTypeOK, PutRequest
  <2>7. InFlight'
    BY <2>4, <2>5, <2>6, InFlightKept DEF BindingInv
  <2>. QED
    BY <1>0, <1>2, <2>1, <2>3, <2>7, Shrinking DEF KubeletPoll, storeVars
<1>3. ASSUME NEW p \in PodNames, KubeletReport(n, p)
      PROVE  BindingInv'
  <2> DEFINE rec == kubelet[n].pods[p]
             new == [rec EXCEPT !.status = getPodStatus(n, rec)]
  <2>1. /\ rec # NONE /\ rec \in PodRec
        /\ new.nodeName = rec.nodeName
        /\ new.status # "Pending"
        /\ kubelet[n].req = NONE
    BY <1>3, StatusNotPending DEF KubeletReport, TypeOK, KubeletTypeOK, PodRec
  <2>2. /\ \A k \in Nodes, q \in PodNames :
              kubelet'[k].pods[q] = IF k = n /\ q = p THEN new ELSE kubelet[k].pods[q]
        /\ \A k \in Nodes \ {n} : kubelet'[k].req = kubelet[k].req
        /\ kubelet'[n].req = IF pods[p] = NONE THEN NONE ELSE [pod |-> p, body |-> new]
        /\ pods' = pods
    BY <1>3, <2>1 DEF KubeletReport, storeVars, TypeOK, KubeletTypeOK
  <2>3. ASSUME NEW q \in PodNames, NEW m, NamedBy(q, m)'
        PROVE  NamedBy(q, m)
    <3>1. m # NoNode
      BY <2>3 DEF NamedBy
    <3>2. CASE pods'[q] # NONE /\ pods'[q].nodeName = m
      BY <2>2, <3>1, <3>2 DEF NamedBy
    <3>3. ASSUME NEW k \in Nodes, kubelet'[k].pods[q] # NONE,
                 kubelet'[k].pods[q].nodeName = m
          PROVE  NamedBy(q, m)
      <4>1. CASE k = n /\ q = p
        BY <2>1, <2>2, <3>1, <3>3, <4>1 DEF NamedBy
      <4>2. CASE ~(k = n /\ q = p)
        BY <2>2, <3>1, <3>3, <4>2 DEF NamedBy
      <4>. QED
        BY <4>1, <4>2
    <3>. QED
      BY <2>3, <3>2, <3>3 DEF NamedBy
  <2>4. \A q \in PodNames : BoundNodes(q)' \subseteq BoundNodes(q)
    BY <2>3, BoundNodesDef
  <2>5. \A q \in PodNames, k \in Nodes :
           kubelet'[k].pods[q] # NONE => kubelet[k].pods[q] # NONE \/ pods[q] # NONE
    BY <2>1, <2>2
  <2>6. ASSUME NEW k \in Nodes, kubelet'[k].req # NONE
        PROVE  LET c == kubelet'[k].pods[kubelet'[k].req.pod]
               IN  /\ c # NONE
                   /\ kubelet'[k].req.body.nodeName = c.nodeName
                   /\ kubelet'[k].req.body.status # "Pending"
    <3>1. CASE k = n
      <4>1. pods[p] # NONE
        BY <2>2, <2>6, <3>1
      <4>2. kubelet'[n].req = [pod |-> p, body |-> new]
        BY <2>2, <4>1
      <4>3. kubelet'[n].pods[p] = new
        BY <2>2
      <4>4. new # NONE
        <5>1. new \in PodRec
          BY <2>1, PodStatusType DEF PodRec
        <5>. QED
          BY <5>1, NoneAssumption
      <4>5. kubelet'[k].req.pod = p /\ kubelet'[k].req.body = new
        BY <3>1, <4>2
      <4>6. kubelet'[k].pods[p] = new
        BY <3>1, <4>3
      <4>. QED
        BY <2>1, <4>4, <4>5, <4>6
    <3>2. CASE k # n
      <4>1. kubelet[k].req # NONE /\ kubelet[k].req.pod \in PodNames
            /\ kubelet'[k].req = kubelet[k].req
        BY <2>2, <2>6, <3>2 DEF TypeOK, KubeletTypeOK, PutRequest
      <4>2. kubelet'[k].pods[kubelet[k].req.pod] = kubelet[k].pods[kubelet[k].req.pod]
        BY <2>2, <3>2, <4>1
      <4>3. LET c == kubelet[k].pods[kubelet[k].req.pod]
            IN  /\ c # NONE
                /\ kubelet[k].req.body.nodeName = c.nodeName
                /\ kubelet[k].req.body.status # "Pending"
        BY <4>1 DEF BindingInv, InFlight
      <4>. QED
        BY <4>1, <4>2, <4>3
    <3>. QED
      BY <3>1, <3>2
  <2>7. InFlight'
    BY <2>6 DEF InFlight
  <2>. QED
    BY <1>0, <2>2, <2>4, <2>5, <2>7, Shrinking
<1>4. CASE KubeletPut(n)
  <2>1. PICK r0 \in PutRequest : r0 = kubelet[n].req
    BY <1>4 DEF KubeletPut, TypeOK, KubeletTypeOK
  <2>2. /\ kubelet[n].pods[r0.pod] # NONE
        /\ r0.body.nodeName = kubelet[n].pods[r0.pod].nodeName
        /\ r0.body.status # "Pending"
    BY <1>4, <2>1 DEF BindingInv, InFlight, KubeletPut
  <2>3. /\ pods' = [pods EXCEPT ![r0.pod] = r0.body]
        /\ \A k \in Nodes : kubelet'[k].pods = kubelet[k].pods
        /\ \A k \in Nodes \ {n} : kubelet'[k].req = kubelet[k].req
        /\ kubelet'[n].req = NONE
    BY <1>4, <2>1 DEF KubeletPut, UpdatePod, TypeOK, KubeletTypeOK
  <2>4. r0.pod \in PodNames /\ r0.body \in PodRec
    BY DEF PutRequest
  <2>5. \A q \in PodNames : \A m : NamedBy(q, m)' => NamedBy(q, m)
    BY <2>2, <2>3, <2>4 DEF NamedBy, TypeOK, StoreTypeOK
  <2>6. \A q \in PodNames : BoundNodes(q)' \subseteq BoundNodes(q)
    BY <2>5, BoundNodesDef
  <2>7. \A q \in PodNames : pods'[q] # NONE =>
           \/ pods[q] # NONE
           \/ \E k \in Nodes : kubelet[k].pods[q] # NONE
    BY <2>2, <2>3, <2>4 DEF TypeOK, StoreTypeOK
  <2>8. \A q \in PodNames : pods'[q] # NONE /\ pods'[q].status = "Pending"
                              => pods[q] # NONE /\ pods[q].status = "Pending"
    BY <2>2, <2>3, <2>4 DEF TypeOK, StoreTypeOK
  <2>9. InFlight'
    BY <2>3 DEF BindingInv, InFlight
  <2>. QED
    BY <1>0, <2>3, <2>6, <2>7, <2>8, <2>9, Shrinking
<1>. QED
  BY <1>1, <1>2, <1>3, <1>4 DEF KubeletNext

(***************************************************************************)
(* A crash only drops copies: the kubelet's cache and its PUT in flight    *)
(* are lost, the store and every other process are untouched.             *)
(***************************************************************************)
LEMMA KubeletCrashBinding ==
  ASSUME TypeOK, BindingInv, NEW n \in Nodes, KubeletCrash(n),
         UNCHANGED <<ctrlVars, sched, userOps>>
  PROVE  BindingInv'
<1>1. /\ generated' = generated /\ sched' = sched /\ pods' = pods
      /\ \A k \in Nodes \ {n} : kubelet'[k] = kubelet[k]
      /\ \A q \in PodNames : kubelet'[n].pods[q] = NONE
      /\ kubelet'[n].req = NONE
  BY DEF KubeletCrash, NoPods, ctrlVars, storeVars, TypeOK, KubeletTypeOK
<1>2. \A q \in PodNames : \A m : NamedBy(q, m)' => NamedBy(q, m)
  BY <1>1 DEF NamedBy
<1>3. \A q \in PodNames : BoundNodes(q)' \subseteq BoundNodes(q)
  BY <1>2, BoundNodesDef
<1>4. InFlight'
  BY <1>1 DEF BindingInv, InFlight
<1>. QED
  BY <1>1, <1>3, <1>4, Shrinking

(* Users write no pod but delete them, which drops a copy. *)
LEMMA UserBindingStep ==
  ASSUME TypeOK, BindingInv, UserNext
  PROVE  BindingInv'
<1>0. generated' = generated /\ sched' = sched /\ kubelet' = kubelet
  BY DEF UserNext, UserCall, ctrlVars, kubeletVars
<1>1. \A p \in PodNames : pods'[p] = pods[p] \/ pods'[p] = NONE
  BY DEF UserNext, UserCall, CreateReplicaset, UpdateReplicaset, DeleteReplicaset,
         DeletePod, DeleteNodeRequest, TypeOK, StoreTypeOK
<1>2. \A p \in PodNames : \A m : NamedBy(p, m)' => NamedBy(p, m)
  BY <1>0, <1>1 DEF NamedBy
<1>3. \A p \in PodNames : BoundNodes(p)' \subseteq BoundNodes(p)
  BY <1>2, BoundNodesDef
<1>4. InFlight'
  BY <1>0 DEF BindingInv, InFlight
<1>. QED
  BY <1>0, <1>1, <1>3, <1>4, Shrinking

(***************************************************************************)
(* Every step of the system keeps BindingInv when names are fresh.        *)
(***************************************************************************)
LEMMA NextBinding ==
  ASSUME FreshSuffixes = TRUE, TypeOK, BindingInv, [Next]_vars
  PROVE  BindingInv'
<1>1. CASE ControllerProcess
  BY <1>1, CtrlBindingStep DEF ControllerProcess, kubeletVars
<1>2. CASE SchedulerProcess
  BY <1>2, SchedBindingStep DEF SchedulerProcess, kubeletVars
<1>3. CASE \E n \in Nodes : KubeletProcess(n)
  BY <1>3, KubeletBindingStep DEF KubeletProcess
<1>4. CASE \E n \in Nodes : KubeletCrash(n) /\ UNCHANGED <<ctrlVars, sched, userOps>>
  BY <1>4, KubeletCrashBinding
<1>5. CASE UserNext
  BY <1>5, UserBindingStep
<1>6. CASE UNCHANGED vars
  <2>1. \A p \in PodNames : BoundNodes(p)' \subseteq BoundNodes(p)
    BY <1>6, BoundNodesDef DEF vars, NamedBy
  <2>2. InFlight'
    BY <1>6 DEF vars, BindingInv, InFlight
  <2>. QED
    BY <1>6, <2>1, <2>2, Shrinking DEF vars
<1>. QED
  BY <1>1, <1>2, <1>3, <1>4, <1>5, <1>6 DEF Next

(***************************************************************************)
(* When GenerateName never returns a name twice, in every reachable state  *)
(* no copy of a Pending or listed pod names a node and all copies of a pod *)
(* that name a node agree.                                                 *)
(***************************************************************************)
THEOREM BindingInvariant ==
  ASSUME FreshSuffixes = TRUE
  PROVE  Spec => [](TypeOK /\ BindingInv)
<1>1. Init => TypeOK /\ BindingInv
  BY InitTypeOK, InitBinding
<1>2. TypeOK /\ BindingInv /\ [Next]_vars => (TypeOK /\ BindingInv)'
  BY NextTypeOK, NextBinding
<1>. QED
  BY <1>1, <1>2, PTL DEF Spec

(***************************************************************************)
(* A step never moves a stored pod from one node to another: the only      *)
(* writers of a pod that names a node are SchedBind, whose listed pod has  *)
(* no node anywhere, and KubeletReport, whose copy names the one node all  *)
(* copies agree on.                                                        *)
(***************************************************************************)
LEMMA NoRebindStep ==
  ASSUME TypeOK, BindingInv, [Next]_vars
  PROVE  NoRebind
<1> SUFFICES ASSUME NEW p \in PodNames, pods[p] # NONE, pods'[p] # NONE,
                    pods[p].nodeName # NoNode, pods'[p].nodeName # NoNode
             PROVE  pods'[p].nodeName = pods[p].nodeName
  BY DEF NoRebind
<1>1. NamedBy(p, pods[p].nodeName)
  BY DEF NamedBy
<1>2. CASE ControllerProcess
  <2>1. CASE CtrlRun \/ CtrlUpdate \/ CtrlUpdatePut \/ \E r \in RSNames : CtrlReconcile(r)
    BY <2>1 DEF CtrlRun, CtrlUpdate, CtrlUpdatePut, CtrlReconcile, storeVars
  <2>2. ASSUME NEW s \in Suffixes, CtrlCreatePod(s)
        PROVE  pods'[p] = pods[p]
    BY <2>2 DEF CtrlCreatePod, CreatePod, TypeOK, StoreTypeOK
  <2>. QED
    BY <1>2, <2>1, <2>2 DEF ControllerProcess, CtrlNext
<1>3. CASE SchedulerProcess
  <2>1. CASE SchedList
    BY <2>1 DEF SchedList, storeVars
  <2>2. ASSUME NEW q \in PodNames, NEW n \in Nodes, SchedBind(q, n)
        PROVE  pods'[p].nodeName = pods[p].nodeName
    <3>1. CASE q = p
      <4>1. BoundNodes(p) = {}
        BY <2>2, <3>1 DEF SchedBind, BindingInv, ListedUnbound
      <4>. QED
        BY <1>1, <4>1, BoundNodesDef
    <3>2. CASE q # p
      BY <2>2, <3>2 DEF SchedBind, UpdatePod, TypeOK, StoreTypeOK
    <3>. QED
      BY <3>1, <3>2
  <2>. QED
    BY <1>3, <2>1, <2>2 DEF SchedulerProcess, SchedNext
<1>4. ASSUME NEW n \in Nodes, KubeletNext(n)
      PROVE  pods'[p].nodeName = pods[p].nodeName
  <2>1. CASE KubeletStart(n) \/ KubeletPoll(n) \/ \E q \in PodNames : KubeletReport(n, q)
    BY <2>1 DEF KubeletStart, KubeletPoll, KubeletReport, storeVars
  <2>2. CASE KubeletPut(n)
    <3>1. PICK r0 \in PutRequest : r0 = kubelet[n].req
      BY <2>2 DEF KubeletPut, TypeOK, KubeletTypeOK
    <3>2. /\ kubelet[n].pods[r0.pod] # NONE
          /\ r0.body.nodeName = kubelet[n].pods[r0.pod].nodeName
      BY <2>2, <3>1 DEF BindingInv, InFlight, KubeletPut
    <3>3. pods' = [pods EXCEPT ![r0.pod] = r0.body] /\ r0.pod \in PodNames
      BY <2>2, <3>1 DEF KubeletPut, UpdatePod, PutRequest
    <3>4. CASE r0.pod = p
      <4>1. pods'[p].nodeName = kubelet[n].pods[p].nodeName
        BY <3>2, <3>3, <3>4 DEF TypeOK, StoreTypeOK
      <4>2. NamedBy(p, pods'[p].nodeName)
        BY <3>2, <3>4, <4>1 DEF NamedBy
      <4>. QED
        BY <1>1, <4>2, BoundNodesDef DEF BindingInv, SingleBinding
    <3>5. CASE r0.pod # p
      BY <3>3, <3>5 DEF TypeOK, StoreTypeOK
    <3>. QED
      BY <3>4, <3>5
  <2>. QED
    BY <1>4, <2>1, <2>2 DEF KubeletNext
<1>5. CASE \E n \in Nodes : KubeletProcess(n)
  BY <1>4, <1>5 DEF KubeletProcess
<1>6. CASE \E n \in Nodes : KubeletCrash(n) /\ UNCHANGED <<ctrlVars, sched, userOps>>
  BY <1>6 DEF KubeletCrash, storeVars
<1>7. CASE UserNext
  BY <1>7 DEF UserNext, UserCall, CreateReplicaset, UpdateReplicaset,
              DeleteReplicaset, DeletePod, DeleteNodeRequest, TypeOK, StoreTypeOK
<1>8. CASE UNCHANGED vars
  BY <1>8 DEF vars
<1>. QED
  BY <1>2, <1>3, <1>5, <1>6, <1>7, <1>8 DEF Next

(***************************************************************************)
(* NeverRebound: when GenerateName never returns a name twice, no pod      *)
(* bound to a node is ever bound to another, whatever the interleaving of  *)
(* the scheduler's and the kubelets' stale writes and the users' deletes.  *)
(***************************************************************************)
THEOREM NeverReboundThm ==
  ASSUME FreshSuffixes = TRUE
  PROVE  Spec => NeverRebound
<1>1. TypeOK /\ BindingInv /\ [Next]_vars => [NoRebind]_vars
  BY NoRebindStep
<1>2. Spec => [](TypeOK /\ BindingInv)
  BY BindingInvariant
<1>. QED
  BY <1>1, <1>2, PTL DEF Spec, NeverRebound, NoRebind

====
