---------------------------- MODULE ClusterProofs ----------------------------
(***************************************************************************)
(* Proofs about the Cluster specification, for every value of the          *)
(* constants that satisfies the assumptions of Registry,                   *)
(* ReplicaSetController and Cluster.                                       *)
(***************************************************************************)
EXTENDS Cluster, FiniteSetTheorems, SequenceTheorems, TLAPS

-----------------------------------------------------------------------------
(* Lemmas about the operators the model is built from. *)

(***************************************************************************)
(* There are finitely many pod names: GenerateName maps the finite set     *)
(* RSNames \X Suffixes onto PodNames.                                      *)
(***************************************************************************)
LEMMA PodNamesFinite == IsFiniteSet(PodNames)
<1> DEFINE f == [x \in RSNames \X Suffixes |-> GenerateName(x[1], x[2])]
<1>1. IsFiniteSet(RSNames \X Suffixes)
  BY FiniteNamesAssumption, FS_Product
<1>2. f \in [RSNames \X Suffixes -> PodNames]
  BY DEF PodNames
<1>3. \A t \in PodNames : \E x \in RSNames \X Suffixes : f[x] = t
  <2> SUFFICES ASSUME NEW r \in RSNames, NEW s \in Suffixes
               PROVE  \E x \in RSNames \X Suffixes : f[x] = GenerateName(r, s)
    BY DEF PodNames
  <2>1. <<r, s>> \in RSNames \X Suffixes /\ f[<<r, s>>] = GenerateName(r, s)
    OBVIOUS
  <2>. QED
    BY <2>1
<1>4. f \in Surjection(RSNames \X Suffixes, PodNames)
  BY <1>2, <1>3, Zenon DEF Surjection
<1>. QED
  BY <1>1, <1>4, FS_Surjection

(***************************************************************************)
(* The number of active pods Reconcile counts is a natural number.         *)
(***************************************************************************)
LEMMA ActiveOwnedCount ==
  ASSUME NEW r
  PROVE  Cardinality(ActiveOwned(r)) \in Nat
<1>1. ActiveOwned(r) \subseteq PodNames
  BY DEF ActiveOwned
<1>. QED
  BY <1>1, PodNamesFinite, FS_Subset, FS_CardinalityType

(***************************************************************************)
(* The creation loop's containers form a sequence of template containers, *)
(* empty exactly when the template is.                                     *)
(***************************************************************************)
LEMMA PodsToCreateType ==
  ASSUME NEW c \in Nat, NEW d \in Nat, c < d,
         NEW t \in Seq(ContainerNames)
  PROVE  /\ PodsToCreate(c, d, t) \in Seq(ContainerNames)
         /\ PodsToCreate(c, d, t) = <<>> <=> t = <<>>
<1> DEFINE m == (d - c) * Len(t)
<1>1. m \in Nat
  OBVIOUS
<1>2. \A k \in 1..m : ((k - 1) % Len(t)) + 1 \in 1..Len(t)
  OBVIOUS
<1>3. PodsToCreate(c, d, t) \in [1..m -> ContainerNames]
  BY <1>2 DEF PodsToCreate
<1>4. PodsToCreate(c, d, t) \in Seq(ContainerNames)
  BY <1>1, <1>3
<1>5. m = 0 <=> t = <<>>
  OBVIOUS
<1>. QED
  BY <1>3, <1>4, <1>5 DEF PodsToCreate

(* The status the kubelet derives is one of the five pod statuses. *)
LEMMA PodStatusType ==
  ASSUME NEW n, NEW rec
  PROVE  getPodStatus(n, rec) \in PodStatuses
BY DEF getPodStatus, determinePodStatus, PodStatuses

(* runPod starts containers of the pod copy it is given. *)
LEMMA RunPodType ==
  ASSUME NEW p \in PodNames, NEW rec \in PodRec, NEW u \in 0..MaxCrashes
  PROVE  runPod(rec, p, u) \subseteq Container
<1>1. \A i \in DOMAIN rec.containers : rec.containers[i] \in ContainerNames
  BY LenProperties DEF PodRec
<1>2. SUFFICES ASSUME NEW i \in DOMAIN rec.containers
               PROVE  [pod |-> p, name |-> rec.containers[i], uid |-> u,
                       running |-> TRUE, exitCode |-> 0] \in Container
  BY DEF runPod
<1>. QED
  BY <1>1 DEF Container

-----------------------------------------------------------------------------
(* Type correctness. *)

USE NoNodeAssumption, MaxReplicasAssumption, TemplatesAssumption,
    MaxUserOpsAssumption, MaxCrashesAssumption

(* The initial state is well typed. *)
THEOREM InitTypeOK == Init => TypeOK
<1> SUFFICES ASSUME Init PROVE TypeOK
  OBVIOUS
<1>1. StoreTypeOK
  BY DEF Init, StoreInit, StoreTypeOK
<1>2. CtrlTypeOK
  BY DEF Init, CtrlInit, CtrlTypeOK, CtrlPCs
<1>3. SchedTypeOK
  BY DEF Init, SchedInit, SchedTypeOK
<1>4. KubeletTypeOK
  BY DEF Init, KubeletInit, KubeletTypeOK, NoPods
<1>5. userOps \in 0..MaxUserOps
  BY DEF Init
<1>. QED
  BY <1>1, <1>2, <1>3, <1>4, <1>5 DEF TypeOK

(***************************************************************************)
(* Each controller step keeps the state well typed.  The Create and Update *)
(* steps rely on the conjuncts of CtrlTypeOK about those pcs: without them *)
(* Head(ctrl.todo) and GenerateName(ctrl.rs, s) would be unconstrained.    *)
(***************************************************************************)
LEMMA CtrlTypeOKStep ==
  ASSUME TypeOK, CtrlNext, UNCHANGED <<sched, kubelet, runtime, crashes, userOps>>
  PROVE  TypeOK'
<1>1. (SchedTypeOK /\ KubeletTypeOK /\ userOps \in 0..MaxUserOps)'
  BY DEF TypeOK, SchedTypeOK, KubeletTypeOK
<1>2. StoreTypeOK'
  <2>1. CASE CtrlRun
    BY <2>1 DEF TypeOK, StoreTypeOK, CtrlRun, storeVars
  <2>2. CASE \E r \in RSNames : CtrlReconcile(r)
    BY <2>2 DEF TypeOK, StoreTypeOK, CtrlReconcile, storeVars
  <2>3. ASSUME NEW s \in Suffixes, CtrlCreatePod(s)
        PROVE  StoreTypeOK'
    <3> DEFINE p   == GenerateName(ctrl.rs, s)
               rec == [containers |-> <<Head(ctrl.todo)>>, nodeName |-> NoNode,
                       status |-> "Pending"]
    <3>1. ctrl.todo \in Seq(ContainerNames) /\ ctrl.todo # <<>>
      BY <2>3 DEF TypeOK, CtrlTypeOK, CtrlCreatePod
    <3>2. rec \in PodRec
      BY <3>1, HeadTailProperties DEF PodRec, PodStatuses
    <3>. QED
      BY <2>3, <3>2 DEF TypeOK, StoreTypeOK, CtrlCreatePod, CreatePod
  <2>4. CASE CtrlUpdate
    BY <2>4 DEF TypeOK, StoreTypeOK, CtrlTypeOK, CtrlUpdate, storeVars
  <2>5. CASE CtrlUpdatePut
    BY <2>5 DEF TypeOK, StoreTypeOK, CtrlTypeOK, CtrlUpdatePut, RSPut
  <2>. QED
    BY <2>1, <2>2, <2>3, <2>4, <2>5 DEF CtrlNext
<1>3. CtrlTypeOK'
  <2>1. CASE CtrlRun
    BY <2>1 DEF TypeOK, CtrlTypeOK, CtrlRun, ListReplicaSets, CtrlPCs
  <2>2. ASSUME NEW r \in RSNames, CtrlReconcile(r)
        PROVE  CtrlTypeOK'
    <3>1. CASE rsets[r] = NONE
      BY <2>2, <3>1 DEF TypeOK, CtrlTypeOK, CtrlReconcile, CtrlPCs
    <3>2. CASE rsets[r] # NONE
      <4> DEFINE cur     == Cardinality(ActiveOwned(r))
                 desired == rsets[r].replicas
                 snap    == [rsets[r] EXCEPT !.status = ReconciledStatus(cur, desired)]
                 rest    == ctrl.queue \ {r}
                 todo    == PodsToCreate(cur, desired, rsets[r].template)
      <4>1. rsets[r] \in RSRec
        BY <3>2 DEF TypeOK, StoreTypeOK
      <4>2. cur \in Nat /\ desired \in Nat /\ snap \in RSRec
        BY <4>1, ActiveOwnedCount DEF RSRec, ReconciledStatus
      <4>3. rest \in SUBSET RSNames
        BY DEF TypeOK, CtrlTypeOK
      <4>4. CASE cur < desired
        <5>1. todo \in Seq(ContainerNames) /\ (todo = <<>> <=> rsets[r].template = <<>>)
          BY <4>1, <4>2, <4>4, PodsToCreateType DEF RSRec
        <5>2. ctrl' = [ctrl EXCEPT !.queue = rest, !.rs = r, !.snap = snap,
                          !.todo = todo, !.pc = IF todo = <<>> THEN "Update" ELSE "Create"]
          BY <2>2, <3>2, <4>4 DEF CtrlReconcile
        <5>3. generated' = generated
          BY <2>2 DEF CtrlReconcile
        <5>. QED
          BY <4>2, <4>3, <5>1, <5>2, <5>3 DEF TypeOK, CtrlTypeOK, CtrlPCs
      <4>5. CASE cur > desired
        <5>1. ctrl' = [ctrl EXCEPT !.queue = rest, !.rs = r, !.snap = snap, !.pc = "Update"]
          BY <2>2, <3>2, <4>2, <4>5 DEF CtrlReconcile
        <5>. QED
          BY <2>2, <4>2, <4>3, <5>1 DEF TypeOK, CtrlTypeOK, CtrlReconcile, CtrlPCs
      <4>6. CASE cur = desired
        <5>1. ctrl' = [ctrl EXCEPT !.queue = rest, !.pc = NextInRun(rest)]
          BY <2>2, <3>2, <4>2, <4>6 DEF CtrlReconcile
        <5>. QED
          BY <2>2, <4>3, <5>1 DEF TypeOK, CtrlTypeOK, CtrlReconcile, CtrlPCs, NextInRun
      <4>. QED
        BY <4>2, <4>4, <4>5, <4>6
    <3>. QED
      BY <3>1, <3>2
  <2>3. ASSUME NEW s \in Suffixes, CtrlCreatePod(s)
        PROVE  CtrlTypeOK'
    <3>1. ctrl.pc = "Create" /\ ctrl.rs \in RSNames /\ ctrl.snap \in RSRec
          /\ ctrl.todo \in Seq(ContainerNames) /\ ctrl.todo # <<>>
      BY <2>3 DEF TypeOK, CtrlTypeOK, CtrlCreatePod
    <3>2. GenerateName(ctrl.rs, s) \in PodNames
      BY <3>1 DEF PodNames
    <3>3. Tail(ctrl.todo) \in Seq(ContainerNames)
      BY <3>1, HeadTailProperties
    <3>. QED
      BY <2>3, <3>1, <3>2, <3>3 DEF TypeOK, CtrlTypeOK, CtrlCreatePod, CtrlPCs
  <2>4. CASE CtrlUpdate
    BY <2>4 DEF TypeOK, CtrlTypeOK, CtrlUpdate, CtrlPCs
  <2>5. CASE CtrlUpdatePut
    BY <2>5 DEF TypeOK, CtrlTypeOK, CtrlUpdatePut, CtrlPCs, NextInRun
  <2>. QED
    BY <2>1, <2>2, <2>3, <2>4, <2>5 DEF CtrlNext
<1>. QED
  BY <1>1, <1>2, <1>3 DEF TypeOK

(* Each scheduler step keeps the state well typed. *)
LEMMA SchedTypeOKStep ==
  ASSUME TypeOK, SchedNext, UNCHANGED <<ctrlVars, kubelet, runtime, crashes, userOps>>
  PROVE  TypeOK'
<1>1. (CtrlTypeOK /\ KubeletTypeOK /\ userOps \in 0..MaxUserOps)'
  BY DEF TypeOK, CtrlTypeOK, KubeletTypeOK, ctrlVars
<1>2. CASE SchedList
  <2>1. StoreTypeOK'
    BY <1>2 DEF TypeOK, StoreTypeOK, SchedList, storeVars
  <2>2. SchedTypeOK'
    BY <1>2 DEF TypeOK, StoreTypeOK, SchedTypeOK, SchedList, ListPendingPods, ListNodes
  <2>. QED
    BY <1>1, <2>1, <2>2 DEF TypeOK
<1>3. ASSUME NEW p \in PodNames, NEW n \in Nodes, SchedBind(p, n)
      PROVE  TypeOK'
  <2> DEFINE rec  == [sched.pending[p] EXCEPT !.nodeName = n, !.status = "Scheduled"]
             left == [sched.pending EXCEPT ![p] = NONE]
  <2>1. sched.pending[p] \in PodRec
    BY <1>3 DEF TypeOK, SchedTypeOK, SchedBind
  <2>2. rec \in PodRec
    BY <2>1 DEF PodRec, PodStatuses
  <2>3. StoreTypeOK'
    BY <1>3, <2>2 DEF TypeOK, StoreTypeOK, SchedBind, UpdatePod
  <2>4. SchedTypeOK'
    BY <1>3 DEF TypeOK, SchedTypeOK, SchedBind
  <2>. QED
    BY <1>1, <2>3, <2>4 DEF TypeOK
<1>. QED
  BY <1>2, <1>3 DEF SchedNext

(* Each step of a kubelet keeps the state well typed. *)
LEMMA KubeletTypeOKStep ==
  ASSUME TypeOK, NEW n \in Nodes, KubeletNext(n),
         UNCHANGED <<ctrlVars, sched, userOps>>
  PROVE  TypeOK'
<1>1. (CtrlTypeOK /\ SchedTypeOK /\ userOps \in 0..MaxUserOps)'
  BY DEF TypeOK, CtrlTypeOK, SchedTypeOK, ctrlVars
<1>2. CASE KubeletStart(n)
  <2>1. nodes' \subseteq Nodes
    BY <1>2 DEF TypeOK, StoreTypeOK, KubeletStart, CreateNode, CreateNodeAnswer
  <2>. QED
    BY <1>1, <1>2, <2>1 DEF TypeOK, StoreTypeOK, KubeletTypeOK, KubeletStart
<1>3. CASE KubeletPoll(n)
  <2> DEFINE new == {p \in PodNames : pods[p] # NONE /\ kubelet[n].pods[p] = NONE}
  <2>1. \A p \in new : pods[p] \in PodRec /\ runPod(pods[p], p, crashes) \subseteq Container
    BY RunPodType DEF TypeOK, StoreTypeOK, KubeletTypeOK
  <2>2. kubelet' = [kubelet EXCEPT
                    ![n].pods = [p \in PodNames |->
                                   IF p \in new THEN pods[p] ELSE kubelet[n].pods[p]]]
    BY <1>3 DEF KubeletPoll
  <2>3. runtime' = [runtime EXCEPT ![n] = @ \cup UNION {runPod(pods[p], p, crashes) : p \in new}]
        /\ crashes' = crashes
    BY <1>3 DEF KubeletPoll
  <2>4. KubeletTypeOK'
    BY <2>1, <2>2, <2>3 DEF TypeOK, KubeletTypeOK
  <2>5. StoreTypeOK'
    BY <1>3 DEF TypeOK, StoreTypeOK, KubeletPoll, storeVars
  <2>. QED
    BY <1>1, <2>4, <2>5 DEF TypeOK
<1>4. ASSUME NEW p \in PodNames, KubeletReport(n, p)
      PROVE  TypeOK'
  <2> DEFINE rec == kubelet[n].pods[p]
             st  == getPodStatus(n, rec)
  <2>1. rec \in PodRec /\ st \in PodStatuses
    BY <1>4, PodStatusType DEF TypeOK, KubeletTypeOK, KubeletReport
  <2>2. [rec EXCEPT !.status = st] \in PodRec
    BY <2>1 DEF PodRec
  <2>3. [pod |-> p, body |-> [rec EXCEPT !.status = st]] \in PutRequest
    BY <2>2 DEF PutRequest
  <2> DEFINE req == IF pods[p] = NONE THEN NONE
                    ELSE [pod |-> p, body |-> [rec EXCEPT !.status = st]]
  <2>6. req \in PutRequest \cup {NONE}
    BY <2>3
  <2>7. kubelet' = [kubelet EXCEPT ![n].pods[p].status = st, ![n].req = req]
        /\ UNCHANGED <<runtime, crashes>>
    BY <1>4 DEF KubeletReport
  <2>8. kubelet \in [Nodes -> [pc : {"Down", "Up"},
                              pods : [PodNames -> PodRec \cup {NONE}],
                              req : PutRequest \cup {NONE}]]
    BY DEF TypeOK, KubeletTypeOK
  <2>9. kubelet'[n] = [pc |-> kubelet[n].pc,
                       pods |-> [kubelet[n].pods EXCEPT ![p] = [rec EXCEPT !.status = st]],
                       req |-> req]
    BY <2>7, <2>8
  <2>11. kubelet'[n] \in [pc : {"Down", "Up"},
                          pods : [PodNames -> PodRec \cup {NONE}],
                          req : PutRequest \cup {NONE}]
    BY <2>2, <2>6, <2>8, <2>9
  <2>12. /\ DOMAIN kubelet' = Nodes
         /\ \A k \in Nodes \ {n} : kubelet'[k] = kubelet[k]
    BY <2>7, <2>8
  <2>10. kubelet' \in [Nodes -> [pc : {"Down", "Up"},
                              pods : [PodNames -> PodRec \cup {NONE}],
                              req : PutRequest \cup {NONE}]]
    BY <2>7, <2>8, <2>11, <2>12
  <2>4. KubeletTypeOK'
    BY <2>7, <2>10 DEF TypeOK, KubeletTypeOK
  <2>5. StoreTypeOK'
    BY <1>4 DEF TypeOK, StoreTypeOK, KubeletReport, storeVars
  <2>. QED
    BY <1>1, <2>4, <2>5 DEF TypeOK
<1>5. CASE KubeletPut(n)
  <2>1. kubelet[n].req \in PutRequest
    BY <1>5 DEF TypeOK, KubeletTypeOK, KubeletPut
  <2>2. StoreTypeOK'
    BY <1>5, <2>1 DEF TypeOK, StoreTypeOK, KubeletPut, UpdatePod, PutRequest
  <2>3. KubeletTypeOK'
    BY <1>5 DEF TypeOK, KubeletTypeOK, KubeletPut
  <2>. QED
    BY <1>1, <2>2, <2>3 DEF TypeOK
<1>. QED
  BY <1>2, <1>3, <1>4, <1>5 DEF KubeletNext

(* A kubelet crash keeps the state well typed. *)
LEMMA KubeletCrashTypeOK ==
  ASSUME TypeOK, NEW n \in Nodes, KubeletCrash(n),
         UNCHANGED <<ctrlVars, sched, userOps>>
  PROVE  TypeOK'
<1>1. (StoreTypeOK /\ CtrlTypeOK /\ SchedTypeOK /\ userOps \in 0..MaxUserOps)'
  BY DEF TypeOK, StoreTypeOK, CtrlTypeOK, SchedTypeOK, ctrlVars, KubeletCrash, storeVars
<1>2. KubeletTypeOK'
  BY DEF TypeOK, KubeletTypeOK, KubeletCrash, NoPods
<1>. QED
  BY <1>1, <1>2 DEF TypeOK

(* Each user call keeps the state well typed. *)
LEMMA UserTypeOKStep ==
  ASSUME TypeOK, UserNext
  PROVE  TypeOK'
<1>1. (userOps \in 0..MaxUserOps)
      /\ (CtrlTypeOK /\ SchedTypeOK /\ KubeletTypeOK /\ userOps \in 0..MaxUserOps)'
  BY DEF TypeOK, UserNext, UserCall, CtrlTypeOK, SchedTypeOK, KubeletTypeOK, ctrlVars,
         kubeletVars
<1>2. StoreTypeOK'
  <2>1. CASE \E r \in RSNames, k \in 0..MaxReplicas, t \in Templates :
               UserCall(CreateReplicaset(r, k, t))
    BY <2>1 DEF TypeOK, StoreTypeOK, UserCall, CreateReplicaset, RSCreate, RSRec
  <2>2. CASE \E r \in RSNames, k \in 0..MaxReplicas : UserCall(UpdateReplicaset(r, k))
    BY <2>2 DEF TypeOK, StoreTypeOK, UserCall, UpdateReplicaset, LoadReplicasetIntoRequest, RSPut, RSRec
  <2>3. CASE \E r \in RSNames : UserCall(DeleteReplicaset(r))
    BY <2>3 DEF TypeOK, StoreTypeOK, UserCall, DeleteReplicaset, RSDelete
  <2>4. CASE \E p \in PodNames : UserCall(DeletePod(p))
    BY <2>4 DEF TypeOK, StoreTypeOK, UserCall, DeletePod
  <2>5. CASE \E n \in Nodes : UserCall(DeleteNodeRequest(n))
    BY <2>5 DEF TypeOK, StoreTypeOK, UserCall, DeleteNodeRequest, DeleteNode
  <2>. QED
    BY <2>1, <2>2, <2>3, <2>4, <2>5 DEF UserNext
<1>. QED
  BY <1>1, <1>2 DEF TypeOK

(* Every step of the system, and a stutter, keeps the state well typed. *)
THEOREM NextTypeOK == TypeOK /\ [Next]_vars => TypeOK'
<1> SUFFICES ASSUME TypeOK, [Next]_vars PROVE TypeOK'
  OBVIOUS
<1>1. CASE ControllerProcess
  BY <1>1, CtrlTypeOKStep DEF ControllerProcess, kubeletVars
<1>2. CASE SchedulerProcess
  BY <1>2, SchedTypeOKStep DEF SchedulerProcess, kubeletVars
<1>3. CASE \E n \in Nodes : KubeletProcess(n)
  BY <1>3, KubeletTypeOKStep DEF KubeletProcess
<1>4. CASE \E n \in Nodes : KubeletCrash(n) /\ UNCHANGED <<ctrlVars, sched, userOps>>
  BY <1>4, KubeletCrashTypeOK
<1>5. CASE UserNext
  BY <1>5, UserTypeOKStep
<1>6. CASE UNCHANGED vars
  BY <1>6 DEF vars, TypeOK, StoreTypeOK, CtrlTypeOK, SchedTypeOK, KubeletTypeOK
<1>. QED
  BY <1>1, <1>2, <1>3, <1>4, <1>5, <1>6 DEF Next

(***************************************************************************)
(* Type correctness of the whole system: in every reachable state the      *)
(* store, the controller's local copy and creation list, the scheduler's   *)
(* listed copies, the kubelets' caches and the runtimes are well typed.    *)
(***************************************************************************)
THEOREM TypeCorrect == Spec => []TypeOK
BY InitTypeOK, NextTypeOK, PTL DEF Spec

=============================================================================
