-------------------------- MODULE LifecycleProofs ---------------------------
(***************************************************************************)
(* Proofs about the lifecycle of a stored pod: a Pending pod has no node  *)
(* (PendingNodeless, for every instance, names reused or not), and a pod  *)
(* that left Pending never becomes Pending again (PendingNeverReentered,  *)
(* when GenerateName never returns a name twice).  Both rest on one step  *)
(* lemma, PodWrites, which says what a step can do to a stored pod.       *)
(***************************************************************************)
EXTENDS BindingProofs

USE NoneAssumption, NoNodeAssumption, MaxReplicasAssumption,
    TemplatesAssumption, MaxUserOpsAssumption, MaxCrashesAssumption

(* No status PUT in flight carries Pending. *)
InFlightNotPending ==
    \A n \in Nodes : kubelet[n].req # NONE => kubelet[n].req.body.status # "Pending"

(***************************************************************************)
(* What a step writes for the pod p: nothing, a delete, a status other     *)
(* than Pending, or the controller's CreatePod of a pod without a node,    *)
(* stored under a name that was free and, with fresh names, never         *)
(* generated before.                                                       *)
(***************************************************************************)
PodWrite(p) ==
    \/ pods'[p] = pods[p]
    \/ pods'[p] = NONE
    \/ pods'[p].status # "Pending"
    \/ /\ pods'[p].nodeName = NoNode
       /\ pods[p] = NONE
       /\ FreshSuffixes => p \notin generated

(***************************************************************************)
(* Every step, of every process, writes each pod as PodWrite says, forgets *)
(* no generated name, and sends no Pending status PUT.                     *)
(***************************************************************************)
LEMMA PodWrites ==
  ASSUME TypeOK, InFlightNotPending, [Next]_vars
  PROVE  /\ \A p \in PodNames : PodWrite(p)
         /\ generated \subseteq generated'
         /\ InFlightNotPending'
<1>1. CASE ControllerProcess
  <2>0. kubelet' = kubelet
    BY <1>1 DEF ControllerProcess, kubeletVars
  <2>1. InFlightNotPending'
    BY <2>0 DEF InFlightNotPending
  <2>2. CASE CtrlRun \/ CtrlUpdate \/ CtrlUpdatePut \/ \E r \in RSNames : CtrlReconcile(r)
    BY <2>1, <2>2 DEF CtrlRun, CtrlUpdate, CtrlUpdatePut, CtrlReconcile, storeVars, PodWrite
  <2>3. ASSUME NEW s \in Suffixes, CtrlCreatePod(s)
        PROVE  /\ \A p \in PodNames : PodWrite(p)
               /\ generated \subseteq generated'
    <3>1. PICK c \in PodNames : c = GenerateName(ctrl.rs, s)
      BY <2>3 DEF CtrlCreatePod, TypeOK, CtrlTypeOK, PodNames
    <3>2. /\ FreshSuffixes => c \notin generated
          /\ generated' = generated \cup {c}
      BY <2>3, <3>1 DEF CtrlCreatePod
    <3>3. CASE pods[c] # NONE
      BY <2>3, <3>1, <3>2, <3>3 DEF CtrlCreatePod, PodWrite
    <3>4. CASE pods[c] = NONE
      <4>1. pods' = [pods EXCEPT ![c] =
                       [containers |-> <<Head(ctrl.todo)>>, nodeName |-> NoNode,
                        status |-> "Pending"]]
        BY <2>3, <3>1, <3>4 DEF CtrlCreatePod, CreatePod
      <4>. QED
        BY <3>2, <3>4, <4>1 DEF PodWrite, TypeOK, StoreTypeOK
    <3>. QED
      BY <3>3, <3>4
  <2>. QED
    BY <1>1, <2>1, <2>2, <2>3 DEF ControllerProcess, CtrlNext
<1>2. CASE SchedulerProcess
  <2>0. kubelet' = kubelet /\ generated' = generated
    BY <1>2 DEF SchedulerProcess, kubeletVars, ctrlVars
  <2>1. InFlightNotPending'
    BY <2>0 DEF InFlightNotPending
  <2>2. CASE SchedList
    BY <2>0, <2>1, <2>2 DEF SchedList, storeVars, PodWrite
  <2>3. ASSUME NEW q \in PodNames, NEW n \in Nodes, SchedBind(q, n)
        PROVE  \A p \in PodNames : PodWrite(p)
    <3>1. pods' = [pods EXCEPT ![q] = [sched.pending[q] EXCEPT !.nodeName = n,
                                                             !.status = "Scheduled"]]
      BY <2>3 DEF SchedBind, UpdatePod
    <3>2. sched.pending[q] \in PodRec
      BY <2>3 DEF SchedBind, TypeOK, SchedTypeOK
    <3>. QED
      BY <3>1, <3>2 DEF PodWrite, TypeOK, StoreTypeOK, PodRec
  <2>. QED
    BY <1>2, <2>0, <2>1, <2>2, <2>3 DEF SchedulerProcess, SchedNext
<1>3. ASSUME NEW n \in Nodes, KubeletProcess(n)
      PROVE  /\ \A p \in PodNames : PodWrite(p)
             /\ generated \subseteq generated'
             /\ InFlightNotPending'
  <2>0. generated' = generated
    BY <1>3 DEF KubeletProcess, ctrlVars
  <2>1. CASE KubeletStart(n)
    <3>1. \A k \in Nodes : kubelet'[k].req = kubelet[k].req
      BY <2>1 DEF KubeletStart, TypeOK, KubeletTypeOK
    <3>. QED
      BY <2>0, <2>1, <3>1 DEF KubeletStart, PodWrite, InFlightNotPending
  <2>2. CASE KubeletPoll(n)
    <3>1. \A k \in Nodes : kubelet'[k].req = kubelet[k].req
      BY <2>2 DEF KubeletPoll, TypeOK, KubeletTypeOK
    <3>. QED
      BY <2>0, <2>2, <3>1 DEF KubeletPoll, storeVars, PodWrite, InFlightNotPending
  <2>3. ASSUME NEW q \in PodNames, KubeletReport(n, q)
        PROVE  /\ \A p \in PodNames : PodWrite(p)
               /\ InFlightNotPending'
    <3>1. \A k \in Nodes \ {n} : kubelet'[k].req = kubelet[k].req
      BY <2>3 DEF KubeletReport, TypeOK, KubeletTypeOK
    <3>2. kubelet'[n].req = NONE
          \/ kubelet'[n].req.body.status = getPodStatus(n, kubelet[n].pods[q])
      BY <2>3 DEF KubeletReport, TypeOK, KubeletTypeOK, PodRec
    <3>3. kubelet'[n].req # NONE => kubelet'[n].req.body.status # "Pending"
      BY <3>2, StatusNotPending
    <3>. QED
      BY <2>3, <3>1, <3>3 DEF KubeletReport, storeVars, PodWrite, InFlightNotPending
  <2>4. CASE KubeletPut(n)
    <3>1. PICK r0 \in PutRequest : r0 = kubelet[n].req
      BY <2>4 DEF KubeletPut, TypeOK, KubeletTypeOK
    <3>2. /\ pods' = [pods EXCEPT ![r0.pod] = r0.body]
          /\ r0.body.status # "Pending"
      BY <2>4, <3>1 DEF KubeletPut, UpdatePod, InFlightNotPending
    <3>3. \A k \in Nodes : kubelet'[k].req = IF k = n THEN NONE ELSE kubelet[k].req
      BY <2>4 DEF KubeletPut, TypeOK, KubeletTypeOK
    <3>. QED
      BY <2>0, <3>1, <3>2, <3>3 DEF PodWrite, InFlightNotPending, TypeOK, StoreTypeOK,
                                    PutRequest
  <2>. QED
    BY <1>3, <2>0, <2>1, <2>2, <2>3, <2>4 DEF KubeletProcess, KubeletNext
<1>4. ASSUME NEW n \in Nodes, KubeletCrash(n), UNCHANGED <<ctrlVars, sched, userOps>>
      PROVE  /\ \A p \in PodNames : PodWrite(p)
             /\ generated \subseteq generated'
             /\ InFlightNotPending'
  <2>1. \A k \in Nodes : kubelet'[k].req = IF k = n THEN NONE ELSE kubelet[k].req
    BY <1>4 DEF KubeletCrash, TypeOK, KubeletTypeOK
  <2>. QED
    BY <1>4, <2>1 DEF KubeletCrash, storeVars, ctrlVars, PodWrite, InFlightNotPending
<1>5. CASE UserNext
  <2>1. kubelet' = kubelet /\ generated' = generated
    BY <1>5 DEF UserNext, UserCall, kubeletVars, ctrlVars
  <2>2. \A p \in PodNames : pods'[p] = pods[p] \/ pods'[p] = NONE
    BY <1>5 DEF UserNext, UserCall, CreateReplicaset, UpdateReplicaset,
                DeleteReplicaset, DeletePod, DeleteNodeRequest, TypeOK, StoreTypeOK
  <2>. QED
    BY <2>1, <2>2 DEF PodWrite, InFlightNotPending
<1>6. CASE UNCHANGED vars
  BY <1>6 DEF vars, PodWrite, InFlightNotPending
<1>. QED
  BY <1>1, <1>2, <1>3, <1>4, <1>5, <1>6 DEF Next

-----------------------------------------------------------------------------
(* PendingNodeless *)

(* The initial store holds no pod, and no PUT is in flight. *)
LEMMA InitNodeless == Init => InFlightNotPending /\ PendingNodeless
BY DEF Init, StoreInit, KubeletInit, InFlightNotPending, PendingNodeless

(* A step keeps PendingNodeless: what it stores Pending has no node. *)
LEMMA NextNodeless ==
  ASSUME TypeOK, InFlightNotPending, PendingNodeless, [Next]_vars
  PROVE  InFlightNotPending' /\ PendingNodeless'
<1>1. \A p \in PodNames : PodWrite(p)
  BY PodWrites
<1>2. InFlightNotPending'
  BY PodWrites
<1>. QED
  BY <1>1, <1>2 DEF PodWrite, PendingNodeless

(***************************************************************************)
(* Spec 2 (Pod): in every reachable state a stored Pending pod has no     *)
(* node, for every instance, whether GenerateName reuses names or not.     *)
(* The invariant is inductive once strengthened by type correctness and by *)
(* InFlightNotPending, since a kubelet's PUT stores its body as it is.    *)
(***************************************************************************)
THEOREM PendingNodelessThm == Spec => []PendingNodeless
<1>1. Init => InFlightNotPending /\ PendingNodeless
  BY InitNodeless
<1>2. TypeOK /\ (InFlightNotPending /\ PendingNodeless) /\ [Next]_vars
        => (InFlightNotPending /\ PendingNodeless)'
  BY NextNodeless
<1>3. Spec => []TypeOK
  BY TypeCorrect
<1>. QED
  BY <1>1, <1>2, <1>3, PTL DEF Spec

-----------------------------------------------------------------------------
(* PendingNeverReentered *)

(* The pod p was generated and is not stored Pending. *)
Gone(p) == p \in generated /\ ~StoredPending(p)

(* With fresh names, a step keeps a pod that is Gone gone. *)
LEMMA GoneStep ==
  ASSUME FreshSuffixes = TRUE, TypeOK, InFlightNotPending, [Next]_vars,
         NEW p \in PodNames, Gone(p)
  PROVE  Gone(p)'
<1>1. PodWrite(p) /\ generated \subseteq generated'
  BY PodWrites
<1>. QED
  BY <1>1 DEF Gone, StoredPending, PodWrite

(* A pod stored with a status other than Pending was generated. *)
LEMMA LeftIsGone ==
  ASSUME TypeOK, BindingInv, NEW p \in PodNames, LeftPending(p)
  PROVE  Gone(p)
BY DEF BindingInv, Generated, LeftPending, Gone, StoredPending

(***************************************************************************)
(* When GenerateName never returns a name twice, a pod once stored with a *)
(* status other than Pending is never stored Pending again, whatever the  *)
(* stale writes of the scheduler and the kubelets, crashes and deletions: *)
(* the pod stays Gone, since no writer stores Pending except CreatePod,   *)
(* and CreatePod never takes a name already generated.                    *)
(***************************************************************************)
THEOREM PendingNeverReenteredThm ==
  ASSUME FreshSuffixes = TRUE
  PROVE  Spec => PendingNeverReentered
<1>1. Spec => [](TypeOK /\ BindingInv)
  BY BindingInvariant
<1>2. Spec => []InFlightNotPending
  <2>1. TypeOK /\ InFlightNotPending /\ [Next]_vars => InFlightNotPending'
    BY PodWrites
  <2>2. Init => InFlightNotPending
    BY InitNodeless
  <2>. QED
    BY <2>1, <2>2, TypeCorrect, PTL DEF Spec
<1>3. ASSUME NEW p \in PodNames
      PROVE  Spec => [](LeftPending(p) => []~StoredPending(p))
  <2>1. TypeOK /\ BindingInv => (LeftPending(p) => Gone(p))
    BY LeftIsGone
  <2>2. TypeOK /\ InFlightNotPending /\ Gone(p) /\ [Next]_vars => Gone(p)'
    BY GoneStep
  <2>3. Gone(p) => ~StoredPending(p)
    BY DEF Gone
  <2>. QED
    BY <1>1, <1>2, <2>1, <2>2, <2>3, PTL DEF Spec
<1>. QED
  BY <1>3 DEF PendingNeverReentered

-----------------------------------------------------------------------------
(* LifecycleRefinement *)

(* BindingInv's InFlight includes that no PUT in flight carries Pending. *)
LEMMA InFlightFromBinding ==
  ASSUME BindingInv
  PROVE  InFlightNotPending
BY DEF BindingInv, InFlight, InFlightNotPending

(***************************************************************************)
(* With fresh names, a name a step adds to generated is the name of the   *)
(* pod the controller's CreatePod stores, Pending: the name was free,      *)
(* since every stored pod was generated, so CreatePod does not fail.       *)
(***************************************************************************)
LEMMA NewNameCreated ==
  ASSUME FreshSuffixes = TRUE, TypeOK, BindingInv, [Next]_vars,
         NEW p \in PodNames, p \in generated', p \notin generated
  PROVE  pods'[p] # NONE /\ pods'[p].status = "Pending"
<1>1. pods[p] = NONE
  BY DEF BindingInv, Generated
<1>2. CASE ControllerProcess
  <2>1. CASE CtrlRun \/ CtrlUpdate \/ CtrlUpdatePut \/ \E r \in RSNames : CtrlReconcile(r)
    <3>1. generated' = generated
      BY <2>1 DEF CtrlRun, CtrlUpdate, CtrlUpdatePut, CtrlReconcile
    <3>. QED
      BY <3>1
  <2>2. ASSUME NEW s \in Suffixes, CtrlCreatePod(s)
        PROVE  pods'[p] # NONE /\ pods'[p].status = "Pending"
    <3>1. PICK c \in PodNames : c = GenerateName(ctrl.rs, s)
      BY <2>2 DEF CtrlCreatePod, TypeOK, CtrlTypeOK, PodNames
    <3>2. generated' = generated \cup {c}
      BY <2>2, <3>1 DEF CtrlCreatePod
    <3>3. c = p
      BY <3>2
    <3>4. pods' = [pods EXCEPT ![c] =
                     [containers |-> <<Head(ctrl.todo)>>, nodeName |-> NoNode,
                      status |-> "Pending"]]
      BY <1>1, <2>2, <3>1, <3>3 DEF CtrlCreatePod, CreatePod
    <3>5. Head(ctrl.todo) \in ContainerNames
      BY <2>2 DEF CtrlCreatePod, TypeOK, CtrlTypeOK
    <3>6. [containers |-> <<Head(ctrl.todo)>>, nodeName |-> NoNode,
           status |-> "Pending"] \in PodRec
      BY <3>5 DEF PodRec, PodStatuses
    <3>. QED
      BY <3>3, <3>4, <3>6, NoneAssumption DEF TypeOK, StoreTypeOK
  <2>. QED
    BY <1>2, <2>1, <2>2 DEF ControllerProcess, CtrlNext
<1>3. CASE ~ControllerProcess
  <2>1. generated' = generated
    BY <1>3 DEF Next, SchedulerProcess, KubeletProcess, UserNext, UserCall,
                ctrlVars, vars
  <2>. QED
    BY <2>1
<1>. QED
  BY <1>2, <1>3

(***************************************************************************)
(* A step between two states of the invariant is a step of PodLifecycle:  *)
(* per pod, the phase stays, or the pod is created, placed or deleted.    *)
(***************************************************************************)
LEMMA LifecycleStep ==
  ASSUME FreshSuffixes = TRUE, TypeOK, BindingInv, [Next]_vars
  PROVE  PL!Next
<1>1. /\ \A p \in PodNames : PodWrite(p)
      /\ generated \subseteq generated'
  BY InFlightFromBinding, PodWrites
<1>2. ASSUME NEW p \in PodNames
      PROVE  \/ LifeOf'[p] = LifeOf[p]
             \/ PL!Create(p) \/ PL!Place(p) \/ PL!Delete(p)
  <2>1. CASE p \notin generated'
    BY <1>1, <2>1 DEF LifeOf
  <2>2. CASE p \in generated' /\ p \notin generated
    <3>1. pods'[p] # NONE /\ pods'[p].status = "Pending"
      BY <2>2, NewNameCreated
    <3>. QED
      BY <2>2, <3>1 DEF LifeOf, PL!Create
  <2>3. CASE p \in generated
    <3>1. p \in generated'
      BY <1>1, <2>3
    <3>2. \/ pods'[p] = pods[p]
          \/ pods'[p] = NONE
          \/ pods'[p] # NONE /\ pods'[p].status # "Pending"
      BY <1>1, <2>3 DEF PodWrite
    <3>3. LifeOf[p] = IF pods[p] = NONE THEN "Deleted"
                      ELSE IF pods[p].status = "Pending" THEN "Pending" ELSE "Placed"
      BY <2>3 DEF LifeOf
    <3>4. LifeOf'[p] = IF pods'[p] = NONE THEN "Deleted"
                       ELSE IF pods'[p].status = "Pending" THEN "Pending" ELSE "Placed"
      BY <3>1 DEF LifeOf
    <3>. QED
      BY <3>2, <3>3, <3>4 DEF PL!Place, PL!Delete
  <2>. QED
    BY <2>1, <2>2, <2>3
<1>3. LifeOf' \in [PodNames -> PL!Phases]
  BY DEF LifeOf, PL!Phases
<1>. QED
  BY <1>2, <1>3 DEF PL!Next

(***************************************************************************)
(* When GenerateName never returns a name twice, the control plane         *)
(* implements PodLifecycle under the mapping LifeOf: a name is created     *)
(* once, Pending, and once off Pending never returns to Pending or to      *)
(* unused, whatever the stale puts, crashes and deletes.                   *)
(***************************************************************************)
THEOREM LifecycleRefinementThm ==
  ASSUME FreshSuffixes = TRUE
  PROVE  Spec => LifecycleRefinement
<1>1. Init => PL!Init
  BY DEF Init, CtrlInit, PL!Init, LifeOf
<1>2. TypeOK /\ BindingInv /\ [Next]_vars => [PL!Next]_LifeOf
  BY LifecycleStep
<1>3. Spec => [](TypeOK /\ BindingInv)
  BY BindingInvariant
<1>. QED
  BY <1>1, <1>2, <1>3, PTL DEF Spec, LifecycleRefinement, PL!Spec
=============================================================================
