------------------------- MODULE ReplicaSetController -------------------------
(***************************************************************************)
(* The ReplicaSet controller (controller/replica_set_controller.go).      *)
(* Every tick Run lists the ReplicaSets and calls Reconcile on each.       *)
(* Reconcile re-reads the ReplicaSet, lists all pods, counts the active    *)
(* pods it owns by name prefix, creates the missing ones one CreatePod at  *)
(* a time, and writes the ReplicaSet back with status.replicas set.  Each  *)
(* registry call is a step, so other processes interleave between them.    *)
(* An error from Reconcile reaches log.Fatalf in Run: the process exits.   *)
(***************************************************************************)
EXTENDS Registry

(***************************************************************************)
(* GenerateName draws 5 characters from a 27-letter alphabet, so a drawn   *)
(* name is practically always new.  With FreshSuffixes the model draws     *)
(* only suffixes not drawn before; without it any suffix may come again,   *)
(* as the code allows.                                                     *)
(***************************************************************************)
CONSTANT FreshSuffixes

ASSUME FreshSuffixesAssumption == FreshSuffixes \in BOOLEAN

VARIABLE generated  \* the pod names GenerateName has returned so far

VARIABLE ctrl
    \* pc    : where the controller process is
    \* queue : the ReplicaSets of this Run not reconciled yet
    \* rs    : the ReplicaSet being reconciled
    \* snap  : currentRS, the copy read by replicaSetRegistry.Get
    \* todo  : the containers still to create a pod for

CtrlPCs == {"Idle", "Reconcile", "Create", "Update", "Put", "Crashed"}

(***************************************************************************)
(* The types of the controller's state.  Inside Create and Update it holds *)
(* the ReplicaSet it reconciles and its copy, and Create has a container   *)
(* left to create a pod for.                                               *)
(***************************************************************************)
CtrlTypeOK ==
    /\ generated \subseteq PodNames
    /\ ctrl \in [pc : CtrlPCs, queue : SUBSET RSNames, rs : RSNames \cup {NONE},
              snap : RSRec \cup {NONE}, todo : Seq(ContainerNames)]
    /\ ctrl.pc \in {"Create", "Update", "Put"} => ctrl.rs \in RSNames /\ ctrl.snap \in RSRec
    /\ ctrl.pc = "Create" => ctrl.todo # <<>>

CtrlInit ==
    /\ generated = {}
    /\ ctrl = [pc |-> "Idle", queue |-> {}, rs |-> NONE, snap |-> NONE, todo |-> <<>>]

(* After one Reconcile returned nil, Run goes on to the next ReplicaSet. *)
NextInRun(queue) == IF queue = {} THEN "Idle" ELSE "Reconcile"

(* Mutant: the creation loop stops one replica short. *)
PodsToCreateOneShort(current, desired, template) ==
    [k \in 1..((desired - current - 1) * Len(template)) |->
        template[((k - 1) % Len(template)) + 1]]

(***************************************************************************)
(* The pods Reconcile creates when current < desired: the inner loop runs  *)
(* over the template's containers inside the replica loop, so each missing *)
(* replica yields one single-container pod per template container.         *)
(***************************************************************************)
PodsToCreate(current, desired, template) ==
    [k \in 1..((desired - current) * Len(template)) |->
        template[((k - 1) % Len(template)) + 1]]

(* Mutant: status.replicas set to the count without the reset to desired. *)
ReconciledStatusNoReset(current, desired) == current

(***************************************************************************)
(* currentPodCount = desiredPodCount, then                                 *)
(* currentRS.Status.Replicas = int32(currentPodCount): in both branches    *)
(* that write, status.replicas becomes spec.replicas, not the count.       *)
(***************************************************************************)
ReconciledStatus(current, desired) == desired

(* Run: replicaSetRegistry.List, then Reconcile on every element. *)
CtrlRun ==
    /\ ctrl.pc = "Idle"
    /\ ListReplicaSets # {}
    /\ ctrl' = [ctrl EXCEPT !.pc = "Reconcile", !.queue = ListReplicaSets]
    /\ UNCHANGED <<storeVars, generated>>

(***************************************************************************)
(* Reconcile(rs) up to its first write: Get the ReplicaSet (NotFound is an *)
(* error, so Run calls log.Fatalf), ListPods, count the active owned pods, *)
(* and branch on current versus desired.                                   *)
(***************************************************************************)
CtrlReconcile(r) ==
    /\ ctrl.pc = "Reconcile"
    /\ r \in ctrl.queue
    /\ IF rsets[r] = NONE
       THEN ctrl' = [ctrl EXCEPT !.pc = "Crashed", !.queue = {}]
       ELSE LET cur     == Cardinality(ActiveOwned(r))
                desired == rsets[r].replicas
                snap    == [rsets[r] EXCEPT !.status = ReconciledStatus(cur, desired)]
                rest    == ctrl.queue \ {r}
            IN  IF cur < desired
                THEN LET todo == PodsToCreate(cur, desired, rsets[r].template)
                     IN ctrl' = [ctrl EXCEPT !.queue = rest, !.rs = r,
                                   !.snap = snap, !.todo = todo,
                                   !.pc = IF todo = <<>> THEN "Update" ELSE "Create"]
                ELSE IF cur > desired
                THEN ctrl' = [ctrl EXCEPT !.queue = rest, !.rs = r,
                                !.snap = snap, !.pc = "Update"]
                ELSE ctrl' = [ctrl EXCEPT !.queue = rest, !.pc = NextInRun(rest)]
    /\ UNCHANGED <<storeVars, generated>>

(***************************************************************************)
(* One podRegistry.CreatePod of the creation loop, with the random suffix  *)
(* drawn by GenerateName.  A name already taken is ErrPodAlreadyExists:    *)
(* Reconcile returns it and Run calls log.Fatalf.                          *)
(***************************************************************************)
CtrlCreatePod(s) ==
    LET p   == GenerateName(ctrl.rs, s)
        rec == [containers |-> <<Head(ctrl.todo)>>, nodeName |-> NoNode,
                status |-> "Pending"]
    IN
    /\ ctrl.pc = "Create"
    /\ FreshSuffixes => p \notin generated
    /\ generated' = generated \cup {p}
    /\ IF pods[p] # NONE
       THEN /\ ctrl' = [ctrl EXCEPT !.pc = "Crashed", !.queue = {}]
            /\ UNCHANGED pods
       ELSE /\ CreatePod(p, rec)
            /\ ctrl' = [ctrl EXCEPT !.todo = Tail(ctrl.todo),
                          !.pc = IF Tail(ctrl.todo) = <<>> THEN "Update" ELSE "Create"]
    /\ UNCHANGED <<nodes, rsets>>

(***************************************************************************)
(* replicaSetRegistry.Update(currentRS), its existence check: the Get of   *)
(* the key; a ReplicaSet deleted meanwhile is ErrReplicaSetNotFound and    *)
(* Run calls log.Fatalf.  The registry's mutex orders only the callers in  *)
(* the controller process, not the API server's handlers.                  *)
(***************************************************************************)
CtrlUpdate ==
    /\ ctrl.pc = "Update"
    /\ \/ rsets[ctrl.rs] # NONE /\ ctrl' = [ctrl EXCEPT !.pc = "Put"]
       \/ rsets[ctrl.rs] = NONE /\ ctrl' = [ctrl EXCEPT !.pc = "Crashed", !.queue = {}]
    /\ UNCHANGED <<storeVars, generated>>

(***************************************************************************)
(* ... then storage.Update: the whole copy read by Get, with               *)
(* status.replicas set, is put under the key.                              *)
(***************************************************************************)
CtrlUpdatePut ==
    /\ ctrl.pc = "Put"
    /\ RSPut(ctrl.rs, ctrl.snap)
    /\ ctrl' = [ctrl EXCEPT !.pc = NextInRun(ctrl.queue), !.snap = NONE]
    /\ UNCHANGED <<pods, nodes, generated>>

CtrlNext ==
    \/ CtrlRun
    \/ \E r \in RSNames : CtrlReconcile(r)
    \/ \E s \in Suffixes : CtrlCreatePod(s)
    \/ CtrlUpdate
    \/ CtrlUpdatePut

=============================================================================
