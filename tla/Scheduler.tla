------------------------------ MODULE Scheduler ------------------------------
(***************************************************************************)
(* The scheduler (scheduler/scheduler.go, schedulePendingPods).  Each tick *)
(* lists the Pending pods and the nodes; with no node it returns an error  *)
(* and the tick ends.  Otherwise every listed pod, as it was read, gets a  *)
(* node chosen at random, status Scheduled, and is written back with       *)
(* podRegistry.UpdatePod, one write per step.                              *)
(***************************************************************************)
EXTENDS Registry

VARIABLE sched
    \* pc      : "Idle" between ticks, "Bind" inside the loop over pods
    \* pending : the pods ListPendingPods returned and not bound yet, as read
    \* nodes   : the node names ListNodes returned

SchedTypeOK ==
    sched \in [pc : {"Idle", "Bind"},
               pending : [PodNames -> PodRec \cup {NONE}],
               nodes : SUBSET Nodes]

SchedInit ==
    sched = [pc |-> "Idle", pending |-> [p \in PodNames |-> NONE], nodes |-> {}]

(***************************************************************************)
(* ListPendingPods and ListNodes.  An empty node list ends the tick with   *)
(* "no nodes available"; an empty pod list makes the loop empty.  Both are *)
(* steps that change nothing, so they are left out.                        *)
(***************************************************************************)
SchedList ==
    /\ sched.pc = "Idle"
    /\ ListPendingPods # {}
    /\ ListNodes # {}
    /\ sched' = [pc |-> "Bind",
                 pending |-> [p \in PodNames |->
                                IF p \in ListPendingPods THEN pods[p] ELSE NONE],
                 nodes |-> ListNodes]
    /\ UNCHANGED storeVars

(* Mutant: the bind sets the node and leaves the listed status as it was. *)
SchedBindKeepStatus(p, n) ==
    LET rec == [sched.pending[p] EXCEPT !.nodeName = n]
        left == [sched.pending EXCEPT ![p] = NONE]
    IN
    /\ sched.pc = "Bind"
    /\ sched.pending[p] # NONE
    /\ n \in sched.nodes
    /\ UpdatePod(p, rec)
    /\ sched' = [sched EXCEPT !.pending = left,
                   !.pc = IF \A q \in PodNames : left[q] = NONE THEN "Idle" ELSE "Bind"]
    /\ UNCHANGED <<nodes, rsets>>

(***************************************************************************)
(* One iteration: node := nodes[rand.Intn(len(nodes))], set NodeName and   *)
(* status on the listed copy, UpdatePod.  UpdatePod does not check that    *)
(* the pod still exists, and overwrites whatever is stored.                *)
(***************************************************************************)
SchedBind(p, n) ==
    LET rec == [sched.pending[p] EXCEPT !.nodeName = n, !.status = "Scheduled"]
        left == [sched.pending EXCEPT ![p] = NONE]
    IN
    /\ sched.pc = "Bind"
    /\ sched.pending[p] # NONE
    /\ n \in sched.nodes
    /\ UpdatePod(p, rec)
    /\ sched' = [sched EXCEPT !.pending = left,
                   !.pc = IF \A q \in PodNames : left[q] = NONE THEN "Idle" ELSE "Bind"]
    /\ UNCHANGED <<nodes, rsets>>

SchedNext ==
    \/ SchedList
    \/ \E p \in PodNames, n \in Nodes : SchedBind(p, n)

=============================================================================
