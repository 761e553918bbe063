------------------------------ MODULE PodBinding ------------------------------
(***************************************************************************)
(* What the control plane promises about where a pod runs (spec 4.5 and    *)
(* the Pod invariant of spec section 3), stated over every record of the   *)
(* pod that some process may still write back: a pod is bound to at most   *)
(* one node, a binding is set only while the pod has none, and it is        *)
(* dropped only when no record names the node any more.  A pod's binding   *)
(* is a write-once register that may be cleared.                           *)
(***************************************************************************)
CONSTANTS Pods, Nodes, NoNode

VARIABLE boundTo   \* boundTo[p]: the node pod p is bound to, or NoNode

Init == boundTo = [p \in Pods |-> NoNode]

(* Pod p, bound to no node, is bound to node n. *)
Bind(p, n) == boundTo[p] = NoNode /\ boundTo'[p] = n

(* The last record that names the node of pod p is gone. *)
Release(p) == boundTo[p] # NoNode /\ boundTo'[p] = NoNode

(***************************************************************************)
(* One step binds or releases any number of pods (a kubelet crash drops   *)
(* the copies of all the pods it cached at once) and leaves the others.    *)
(***************************************************************************)
Next ==
    /\ boundTo' \in [Pods -> Nodes \cup {NoNode}]
    /\ \A p \in Pods :
          \/ boundTo'[p] = boundTo[p]
          \/ Release(p)
          \/ \E n \in Nodes : Bind(p, n)

Spec == Init /\ [][Next]_boundTo

=============================================================================
