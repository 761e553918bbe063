----------------------------- MODULE PodLifecycle -----------------------------
(***************************************************************************)
(* What the control plane promises about the life of a pod name (spec 3,  *)
(* Pod: created Pending by a controller, moved off Pending by the         *)
(* scheduler or the node agent, destroyed explicitly).  A name is unused  *)
(* until it is created, and it is created once, Pending.  It leaves        *)
(* Pending for good: it may be placed (any other status) and deleted, and *)
(* a deleted pod may be placed again, since the scheduler's and the node   *)
(* agents' updates are unconditional puts that store a pod whatever was    *)
(* deleted meanwhile.  It never becomes Pending, or unused, again.        *)
(***************************************************************************)
CONSTANT Pods

VARIABLE life   \* life[p]: the phase of the pod named p

Phases == {"Unused", "Pending", "Placed", "Deleted"}

Init == life = [p \in Pods |-> "Unused"]

(* A controller creates pod p under a name never used before. *)
Create(p) == life[p] = "Unused" /\ life'[p] = "Pending"

(* A write stores pod p with a status other than Pending. *)
Place(p) == life[p] \in {"Pending", "Deleted"} /\ life'[p] = "Placed"

(* Pod p is deleted. *)
Delete(p) == life[p] \in {"Pending", "Placed"} /\ life'[p] = "Deleted"

(***************************************************************************)
(* One step moves any number of pods, each by one of the three steps, and *)
(* leaves the others.                                                      *)
(***************************************************************************)
Next ==
    /\ life' \in [Pods -> Phases]
    /\ \A p \in Pods : life'[p] = life[p] \/ Create(p) \/ Place(p) \/ Delete(p)

Spec == Init /\ [][Next]_life

=============================================================================
