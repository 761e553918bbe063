------------------------------ MODULE MCCluster ------------------------------
(* Small instances of Cluster for TLC. *)
EXTENDS Cluster, TLC

CONSTANTS n1, n2, s1, s2, s3, s4, nginx, sidecar, none, nonode

MCNodes == {n1, n2}
MCOneNode == {n1}
MCRSNames == {<<"a">>}
MCSuffixes == {s1, s2, s3}
MCFourSuffixes == {s1, s2, s3, s4}
MCContainerNames == {nginx}
MCTemplates == {<<nginx>>}

(* ReplicaSet names of which one is a prefix of the other: "a" and "ab". *)
MCPrefixRSNames == {<<"a">>, <<"a", "b">>}

(* A pod template with two containers. *)
MCTwoContainerNames == {nginx, sidecar}
MCTwoContainerTemplates == {<<nginx, sidecar>>}

MCSymmetry == Permutations(MCNodes) \cup Permutations(MCSuffixes)
=============================================================================
