CONSTANTS
    n1 = n1
    n2 = n2
    s1 = s1
    s2 = s2
    s3 = s3
    s4 = s4
    nginx = nginx
    sidecar = sidecar
    none = none
    nonode = nonode
    Nodes <- MCNodes
    NoNode = nonode
    NONE = none
    RSNames <- MCRSNames
    Suffixes <- MCSuffixes
    ContainerNames <- MCContainerNames
    Templates <- MCTemplates
    MaxReplicas = 2
    MaxUserOps = 2
    MaxCrashes = 1
    FreshSuffixes = TRUE
SPECIFICATION Spec
CHECK_DEADLOCK FALSE
INVARIANT OneContainerPerPod
