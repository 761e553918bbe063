CONSTANTS
    n1 = n1
    n2 = n2
    s1 = s1
    s2 = s2
    s3 = s3
    s4 = s4
    nginx = nginx
    sidecar = sidecar
    none = none
    nonode = nonode
    Nodes <- MCOneNode
    NoNode = nonode
    NONE = none
    RSNames <- MCRSNames
    Suffixes <- MCSuffixes
    ContainerNames <- MCContainerNames
    Templates <- MCTemplates
    MaxReplicas = 1
    MaxUserOps = 1
    MaxCrashes = 0
    FreshSuffixes = TRUE
SPECIFICATION FairSpec
CHECK_DEADLOCK FALSE
PROPERTIES PodRunningReported
