SPECIFICATION Spec
CONSTANTS
    Launchers = {l1, l2}
    Families <- MCFamilies
    Editable = {"stage-grant", "network-profile"}
    Tokens = {"early", "late"}
    MaterializedAt <- MCMaterializedAt
    Expiry <- MCExpiry
    MinRemaining = 2
    LaunchTimeout = 1
    MaxTime <- MCMaxTime
    MaxForeign = 1
    MaxReviews <- MCMaxReviews
CHECK_DEADLOCK FALSE
SYMMETRY Symmetric
INVARIANTS
    WorkloadRestsOnReview
    ReceiptTrue
PROPERTIES
    CredentialsOutliveLaunch
