SPECIFICATION FairSpec
CONSTANTS
    Environments <- MCEnvironments
    MaxCrashes = 1
    MaxManual = 2
    MaxRestarts = 1
INVARIANTS
    OneDeployment
    DeploymentIsComplete
    RerunsRepair
    Operational
PROPERTY
    EventuallyDeployed
CHECK_DEADLOCK FALSE
