SPECIFICATION FairSpec
CONSTANTS
    Relay = Relay
    Store = Store
    NoModule = NoModule
    Modules <- MCModules
    Deps <- MCDeps
    Order <- MCOrder
    HasWorker <- MCHasWorker
    Callers = {c1}
    MaxGen = 2
    CallbackErrors = TRUE
INVARIANTS
    TypeOK
    InUseNotStopped
    DependenciesRunning
    DependentsKeepIt
PROPERTIES
    NoRefusalOnReplace
    CloseCompletes
