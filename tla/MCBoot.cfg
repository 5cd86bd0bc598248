CONSTANTS
    None = None
    Name <- MCName
    Sites <- MCSites
SPECIFICATION FairSpec
INVARIANTS
    TypeOK
    DependenciesFirst
    LoadOutcome
    EveryPluginLoaded
    SettingsOutcome
    ServingHasDatasources
    ConsoleDatasources
    ConsoleListsTyped
    MethodsSet
PROPERTY BootEnds
