SPECIFICATION ServicesSpec
CONSTANTS
    None = None
    Tasks = {"p", "d", "l"}
    Latent = {"l"}
    Daemon = {"d"}
    MaxCommands = 4
INVARIANTS
    AveragedOnce
    FedAvgExact
    
    PulledWasPushed
    FetchesCounted
    ExecutionsTracked
PROPERTIES
    ModelsAreImmutable
CHECK_DEADLOCK FALSE
