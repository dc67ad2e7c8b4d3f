SPECIFICATION HealthSpec
CONSTANTS
    MaxSchedules = 2
    Schedulers = {daemon, once}
    Daemon = daemon
    Interval = 1
    MaxFaults = 1
    MaxCommands = 3
CHECK_DEADLOCK FALSE
PROPERTIES TickIsSound KeepsProbing
