SPECIFICATION QSpec
CONSTANTS
    Threads = {"main", "a", "b"}
    Main = "main"
    MaxItems = 2
    Pushes = 3
PROPERTIES
    ImplementsChannel
    ExitReturns
CHECK_DEADLOCK FALSE
