CONSTANTS
    Cmd = {c1, c2, c3}
    Conn = {}
    NoConn = NoConn
    File = {f1}
    ConsoleLines <- SafeConsole
    SocketLines = {}
    ScriptLines <- PlainLines
    ScriptLength = 1
    MaxResolves = 1
    Limits = {0, 2}
    UseLua = TRUE
    Daemonize = FALSE
    SecretChats = FALSE
SPECIFICATION Spec
SYMMETRY Symmetry
INVARIANTS RefcntExact CompletedOnce QuitWaits 
PROPERTY ImplementsService
CHECK_DEADLOCK FALSE
