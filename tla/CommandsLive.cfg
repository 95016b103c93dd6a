CONSTANTS
    Cmd = {c1, c2}
    Conn = {}
    NoConn = NoConn
    File = {f1}
    ConsoleLines <- LiveConsole
    SocketLines = {}
    ScriptLines <- LiveConsole
    ScriptLength = 1
    MaxResolves = 2
    Limits = {2}
    UseLua = FALSE
    Daemonize = FALSE
    SecretChats = TRUE
SPECIFICATION FairSpec
PROPERTIES QuitHappens EveryCommandEnds
CHECK_DEADLOCK FALSE
