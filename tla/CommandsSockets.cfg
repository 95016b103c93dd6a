CONSTANTS
    Cmd = {c1, c2, c3}
    Conn = {e1, e2}
    NoConn = NoConn
    File = {f1}
    ConsoleLines <- AnyConsole
    SocketLines <- PlainLines
    ScriptLines <- ConsoleMix
    ScriptLength = 1
    MaxResolves = 1
    Limits <- AnyLimit
    UseLua = FALSE
    Daemonize = TRUE
    SecretChats = TRUE
SPECIFICATION Spec
SYMMETRY Symmetry
INVARIANT EvRefExact
CHECK_DEADLOCK FALSE
