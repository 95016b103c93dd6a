CONSTANTS
    Cmd = {c1, c2}
    Conn = {e1}
    NoConn = NoConn
    File = {f1}
    ConsoleLines = {"query"}
    SocketLines = {"safe_quit"}
    ScriptLines = {}
    ScriptLength = 0
    MaxResolves = 1
    Limits = {2}
    UseLua = FALSE
    Daemonize = FALSE
    SecretChats = FALSE
SPECIFICATION Spec
INVARIANT QuitWaits
CHECK_DEADLOCK FALSE
