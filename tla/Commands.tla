------------------------------ MODULE Commands ------------------------------
(***************************************************************************)
(* The life of a command of telegram-cli.                                  *)
(*                                                                         *)
(* Every input line becomes a reference-counted `struct in_command'        *)
(* (interface.h).  It is interpreted, handed to tdlib, to a timer, to the  *)
(* list of files being downloaded, or to the tree of messages being sent,  *)
(* and is freed when its last reference is dropped.  The counter           *)
(* allocated_commands and the flag safe_quit decide when the client may    *)
(* exit.  A line typed on a socket also holds its connection, a            *)
(* reference-counted `struct in_ev'.                                       *)
(*                                                                         *)
(* The client is single threaded: one action below is one callback of the  *)
(* event loop, from its first statement to its return.                     *)
(***************************************************************************)
EXTENDS Integers, FiniteSets

CONSTANTS
    Cmd,           \* command blocks; each stands for one line that is read
    Conn,          \* socket connections
    NoConn,        \* cmd->ev = NULL: the console, the start script, Lua
    File,          \* identifiers of files that load_file can ask for
    ConsoleLines,  \* the kinds of line typed on the console
    SocketLines,   \* the kinds of line received on a socket
    ScriptLines,   \* the kinds of line given with --exec
    ScriptLength,  \* the number of lines given with --exec; 0: no --exec
    MaxResolves,   \* peer arguments of a line that must first be resolved
    Limits,        \* message limits given to the command history
    UseLua,        \* a Lua script may send queries of its own
    Daemonize,     \* started with -d
    SecretChats    \* a secret chat may be known that has no chat yet

(* Kinds of line.  "bad": refused with FAIL before anything is sent.       *)
(* "sync": answered at once (set, help, version, ...).  "query": one tdlib *)
(* request.  "message": a request whose answer is a message being sent.    *)
PlainLines == {"empty", "bad", "sync", "query", "message", "history", "load",
               "timer", "main_session", "chat_with_peer", "safe_quit", "quit"}
ChatLines  == {"empty", "chat_exit", "chat_history", "chat_text"}
JsonLines  == {"json_bad", "json_query"}
LineKinds  == PlainLines \cup ChatLines \cup JsonLines

(* Who may hold a reference to a command while the event loop is idle:     *)
(* the extra pointer of a request in flight, a delayed_query, the message  *)
(* tree, a timer, a chat_history_extra, a file_wait; or nobody: "lost".    *)
Stages == {"query", "resolve", "pending", "timer", "history", "lost"} \cup File

Done == "done"      \* the handler completed the command before returning

ASSUME ConstantsAssumption ==
    /\ NoConn \notin Conn
    /\ File \cap {"query", "resolve", "pending", "timer", "history", "lost", Done} = {}
    /\ ConsoleLines \subseteq LineKinds \cup {"eof"}
    /\ SocketLines \subseteq PlainLines \cup JsonLines
    /\ ScriptLines \subseteq PlainLines \cup JsonLines
    /\ ScriptLength \in Nat
    /\ MaxResolves \in Nat
    /\ Limits \subseteq Int
    /\ UseLua \in BOOLEAN
    /\ Daemonize \in BOOLEAN
    /\ SecretChats \in BOOLEAN
    /\ IsFiniteSet(Cmd)

VARIABLES
    mem,        \* "unused", "live" or "freed": the in_command block
    kind,       \* what its line asks for
    peers,      \* how many of its peer arguments are still unresolved
    ev,         \* cmd->ev
    refcnt,     \* cmd->refcnt
    held,       \* held[s]: the commands that s has a pointer to
    left,       \* messages that a history command still wants
    done,       \* how many times the command was completed
    allocated,  \* allocated_commands
    safe_quit,
    chat_mode,  \* cur_chat_mode_chat_id # 0
    script,     \* lines of --exec not yet run
    started,    \* on_started was called
    conn,       \* "none", "open" or "closed": the bufferevent of a connection
    evref,      \* ev->refcnt
    notify,     \* notify_ev
    status      \* "running", or why the process ended

cmdVars  == <<mem, kind, peers, ev, refcnt, held, left, done>>
flagVars == <<safe_quit, chat_mode, script, started>>
connVars == <<conn, evref, notify>>
vars     == <<cmdVars, allocated, flagVars, connVars, status>>

Live     == {c \in Cmd : mem[c] = "live"}
Unused   == {c \in Cmd : mem[c] = "unused"}

(* The event loop is in no callback: it can run the next one. *)
Idle == status = "running" /\ script = 0

Init ==
    /\ mem    = [c \in Cmd |-> "unused"]
    /\ kind   = [c \in Cmd |-> "empty"]
    /\ peers  = [c \in Cmd |-> 0]
    /\ ev     = [c \in Cmd |-> NoConn]
    /\ refcnt = [c \in Cmd |-> 0]
    /\ held   = [s \in Stages |-> {}]
    /\ left   = [c \in Cmd |-> 0]
    /\ done   = [c \in Cmd |-> 0]
    /\ allocated = 0
    /\ safe_quit = FALSE /\ chat_mode = FALSE
    /\ script = 0 /\ started = FALSE
    /\ conn  = [e \in Conn |-> "none"]
    /\ evref = [e \in Conn |-> 0]
    /\ notify = NoConn
    /\ status = "running"

-----------------------------------------------------------------------------
(***************************************************************************)
(* in_command_decref: the commands whose count reached zero in this        *)
(* callback are freed, give up their connection, and the last one to go    *)
(* ends a client that is quitting.  `new' is the command the callback      *)
(* created, `added' what it added to allocated_commands,                  *)
(* `evs' the changes that the handler itself made to ev->refcnt.           *)
(***************************************************************************)
Freed(new) == {c \in Live \cup new : refcnt'[c] <= 0}

(* Slips that the runs must notice stand before the definition they would  *)
(* change; nothing else uses them.  Here: halting while something is still *)
(* allocated, and one callback too late.                                   *)
HaltsAtOnce(new, added) == safe_quit' /\ Freed(new) # {}
HaltsLate(new, added) == safe_quit' /\ allocated = 0 /\ added = 0 /\ Freed(new) # {}

Halts(new, added) ==
    safe_quit' /\ allocated + added \in 1 .. Cardinality(Freed(new))

Settle(new, added, evs) ==
    /\ mem' = [c \in Cmd |-> IF c \in Freed(new) THEN "freed"
                             ELSE IF c \in new THEN "live" ELSE mem[c]]
    /\ allocated' = allocated + added - Cardinality(Freed(new))
    /\ evref' = [e \in Conn |-> evref[e] + evs[e]
                                + Cardinality({c \in new : ev'[c] = e})
                                - Cardinality({c \in Freed(new) : ev'[c] = e})]

NoEvs == [e \in Conn |-> 0]

Ended(new, added) ==
    IF Halts(new, added) THEN "safe_quit" ELSE "running"

-----------------------------------------------------------------------------
(***************************************************************************)
(* interpreter_ex and the handler it calls.                                *)
(***************************************************************************)

(* No reference taken for a line about to be parsed. *)
TakenNever(k) == 0

(* interpreter_ex increments cmd->refcnt once it is about to parse a line, *)
(* interpreter_chat_mode only for a text; json_interpreter_ex only after   *)
(* the line was understood.                                                *)
Taken(k) == IF k \in {"empty", "chat_exit", "chat_history", "json_bad"} THEN 0 ELSE 1

(* Lines that nobody answers. *)
Silent == {"empty", "chat_exit"}

(* A known defect: a text typed in chat mode takes a reference that nobody *)
(* keeps, for the code that would send the text is commented out.          *)
Leaking == {"chat_text"}

(* fail_interface and tdcli_cb drop the reference that was taken. *)
Dropped(k, place) == IF place = Done /\ k \notin Silent THEN 1 ELSE 0

(* Handlers that send one request and leave the command as its extra.      *)
Requests == {"query", "json_query"}

(* The same, for a request whose answer is a message being sent.           *)
Messages == {"message"}

(* Where the handler leaves its pointer to the command. *)
Places(k, p) ==
    IF p > 0 THEN {"resolve"}
    ELSE IF k \in Requests \cup Messages THEN {"query"}
    ELSE IF k \in {"history", "chat_history"} THEN {"history"}
    ELSE IF k = "timer" THEN {"timer"}
    ELSE IF k = "load" THEN File
    ELSE IF k = "chat_text" THEN {"lost"}
    ELSE {Done}

TakesPeer(k) == k \in {"query", "message", "history", "chat_with_peer"}

PeerCounts(k) == IF TakesPeer(k) THEN 0 .. MaxResolves ELSE {0}

HistoryLimits(k, place) ==
    IF place # "history" THEN {0}
    ELSE IF k = "chat_history" THEN {n \in Limits : n >= 0} \cup {40}
    ELSE Limits

(* The new notify_ev takes no reference. *)
HandlerEvsNoTake(k, e) ==
    [x \in Conn |-> - (IF k = "main_session" /\ x = notify THEN 1 ELSE 0)
                    - (IF k = "safe_quit" /\ Daemonize /\ x = e THEN 1 ELSE 0)]

(* do_main_session swaps notify_ev; with -d, do_safe_quit hangs up. *)
HandlerEvs(k, e) ==
    [x \in Conn |-> (IF k = "main_session" /\ x = e THEN 1 ELSE 0)
                    - (IF k = "main_session" /\ x = notify THEN 1 ELSE 0)
                    - (IF k = "safe_quit" /\ Daemonize /\ x = e THEN 1 ELSE 0)]

(* With -d, do_quit and do_safe_quit use cmd->ev without looking at it. *)
NullEv(k, e) == Daemonize /\ k \in {"quit", "safe_quit"} /\ e = NoConn

(* What aborts the client once the handler ran: the count of a line falls  *)
(* below zero (assert in in_command_decref), a negative history limit      *)
(* (assert in do_send_history_query), or read_incoming going on with an    *)
(* in_ev that the line it just ran has freed.                              *)
Faults(c, n, place, new) ==
    \/ refcnt'[c] < 0
    \/ place = "history" /\ n < 0
    \/ \E x \in new : ev'[x] # NoConn /\ evref'[ev'[x]] = 0

(* Interpreting c, whose count is `refs', as a line of kind k from e: its  *)
(* handler leaves its pointer in `place'; a history asks for n messages.   *)
InterpretInto(c, k, e, refs, new, added, place, n) ==
    /\ refcnt' = [refcnt EXCEPT ![c] = refs + Taken(k) - Dropped(k, place) - 1]
    /\ held' = [s \in Stages |-> IF s = place THEN held[s] \cup {c}
                                 ELSE held[s] \ {c}]
    /\ left' = [left EXCEPT ![c] = n]
    /\ done' = [done EXCEPT ![c] = @ + Dropped(k, place)]
    /\ safe_quit' = (safe_quit \/ k = "safe_quit")
    /\ chat_mode' = IF k = "chat_exit" THEN FALSE
                    ELSE chat_mode \/ (k = "chat_with_peer" /\ place = Done /\ e = NoConn)
    /\ notify' = IF k = "main_session" THEN e ELSE notify
    /\ conn' = IF k = "safe_quit" /\ Daemonize /\ e # NoConn
               THEN [conn EXCEPT ![e] = "closed"] ELSE conn
    /\ Settle(new, added, HandlerEvs(k, e))
    /\ status' = IF NullEv(k, e) THEN "fault"
                 ELSE IF k = "quit" THEN "quit"
                 ELSE IF Halts(new, added) THEN "safe_quit"
                 ELSE IF Faults(c, n, place, new) THEN "fault" ELSE "running"

Interpret(c, k, p, e, refs, new, added) ==
    \E place \in Places(k, p) : \E n \in HistoryLimits(k, place) :
       InterpretInto(c, k, e, refs, new, added, place, n)

(* interpreter and on_started count their command, read_incoming does not. *)
Added(e) == IF e = NoConn THEN 1 ELSE 0

(* A line becomes a command: the reader allocates it with one reference.   *)
NewCommand(c, k, e) ==
    /\ mem[c] = "unused"
    /\ kind' = [kind EXCEPT ![c] = k]
    /\ ev' = [ev EXCEPT ![c] = e]
    /\ \E p \in PeerCounts(k) :
         /\ peers' = [peers EXCEPT ![c] = p]
         /\ Interpret(c, k, p, e, 1, {c}, Added(e))

(* interpreter: a line typed on the console.  In chat mode it goes to      *)
(* interpreter_chat_mode.                                                  *)
ReadConsole(c) ==
    /\ Idle
    /\ \E k \in ConsoleLines :
         /\ k \in (IF chat_mode THEN ChatLines ELSE PlainLines \cup JsonLines)
         /\ NewCommand(c, k, NoConn)
    /\ UNCHANGED <<script, started>>

(* interpreter on end of file: a safe_quit without a command, then         *)
(* strdup of the NULL line (and, with -d, the NULL command before it).     *)
ConsoleEof ==
    /\ Idle
    /\ "eof" \in ConsoleLines
    /\ safe_quit' = TRUE
    /\ status' = "fault"
    /\ UNCHANGED <<cmdVars, allocated, chat_mode, script, started, connVars>>

(* read_incoming: a line from a socket.  It is not in allocated_commands.  *)
ReadSocket(c, e) ==
    /\ Idle
    /\ conn[e] = "open"
    /\ \E k \in SocketLines : NewCommand(c, k, e)
    /\ UNCHANGED <<script, started>>

(* on_started: the client is logged in and --exec was given.  The lines    *)
(* run one after the other in this callback, so nothing else does until    *)
(* script is 0 again.  The guard on Unused only bounds the instance.       *)
StartScript ==
    /\ Idle /\ ~started
    /\ 0 < ScriptLength /\ ScriptLength <= Cardinality(Unused)
    /\ started' = TRUE
    /\ safe_quit' = TRUE
    /\ script' = ScriptLength
    /\ UNCHANGED <<cmdVars, allocated, chat_mode, connVars, status>>

ScriptLine(c) ==
    /\ status = "running" /\ script > 0
    /\ script' = script - 1
    /\ \E k \in ScriptLines : NewCommand(c, k, NoConn)
    /\ UNCHANGED started

(* lua_parse_function: the script calls tdcli_function. *)
LuaQuery(c) ==
    /\ Idle /\ UseLua
    /\ mem[c] = "unused"
    /\ kind' = [kind EXCEPT ![c] = "query"]
    /\ refcnt' = [refcnt EXCEPT ![c] = 1]
    /\ held' = [held EXCEPT !["query"] = @ \cup {c}]
    /\ ev' = [ev EXCEPT ![c] = NoConn]
    /\ UNCHANGED <<peers, left, done, flagVars, conn, notify, status>>
    /\ Settle({c}, 1, NoEvs)

-----------------------------------------------------------------------------
(***************************************************************************)
(* The callbacks that give a reference back.                               *)
(***************************************************************************)

(* tdcli_cb on the commands in S, which stage s pointed to: each is        *)
(* completed and loses one reference.  A command that is no longer live is *)
(* memory used after it was freed.                                         *)
Complete(s, S) ==
    /\ held' = [held EXCEPT ![s] = @ \ S]
    /\ refcnt' = [c \in Cmd |-> IF c \in S THEN refcnt[c] - 1 ELSE refcnt[c]]
    /\ done' = [c \in Cmd |-> IF c \in S THEN done[c] + 1 ELSE done[c]]
    /\ UNCHANGED <<kind, peers, ev, flagVars, conn, notify>>
    /\ Settle({}, 0, NoEvs)
    /\ status' = IF ~(S \subseteq Live) THEN "fault" ELSE Ended({}, 0)

(* The answer to a request whose extra pointer is the command. *)
Reply(c) ==
    /\ Idle /\ c \in held["query"]
    /\ Complete("query", {c})
    /\ UNCHANGED left

(* The message tree takes no reference. *)
MessageQueuedNoRef(c) ==
    /\ Idle /\ c \in held["query"] /\ kind[c] \in Messages
    /\ refcnt' = [refcnt EXCEPT ![c] = @ - 1]
    /\ held' = [held EXCEPT !["query"] = @ \ {c}, !["pending"] = @ \cup {c}]
    /\ UNCHANGED <<kind, peers, ev, left, done, flagVars, conn, notify>>
    /\ Settle({}, 0, NoEvs)
    /\ status' = Ended({}, 0)

(* print_msg_success_gw: the answer is a message being sent.  The message  *)
(* tree takes a reference before tdcli_cb drops its own.                   *)
MessageQueued(c) ==
    /\ Idle /\ c \in held["query"] /\ kind[c] \in Messages
    /\ refcnt' = [refcnt EXCEPT ![c] = @ + 1 - 1]
    /\ held' = [held EXCEPT !["query"] = @ \ {c}, !["pending"] = @ \cup {c}]
    /\ UNCHANGED <<kind, peers, ev, left, done, flagVars, conn, notify>>
    /\ Settle({}, 0, NoEvs)
    /\ status' = Ended({}, 0)

(* The message stays in the tree after it was settled. *)
MessageSettledKeeps(c) ==
    /\ Idle /\ c \in held["pending"] /\ done[c] < 2
    /\ refcnt' = [refcnt EXCEPT ![c] = @ - 1]
    /\ done' = [done EXCEPT ![c] = @ + 1]
    /\ UNCHANGED <<kind, peers, ev, held, left, flagVars, conn, notify>>
    /\ Settle({}, 0, NoEvs)
    /\ status' = Ended({}, 0)

(* UpdateMessageSendSucceeded and UpdateMessageSendFailed. *)
MessageSettled(c) ==
    /\ Idle /\ c \in held["pending"]
    /\ Complete("pending", {c})
    /\ UNCHANGED left

(* on_timer_alarm. *)
TimerFires(c) ==
    /\ Idle /\ c \in held["timer"]
    /\ Complete("timer", {c})
    /\ UNCHANGED left

(* received_chat_history_slice: an error, an empty slice or the last       *)
(* message wanted completes the command, anything else asks for more.      *)
HistorySlice(c) ==
    /\ Idle /\ c \in held["history"]
    /\ \/ /\ Complete("history", {c})
          /\ UNCHANGED left
       \/ \E n \in 1 .. (left[c] - 1) :
            /\ left' = [left EXCEPT ![c] = @ - n]
            /\ UNCHANGED <<mem, kind, peers, ev, refcnt, held, done, allocated,
                           flagVars, connVars, status>>

(* Only the first callback of the list is called. *)
FileSettledFirst(f) ==
    /\ Idle
    /\ \E c \in held[f] :
         /\ held' = [held EXCEPT ![f] = {}]
         /\ refcnt' = [refcnt EXCEPT ![c] = @ - 1]
         /\ done' = [done EXCEPT ![c] = @ + 1]
         /\ UNCHANGED <<kind, peers, ev, left, flagVars, conn, notify>>
         /\ Settle({}, 0, NoEvs)
         /\ status' = Ended({}, 0)

(* UpdateFile with a path, or DownloadFile refused: every command waiting  *)
(* for the file is completed in one callback, unless the client halts      *)
(* after some of them.                                                     *)
FileSettled(f) ==
    /\ Idle
    /\ \E S \in SUBSET held[f] :
         /\ S # {}
         /\ IF safe_quit /\ allocated \in 1 .. Cardinality(held[f])
            THEN Cardinality(S) = allocated ELSE S = held[f]
         /\ Complete(f, S)
    /\ UNCHANGED left

(* stop_query frees the delayed query and forgets its command. *)
ResolveFailedForgets(c) ==
    /\ Idle /\ c \in held["resolve"]
    /\ held' = [held EXCEPT !["resolve"] = @ \ {c}]
    /\ UNCHANGED <<mem, kind, peers, ev, refcnt, left, done, allocated, flagVars,
                   connVars, status>>

(* process_with_query_resolve_chat, stop_query: the peer does not exist. *)
ResolveFailed(c) ==
    /\ Idle /\ c \in held["resolve"]
    /\ Complete("resolve", {c})
    /\ UNCHANGED left

(* process_with_query_resolve_chat, proceed_with_query: the line is        *)
(* interpreted again, with one unknown peer less; the chat found may be of *)
(* a type the argument does not accept, and then the line is refused.      *)
Resolved(c) ==
    /\ Idle /\ c \in held["resolve"]
    /\ UNCHANGED <<kind, ev, script, started>>
    /\ peers' = [peers EXCEPT ![c] = @ - 1]
    /\ \E k \in {kind[c], "bad"} :
         Interpret(c, k, IF k = "bad" THEN 0 ELSE peers[c] - 1, ev[c], refcnt[c], {}, 0)

(* accept_incoming. *)
Accept(e) ==
    /\ Idle /\ conn[e] = "none"
    /\ conn' = [conn EXCEPT ![e] = "open"]
    /\ evref' = [evref EXCEPT ![e] = 1]
    /\ UNCHANGED <<cmdVars, allocated, flagVars, notify, status>>

(* event_incoming: the peer hung up. *)
Close(e) ==
    /\ Idle /\ conn[e] = "open"
    /\ conn' = [conn EXCEPT ![e] = "closed"]
    /\ evref' = [evref EXCEPT ![e] = @ - 1]
    /\ UNCHANGED <<cmdVars, allocated, flagVars, notify, status>>

(* Some line is about to be read that may name a peer, or read again with  *)
(* another peer than the one just resolved.                                *)
PeerRead ==
    \/ Idle /\ Unused # {} /\ ~chat_mode /\ \E k \in ConsoleLines : TakesPeer(k)
    \/ Idle /\ Unused # {} /\ \E e \in Conn : conn[e] = "open"
            /\ \E k \in SocketLines : TakesPeer(k)
    \/ status = "running" /\ script > 0 /\ \E k \in ScriptLines : TakesPeer(k)
    \/ Idle /\ \E c \in held["resolve"] : peers[c] > 1

(* cur_token_peer on the name of a secret chat that an update has told of  *)
(* and that has no chat: there is no request to make one, and the switch   *)
(* falls to its assertion.                                                 *)
SecretPeer ==
    /\ SecretChats /\ PeerRead
    /\ status' = "fault"
    /\ UNCHANGED <<cmdVars, allocated, flagVars, connVars>>

Next ==
    \/ \E c \in Cmd :
         \/ ReadConsole(c) \/ ScriptLine(c) \/ LuaQuery(c)
         \/ Reply(c) \/ MessageQueued(c) \/ MessageSettled(c)
         \/ TimerFires(c) \/ HistorySlice(c)
         \/ ResolveFailed(c) \/ Resolved(c)
         \/ \E e \in Conn : ReadSocket(c, e)
    \/ \E f \in File : FileSettled(f)
    \/ \E e \in Conn : Accept(e) \/ Close(e)
    \/ ConsoleEof \/ SecretPeer \/ StartScript

Spec == Init /\ [][Next]_vars

(* tdlib answers every request, delivers every message or reports that it  *)
(* could not, and settles every download; timers fire; the lines of --exec *)
(* run to the end.  Nobody is obliged to type anything.                    *)
Fairness ==
    /\ \A c \in Cmd :
         /\ WF_vars(Reply(c) \/ MessageQueued(c))
         /\ WF_vars(MessageSettled(c))
         /\ WF_vars(TimerFires(c))
         /\ WF_vars(HistorySlice(c))
         /\ WF_vars(ResolveFailed(c) \/ Resolved(c))
    /\ \A f \in File : WF_vars(FileSettled(f))
    /\ WF_vars(\E c \in Cmd : ScriptLine(c))

FairSpec == Spec /\ Fairness

-----------------------------------------------------------------------------
(***************************************************************************)
(* Properties.                                                             *)
(***************************************************************************)

(* Type correctness: what every variable may hold. *)
TypeOK ==
    /\ mem \in [Cmd -> {"unused", "live", "freed"}]
    /\ kind \in [Cmd -> LineKinds]
    /\ peers \in [Cmd -> 0 .. MaxResolves]
    /\ ev \in [Cmd -> Conn \cup {NoConn}]
    /\ refcnt \in [Cmd -> Int]
    /\ held \in [Stages -> SUBSET Cmd]
    /\ left \in [Cmd -> Int]
    /\ done \in [Cmd -> Nat]
    /\ allocated \in Int
    /\ safe_quit \in BOOLEAN /\ chat_mode \in BOOLEAN /\ started \in BOOLEAN
    /\ script \in 0 .. ScriptLength
    /\ conn \in [Conn -> {"none", "open", "closed"}]
    /\ evref \in [Conn -> Int]
    /\ notify \in Conn \cup {NoConn}
    /\ status \in {"running", "safe_quit", "quit", "fault"}

(* The pointers to a command; a lost one is not a pointer.                 *)
Holders(c) == {s \in Stages \ {"lost"} : c \in held[s]}

(* Between two callbacks the count of a command is the number of pointers  *)
(* to it, whichever callbacks moved it from request to tree to timer: no   *)
(* command leaks but those of Leaking, and none is reached by a reply      *)
(* after it was freed.                                                     *)
RefcntExact == \A c \in Cmd : kind[c] \notin Leaking => refcnt[c] = Cardinality(Holders(c))

(* A command is completed once: never while something still points to it,  *)
(* never twice, and never freed without its answer (interface.c print_*,   *)
(* fail_interface), however its request, upload or download ends.          *)
CompletedOnce ==
    \A c \in Cmd :
       /\ mem[c] = "live" => done[c] = 0
       /\ mem[c] = "freed" /\ kind[c] \notin Silent => done[c] = 1
       /\ done[c] <= 1

(* The inductive form of both: a command in memory has one reference, is   *)
(* with exactly one stage and was not completed; a freed one is with none  *)
(* and was completed, unless its line asked for nothing.                   *)
OneHolder ==
    \A c \in Cmd :
       /\ mem[c] = "live" =>
            /\ refcnt[c] = 1 /\ done[c] = 0 /\ kind[c] \notin Silent
            /\ \E s \in Stages : \A t \in Stages : c \in held[t] <=> t = s
       /\ mem[c] # "live" => refcnt[c] = 0 /\ \A t \in Stages : c \notin held[t]
       /\ mem[c] = "unused" => done[c] = 0
       /\ mem[c] = "freed" => done[c] = IF kind[c] \in Silent THEN 0 ELSE 1

(* safe_quit "Waits for all queries to end, then quits" (interface.c:2503) *)
(* and never before: when it ends the client no command is outstanding.    *)
QuitWaits == status = "safe_quit" => Live = {}

(* No assertion fails and no freed command or connection is used, whatever *)
(* the order of input, replies, updates and hang-ups.                      *)
NoFault == status # "fault"

(* What allocated_commands really counts: the commands in memory that did  *)
(* not come from a socket, less the socket's commands already freed, which *)
(* in_command_decref subtracts although read_incoming never added them.    *)
AllocatedCounts ==
    allocated = Cardinality({c \in Live : ev[c] = NoConn})
                - Cardinality({c \in Cmd : mem[c] = "freed" /\ ev[c] # NoConn})

(* A connection's count is one for its bufferevent, one for each of its    *)
(* commands in memory and one for notify_ev, so that an in_ev outlives a   *)
(* hang-up exactly as long as an answer may still be printed to it.        *)
EvRefExact ==
    \A e \in Conn :
       evref[e] = (IF conn[e] = "open" THEN 1 ELSE 0)
                  + Cardinality({c \in Live : ev[c] = e})
                  + (IF notify = e THEN 1 ELSE 0)

(* Once safe_quit is given, the client ends. *)
QuitHappens == safe_quit ~> status # "running"

(* Every command that holds memory is completed and freed, or the client   *)
(* ends first.                                                             *)
EveryCommandEnds == \A c \in Cmd : mem[c] = "live" ~> (mem[c] = "freed" \/ status # "running")

(* Service!Spec: without sockets, every behaviour of the reference         *)
(* counting is one that CommandService allows.                             *)
Service == INSTANCE CommandService WITH
    open     <- Live,
    closed   <- {c \in Cmd : mem[c] = "freed"},
    quitting <- safe_quit,
    stopped  <- CASE status = "running" -> "no"
                  [] status = "safe_quit" -> "waited"
                  [] OTHER -> "killed"

(* Without sockets the client implements CommandService. *)
ImplementsService == Service!Spec

=============================================================================
