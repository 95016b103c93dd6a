--------------------------- MODULE CommandService ---------------------------
(***************************************************************************)
(* What the user of telegram-cli is promised about commands, with no       *)
(* reference counts, requests or callbacks: a command is opened, stays     *)
(* open until it is answered, and is then closed for good; a client asked  *)
(* to quit safely stops with the very answer that leaves nothing open, and *)
(* not before ("Waits for all queries to end, then quits",                 *)
(* interface.c:2503).  "quit" alone stops it at once.                      *)
(***************************************************************************)
CONSTANT Cmd

VARIABLES
    open,      \* commands not answered yet
    closed,    \* commands answered and released
    quitting,  \* a safe quit was asked for
    stopped    \* "no", "waited" (safe quit) or "killed" (quit)

vars == <<open, closed, quitting, stopped>>

Init ==
    /\ open = {} /\ closed = {}
    /\ quitting = FALSE /\ stopped = "no"

Fresh == Cmd \ (open \cup closed)

(* A command is accepted and its answer is yet to come. *)
Open(c) ==
    /\ stopped = "no" /\ c \in Fresh
    /\ open' = open \cup {c}
    /\ UNCHANGED <<closed, quitting, stopped>>

(* Some commands are answered together, one of them perhaps the moment it  *)
(* was given; one of them may be the request to quit.                      *)
Close(S) ==
    /\ stopped = "no" /\ S # {}
    /\ \/ S \subseteq open
       \/ \E c \in Fresh : S \subseteq open \cup {c}
    /\ open' = open \ S
    /\ closed' = closed \cup S
    /\ quitting' \in {quitting, TRUE}
    /\ stopped' = IF quitting' /\ open' = {} THEN "waited" ELSE "no"

(* --exec: the client will quit when its commands are done. *)
AskQuit ==
    /\ stopped = "no"
    /\ quitting' = TRUE
    /\ UNCHANGED <<open, closed, stopped>>

(* quit ends the client, whatever is open. *)
Kill(c) ==
    /\ stopped = "no" /\ c \in Fresh
    /\ closed' = closed \cup {c}
    /\ stopped' = "killed"
    /\ UNCHANGED <<open, quitting>>

Next ==
    \/ \E c \in Cmd : Open(c) \/ Kill(c)
    \/ \E S \in SUBSET Cmd : Close(S)
    \/ AskQuit

Spec == Init /\ [][Next]_vars
=============================================================================
