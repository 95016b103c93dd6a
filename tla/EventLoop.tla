------------------------------ MODULE EventLoop ------------------------------
(***************************************************************************)
(* The event loop of telegram-cli and the threads of tdlib (loop.c:        *)
(* net_loop, pipe_read_cb, wakeup; main.c: the signal handlers).           *)
(*                                                                         *)
(* A thread of tdlib queues an update and then writes a word to the wakeup *)
(* pipe, waiting while the pipe is full.  The main loop sleeps until an    *)
(* event is ready, runs its callbacks, and then looks at what they and the *)
(* signal handlers have set.                                               *)
(***************************************************************************)
EXTENDS Naturals, FiniteSets

CONSTANTS
    Thread,     \* the threads of tdlib
    PipeSize,   \* how many words the pipe holds
    MaxPosts,   \* bound: updates queued
    MaxEvents   \* bound: events other than the pipe's (stdin, sockets, timers)

ASSUME EventLoopAssumption ==
    /\ IsFiniteSet(Thread)
    /\ PipeSize \in Nat \ {0} /\ MaxPosts \in Nat /\ MaxEvents \in Nat

VARIABLES
    posted,             \* updates queued so far
    queue,              \* and not yet delivered
    posting,            \* threads between queueing and the end of wakeup
    pipe,               \* words in the pipe
    need_update,
    need_prompt_update,
    stale,              \* the prompt on the screen is not the current one
    events,             \* other events that are ready
    arrived,            \* other events so far
    loop,               \* "poll": in event_base_loop; "check": after it
    sigterm_cnt,
    status              \* "running", "halted" by do_halt, "killed" by a signal

threadVars == <<posted, posting>>
loopVars   == <<need_update, need_prompt_update, stale, loop>>
eventVars  == <<threadVars, queue, pipe, loopVars, events, arrived, sigterm_cnt, status>>

LoopInit ==
    /\ posted = 0 /\ queue = 0 /\ posting = {} /\ pipe = 0
    /\ need_update = FALSE /\ need_prompt_update = FALSE /\ stale = FALSE
    /\ events = 0 /\ arrived = 0
    /\ loop = "poll"
    /\ sigterm_cnt = 0 /\ status = "running"

-----------------------------------------------------------------------------
(* A thread queues an update ... *)
Post(t) ==
    /\ status = "running" /\ t \notin posting /\ posted < MaxPosts
    /\ posted' = posted + 1 /\ queue' = queue + 1
    /\ posting' = posting \cup {t}
    /\ UNCHANGED <<pipe, loopVars, events, arrived, sigterm_cnt, status>>

(* ... and writes to the pipe when there is room. *)
Wakeup(t) ==
    /\ status = "running" /\ t \in posting /\ pipe < PipeSize
    /\ pipe' = pipe + 1
    /\ posting' = posting \ {t}
    /\ UNCHANGED <<posted, queue, loopVars, events, arrived, sigterm_cnt, status>>

(* A key, a connection, a line on a socket or a timer. *)
EventReady ==
    /\ status = "running" /\ arrived < MaxEvents
    /\ arrived' = arrived + 1 /\ events' = events + 1
    /\ UNCHANGED <<threadVars, queue, pipe, loopVars, sigterm_cnt, status>>

(* sig_term_handler, and termination_signal_handler after it: a signal     *)
(* does not end event_base_loop, which polls again.                        *)
Signal ==
    /\ status = "running"
    /\ IF sigterm_cnt = 0 THEN sigterm_cnt' = 1 /\ UNCHANGED status
                          ELSE status' = "killed" /\ UNCHANGED sigterm_cnt
    /\ UNCHANGED <<threadVars, queue, pipe, loopVars, events, arrived>>

-----------------------------------------------------------------------------
(* A slip: pipe_read_cb empties the pipe. *)
PipeReadAll == pipe' = 0

(* pipe_read_cb: one word. *)
PipeRead == pipe' = pipe - 1

(* event_base_loop (EVLOOP_ONCE): the callbacks of all events ready.  What *)
(* they print, and a line of the console, makes the prompt stale and sets  *)
(* need_prompt_update (print_end, interpreter).                            *)
Poll ==
    /\ status = "running" /\ loop = "poll"
    /\ pipe > 0 \/ events > 0
    /\ IF pipe > 0 THEN PipeRead /\ need_update' = TRUE
                   ELSE UNCHANGED <<pipe, need_update>>
    /\ \E prints \in IF events > 0 THEN BOOLEAN ELSE {FALSE} :
         /\ stale' = (stale \/ prints)
         /\ need_prompt_update' = (need_prompt_update \/ prints)
    /\ events' = 0
    /\ loop' = "check"
    /\ UNCHANGED <<threadVars, queue, arrived, sigterm_cnt, status>>

(* do_halt *)
Halt ==
    /\ sigterm_cnt > 0
    /\ status' = "halted"
    /\ UNCHANGED <<queue, need_update, need_prompt_update, stale, loop>>

(* A slip: the prompt is left to the next round. *)
WorkNoPrompt ==
    /\ need_update
    /\ \E k \in 0..queue : (queue > 0 => k > 0) /\ queue' = queue - k
    /\ \E prints \in BOOLEAN :
         /\ stale' = (stale \/ prints)
         /\ need_prompt_update' = (need_prompt_update \/ prints)
    /\ need_update' = FALSE
    /\ loop' = "poll"
    /\ UNCHANGED status

(* TdCClientWork delivers some of the updates, at least one if there is    *)
(* one; they may print, and update_prompt redraws the prompt after them.   *)
Work ==
    /\ need_update
    /\ \E k \in 0..queue : (queue > 0 => k > 0) /\ queue' = queue - k
    /\ stale' = FALSE
    /\ \E prints \in BOOLEAN : need_prompt_update' = (need_prompt_update \/ prints)
    /\ need_update' = FALSE
    /\ loop' = "poll"
    /\ UNCHANGED status

(* update_prompt, when there was no update. *)
Redraw ==
    /\ ~need_update
    /\ stale' = (stale /\ ~need_prompt_update)
    /\ need_prompt_update' = FALSE
    /\ loop' = "poll"
    /\ UNCHANGED <<queue, need_update, status>>

(* A slip: signals are looked at only when there is no update. *)
CheckUpdatesFirst ==
    /\ status = "running" /\ loop = "check"
    /\ \/ Work
       \/ ~need_update /\ Halt
       \/ sigterm_cnt = 0 /\ Redraw
    /\ UNCHANGED <<threadVars, pipe, events, arrived, sigterm_cnt>>

(* The rest of a round of net_loop. *)
Check ==
    /\ status = "running" /\ loop = "check"
    /\ \/ Halt
       \/ sigterm_cnt = 0 /\ Work
       \/ sigterm_cnt = 0 /\ Redraw
    /\ UNCHANGED <<threadVars, pipe, events, arrived, sigterm_cnt>>

LoopNext ==
    \/ \E t \in Thread : Post(t) \/ Wakeup(t)
    \/ EventReady \/ Signal \/ Poll \/ Check

LoopSpec == LoopInit /\ [][LoopNext]_eventVars

(* The main loop and the threads of tdlib run; nothing has to be posted,   *)
(* typed or signalled.                                                     *)
LoopFairness ==
    /\ WF_eventVars(Poll) /\ WF_eventVars(Check)
    /\ \A t \in Thread : WF_eventVars(Wakeup(t))

FairLoop == LoopSpec /\ LoopFairness

-----------------------------------------------------------------------------
(* Type correctness. *)
LoopTypeOK ==
    /\ posted \in Nat /\ queue \in Nat /\ posting \subseteq Thread
    /\ pipe \in 0..PipeSize
    /\ need_update \in BOOLEAN /\ need_prompt_update \in BOOLEAN /\ stale \in BOOLEAN
    /\ events \in Nat /\ arrived \in Nat
    /\ loop \in {"poll", "check"}
    /\ sigterm_cnt \in {0, 1} /\ status \in {"running", "halted", "killed"}

(* Every undelivered update still has a wakeup of its own to come: a word  *)
(* in the pipe, a thread about to write one, or the one just read.  So the *)
(* loop never sleeps on an update, even if TdCClientWork delivers one at a *)
(* time and threads queue more while it runs.                              *)
WakeupPending ==
    queue <= pipe + Cardinality(posting) + (IF need_update THEN 1 ELSE 0)

(* The loop never sleeps on a prompt that its last round made stale.       *)
PromptFresh == loop = "poll" => ~stale /\ ~need_update

(* Every update is delivered, however full the pipe is and whether or not  *)
(* anything else happens, unless the client ends.                          *)
UpdatesDelivered ==
    \A n \in 1..MaxPosts :
        posted >= n ~> posted - queue >= n \/ status # "running"

(* Once an event is ready, a SIGTERM ends the client, also while updates   *)
(* keep coming.  (Without any event it does not: see Signal.)              *)
SigtermNoticed ==
    sigterm_cnt > 0 /\ (pipe > 0 \/ events > 0) ~> status # "running"

=============================================================================
