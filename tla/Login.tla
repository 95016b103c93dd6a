-------------------------------- MODULE Login --------------------------------
(***************************************************************************)
(* Logging in to telegram-cli (loop.c: tdcli_login, on_got_auth_state,     *)
(* do_get_string and the on_got_* callbacks).                              *)
(*                                                                         *)
(* The client asks tdlib for the authorization state and does what the     *)
(* answer says: it asks the user for one string, repeats a request, sets a *)
(* timer, or declares itself started.  A string is typed in place of       *)
(* readline's line, which is put aside while the prompt is open.  Each     *)
(* action is one callback of the event loop.                               *)
(***************************************************************************)
EXTENDS Naturals

CONSTANTS
    MaxRefusals,  \* bound: how many requests are refused without a reason
    MaxText       \* bound: how much is typed into one readline line

ASSUME LoginAssumption == MaxRefusals \in Nat /\ MaxText \in Nat

(* tdlib's authorization states; "other" is one the client does not know.  *)
AuthStates == {"other", "phone", "code", "password", "ok", "logging_out"}

(* The requests of the login.  A code is sent with the names of a new user *)
(* ("signup") or without.                                                  *)
Requests == {"get_state", "set_phone", "check_code", "signup",
             "check_password", "check_bot", "get_chats"}

(* What the login can be waiting for. *)
Activities == Requests \cup {"timer", "prompt"}

Prompts == {"phone", "code", "password", "first_name", "last_name"}

VARIABLES
    auth,       \* auth_state; "unset" is its initial 0
    waits,      \* waits[a]: answers and timers that are still to come
    prompt,     \* the string being asked for, or "none"
    names,      \* the names typed for the code that is (to be) sent
    started,    \* calls of on_started
    line,       \* rl_line_buffer: how much of a line is in it
    saved,      \* saved_line: what deactivate_readline put aside
    typed,      \* what the user has typed of the current line
    input,      \* stdin is still read
    td,         \* tdlib: the authorization state it is in
    registered, \* tdlib: the phone number has an account
    refusals,   \* requests refused so far
    bot_mode,   \* options: the account is a bot's,
    bot_hash,   \*   its token is known, and the chats are fetched
    wait_dialog_list, \* before the client starts
    misled      \* history: is_registered_ was read from an error

options    == <<bot_mode, bot_hash, wait_dialog_list>>
clientVars == <<auth, waits, prompt, names, started, misled>>
lineVars   == <<line, saved, typed, input>>
tdVars     == <<td, registered, refusals>>
vars       == <<clientVars, lineVars, tdVars, options>>

Nothing == [a \in Activities |-> 0]
FirstRequest == IF bot_mode /\ bot_hash THEN "check_bot" ELSE "get_state"

Init ==
    /\ bot_mode \in BOOLEAN /\ bot_hash \in BOOLEAN /\ wait_dialog_list \in BOOLEAN
    /\ auth = "unset"
    /\ waits = [Nothing EXCEPT ![FirstRequest] = 1]
    /\ prompt = "none" /\ names = {}
    /\ started = 0
    /\ line = 0 /\ saved = 0 /\ typed = 0 /\ input = TRUE
    /\ td \in AuthStates /\ registered \in BOOLEAN
    /\ refusals = 0
    /\ misled = FALSE

-----------------------------------------------------------------------------
(* The three ways to go on.  deactivate_readline puts the line aside, but  *)
(* only when no prompt has taken its place already.                        *)
Send(w, r) == [w EXCEPT ![r] = @ + 1]

OpenPrompt(w, p, open, text) ==
    /\ prompt' = p
    /\ waits' = Send(w, "prompt")
    /\ saved' = IF open THEN saved ELSE text
    /\ line' = IF open THEN line ELSE 0

NoPrompt(w) ==
    /\ waits' = w
    /\ UNCHANGED <<prompt, saved, line>>

(* Slips in on_got_auth_state: an error starts the login over, the list of *)
(* dialogs is not waited for, and an error in a prompt asks the user and   *)
(* tdlib at once.                                                          *)
NextAuthRestarts(res) == IF res = "error" THEN "phone" ELSE res
FinishTwice(w) ==
    /\ NoPrompt(IF wait_dialog_list THEN Send(w, "get_chats") ELSE w)
    /\ started' = started + 1

NextAuth(res) == IF res = "error" THEN auth ELSE res

(* AuthStateOk: the client is started, perhaps once it has the chats. *)
Finish(w) ==
    /\ NoPrompt(IF wait_dialog_list THEN Send(w, "get_chats") ELSE w)
    /\ started' = IF wait_dialog_list THEN started ELSE started + 1

(* is_registered_ is read from the answer even if that is an error object, *)
(* where it may hold anything.                                             *)
ReadRegistered(res) == IF res = "error" THEN BOOLEAN ELSE {registered}

(* WaitCode, with the answer always read as that of a registered user. *)
AskCodeAlways(w, res) ==
    /\ OpenPrompt(w, "code", prompt # "none", line)
    /\ names' = {}

AskCode(w, res) ==
    /\ \E r \in ReadRegistered(res) :
         OpenPrompt(w, IF r THEN "code" ELSE "first_name", prompt # "none", line)
    /\ names' = {}

(* on_got_auth_state: the answer res; w is what is still awaited. *)
OnAuthState(w, res) ==
    /\ auth' = NextAuth(res)
    /\ misled' = (misled \/ (auth' = "code" /\ res = "error"))
    /\ \/ /\ auth' = "phone"
          /\ IF bot_mode THEN NoPrompt(Send(w, "check_bot"))
             ELSE OpenPrompt(w, "phone", prompt # "none", line)
          /\ UNCHANGED <<names, started>>
       \/ /\ auth' = "code"
          /\ AskCode(w, res)
          /\ UNCHANGED started
       \/ /\ auth' = "password"
          /\ OpenPrompt(w, "password", prompt # "none", line)
          /\ UNCHANGED <<names, started>>
       \/ /\ auth' = "ok"
          /\ Finish(w)
          /\ UNCHANGED names
       \/ /\ auth' = "logging_out"
          /\ NoPrompt(w)
          /\ UNCHANGED <<names, started>>
       \/ /\ auth' \in {"unset", "other"}
          /\ NoPrompt(Send(w, "timer"))
          /\ UNCHANGED <<names, started>>

-----------------------------------------------------------------------------
(***************************************************************************)
(* tdlib, as the client sees it.                                           *)
(***************************************************************************)

(* The states that a request can lead to from td. *)
Accepted(r) ==
    CASE r = "get_state" -> {td}
      [] r = "set_phone" /\ td = "phone" -> {"code"}
      [] r = "check_bot" /\ td = "phone" /\ bot_hash -> {"ok"}
      [] r = "check_code" /\ td = "code" /\ registered -> {"password", "ok"}
      [] r = "signup" /\ td = "code" -> {"ok"}
      [] r = "check_password" /\ td = "password" -> {"ok"}
      [] OTHER -> {}

MayRefuse(r) ==
    \/ Accepted(r) = {}
    \/ refusals < MaxRefusals

(* A refused request forgets that it was answered. *)
AnswerLost(r) ==
    /\ r # "get_chats" /\ waits[r] > 0
    /\ \/ \E s \in Accepted(r) :
            /\ td' = s /\ OnAuthState([waits EXCEPT ![r] = @ - 1], s)
            /\ UNCHANGED refusals
       \/ /\ MayRefuse(r) /\ auth # "unset"
          /\ waits' = [waits EXCEPT ![r] = @ - 1]
          /\ refusals' = IF Accepted(r) = {} THEN refusals ELSE refusals + 1
          /\ UNCHANGED <<auth, prompt, names, started, misled, saved, line, td>>
    /\ UNCHANGED <<typed, input, registered, options>>

(* tdlib answers a request of the login. *)
Answer(r) ==
    /\ r # "get_chats" /\ waits[r] > 0
    /\ \/ \E s \in Accepted(r) :
            /\ td' = s
            /\ OnAuthState([waits EXCEPT ![r] = @ - 1], s)
            /\ UNCHANGED refusals
       \/ /\ MayRefuse(r)
          /\ refusals' = IF Accepted(r) = {} THEN refusals ELSE refusals + 1
          /\ OnAuthState([waits EXCEPT ![r] = @ - 1], "error")
          /\ UNCHANGED td
    /\ UNCHANGED <<typed, input, registered, options>>

(* got_dialog_list_cb: the chats, or an error, which is only logged. *)
GotDialogs ==
    /\ waits["get_chats"] > 0
    /\ waits' = [waits EXCEPT !["get_chats"] = @ - 1]
    /\ started' = started + 1
    /\ UNCHANGED <<auth, prompt, names, misled, lineVars, tdVars, options>>

(* tdlib gets ready: the number is known, or is asked for. *)
TdReady ==
    /\ td = "other"
    /\ td' \in {"phone", "ok"}
    /\ UNCHANGED <<clientVars, lineVars, registered, refusals, options>>

(* on_got_unknown_cb, 10 ms after an answer that meant nothing. *)
RetryTimer ==
    /\ waits["timer"] > 0
    /\ waits' = [waits EXCEPT !["timer"] = @ - 1, !["get_state"] = @ + 1]
    /\ UNCHANGED <<auth, prompt, names, started, misled, lineVars, tdVars, options>>

-----------------------------------------------------------------------------
(***************************************************************************)
(* The user.                                                               *)
(***************************************************************************)

(* The request that a finished string is sent with.                        *)
RequestFor(p) ==
    CASE p = "phone" -> "set_phone"
      [] p = "password" -> "check_password"
      [] p = "code" -> IF names = {} THEN "check_code" ELSE "signup"

(* on_got_phone, on_got_code and on_got_password *)
SendString(w, p) ==
    /\ p \in {"phone", "password", "code"}
    /\ waits' = Send(w, RequestFor(p))
    /\ prompt' = "none"
    /\ line' = saved /\ saved' = 0
    /\ UNCHANGED names

(* The place a name is stored in.  *)
NameOf(p) == IF p = "first_name" THEN "first" ELSE "last"

(* on_got_first_name and on_got_last_name; text is readline's line.        *)
NextString(w, p, text) ==
    /\ p \in {"first_name", "last_name"}
    /\ names' = names \cup {NameOf(p)}
    /\ OpenPrompt(w, IF p = "first_name" THEN "last_name" ELSE "code", FALSE, text)

(* A slip: the string is handed over before readline has its line back.    *)
StringTypedEarly ==
    /\ input /\ prompt # "none"
    /\ LET w == [waits EXCEPT !["prompt"] = @ - 1] IN
          SendString(w, prompt) \/ NextString(w, prompt, line)
    /\ UNCHANGED <<auth, started, misled, typed, input, tdVars, options>>

(* one_string_read_end: readline gets its line back, then the callback of  *)
(* the prompt sends a request or opens the next prompt.                    *)
StringTyped ==
    /\ input /\ prompt # "none"
    /\ LET w == [waits EXCEPT !["prompt"] = @ - 1] IN
          SendString(w, prompt) \/ NextString(w, prompt, saved)
    /\ UNCHANGED <<auth, started, misled, typed, input, tdVars, options>>

(* End of file while a string is typed: stdin is not read any more.        *)
StringEof ==
    /\ input /\ prompt # "none"
    /\ input' = FALSE
    /\ UNCHANGED <<clientVars, line, saved, typed, tdVars, options>>

(* readline: a character of a command, or the end of it. *)
TypeText ==
    /\ input /\ prompt = "none"
    /\ \/ line < MaxText /\ line' = line + 1 /\ typed' = typed + 1
       \/ line' = 0 /\ typed' = 0
    /\ UNCHANGED <<clientVars, saved, input, tdVars, options>>

Next ==
    \/ \E r \in Requests : Answer(r)
    \/ GotDialogs \/ TdReady \/ RetryTimer
    \/ StringTyped \/ StringEof \/ TypeText

Spec == Init /\ [][Next]_vars

(* tdlib answers, becomes ready, and timers fire.  The user answers what   *)
(* he is asked.                                                            *)
Fairness ==
    /\ \A r \in Requests : WF_vars(Answer(r))
    /\ WF_vars(GotDialogs) /\ WF_vars(TdReady) /\ WF_vars(RetryTimer)
    /\ WF_vars(StringTyped)

FairSpec == Spec /\ Fairness

-----------------------------------------------------------------------------
(***************************************************************************)
(* Properties.                                                             *)
(***************************************************************************)

(* Type correctness. *)
TypeOK ==
    /\ auth \in AuthStates \cup {"unset"}
    /\ waits \in [Activities -> Nat]
    /\ prompt \in Prompts \cup {"none"}
    /\ names \in {{}, {"first"}, {"first", "last"}}
    /\ started \in Nat
    /\ line \in Nat /\ saved \in Nat /\ typed \in Nat /\ input \in BOOLEAN
    /\ td \in AuthStates /\ registered \in BOOLEAN
    /\ refusals \in Nat
    /\ bot_mode \in BOOLEAN /\ bot_hash \in BOOLEAN /\ wait_dialog_list \in BOOLEAN
    /\ misled \in BOOLEAN

Finished == started > 0 \/ auth = "logging_out"

(* The login waits for exactly one thing, an answer, a timer or the user,  *)
(* until it is over, and then for none: no answer is processed twice, no   *)
(* prompt opens over another, and the login is never left with nobody to   *)
(* take the next step.                                                     *)
OneActivity ==
    /\ prompt # "none" <=> waits["prompt"] > 0
    /\ IF Finished THEN waits = Nothing
       ELSE \E a \in Activities : waits = [Nothing EXCEPT ![a] = 1]

(* The user is asked for what tdlib is waiting for, also after refusals    *)
(* and retries; names are part of a code.                                  *)
PromptFits ==
    /\ prompt \in {"phone", "password"} => td = prompt
    /\ prompt \in {"code", "first_name", "last_name"} => td = "code"

(* on_started, which runs the lines of --exec, is called once, and only    *)
(* for a client that tdlib has let in.                                     *)
StartedOnce == started <= 1 /\ (started = 1 => td = "ok")

(* A registered user is not asked for a name and a new user is not signed  *)
(* in without one, however many requests fail, unless an error was read as *)
(* an answer about the account.                                            *)
NamesFit ==
    ~misled =>
        /\ waits["check_code"] > 0 => registered
        /\ waits["signup"] > 0 => ~registered /\ names = {"first", "last"}

(* Asking for strings never loses what was typed on readline's line. *)
TextKept == typed = IF prompt = "none" THEN line ELSE saved

(* A person who answers what he is asked gets in, and so does a bot with   *)
(* its token, unless the client found itself logging out, its input ended, *)
(* or an error was read as an answer about the account.                    *)
LoginEnds ==
    (bot_mode => bot_hash)
    => <>(started = 1 \/ td = "logging_out" \/ ~input \/ misled)

=============================================================================
