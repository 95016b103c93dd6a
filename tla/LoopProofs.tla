------------------------------ MODULE LoopProofs ------------------------------
(***************************************************************************)
(* Proofs about the two modules of loop.c: Login and EventLoop.  They      *)
(* share no variable.                                                      *)
(***************************************************************************)
EXTENDS Login, EventLoop, FiniteSetTheorems, TLAPS

(***************************************************************************)
(* Login: for a person or a bot, with any number of refusals and however   *)
(* much is typed.  The inductive invariant is Inv.                         *)
(***************************************************************************)

(* Once the client knows a state of tdlib, tdlib is in that state.         *)
AuthFits == auth \in {"unset", "other"} \/ auth = td

(* The chats are only asked for by a client that is let in. *)
ChatsFit == waits["get_chats"] > 0 => auth = "ok"

(* The names are typed in their order. *)
NamesOrdered ==
    /\ prompt = "first_name" => names = {}
    /\ prompt = "last_name" => names = {"first"}

Inv ==
    /\ TypeOK /\ OneActivity /\ PromptFits /\ StartedOnce /\ TextKept
    /\ AuthFits /\ ChatsFit /\ NamesOrdered

-----------------------------------------------------------------------------
(* The activity that is over was the only one. *)
LEMMA OnlyActivity ==
    ASSUME Inv, NEW a \in Activities, waits[a] > 0
    PROVE  /\ waits = [Nothing EXCEPT ![a] = 1]
           /\ [waits EXCEPT ![a] = @ - 1] = Nothing
           /\ ~Finished
           /\ a # "prompt" => prompt = "none"
  <1>1. ~Finished
    <2>1. Nothing[a] = 0
      BY DEF Nothing
    <2>. QED  BY <2>1 DEF Inv, OneActivity
  <1>2. PICK b \in Activities : waits = [Nothing EXCEPT ![b] = 1]
    BY <1>1 DEF Inv, OneActivity
  <1>3. b = a
    BY <1>2 DEF Nothing
  <1>4. [waits EXCEPT ![a] = @ - 1] = Nothing
    BY <1>2, <1>3 DEF Nothing
  <1>5. a # "prompt" => prompt = "none"
    BY <1>2, <1>3 DEF Inv, OneActivity, Nothing, Activities
  <1>. QED  BY <1>1, <1>2, <1>3, <1>4, <1>5

(* What is awaited next is the only activity. *)
LEMMA SendOne ==
    ASSUME NEW a \in Activities
    PROVE  Send(Nothing, a) = [Nothing EXCEPT ![a] = 1]
  BY DEF Send, Nothing

(* Nobody waits: the counts of a client without prompts. *)
LEMMA NoWait == Nothing \in [Activities -> Nat]
  BY DEF Nothing

(* One activity waits. *)
LEMMA OneWait ==
    ASSUME NEW a \in Activities, NEW b \in Activities
    PROVE  /\ [Nothing EXCEPT ![a] = 1] \in [Activities -> Nat]
           /\ [Nothing EXCEPT ![a] = 1][b] > 0 <=> b = a
           /\ ~(Nothing[b] > 0)
  BY DEF Nothing

(* One activity, with its prompt if it is one. *)
LEMMA OneIsAll ==
    ASSUME NEW a \in Activities, waits = [Nothing EXCEPT ![a] = 1],
           prompt # "none" <=> a = "prompt", ~Finished
    PROVE  OneActivity
  <1>1. "prompt" \in Activities
    BY DEF Activities
  <1>2. waits["prompt"] > 0 <=> a = "prompt"
    BY <1>1, OneWait
  <1>3. \E b \in Activities : waits = [Nothing EXCEPT ![b] = 1]
    OBVIOUS
  <1>. QED  BY <1>2, <1>3 DEF OneActivity

(* Initially one request is on its way. *)
LEMMA InitInv == Init => Inv
  <1>. SUFFICES ASSUME Init PROVE Inv
    OBVIOUS
  <1>1. FirstRequest \in Activities /\ FirstRequest # "prompt" /\ FirstRequest # "get_chats"
    BY DEF FirstRequest, Activities, Requests
  <1>2. "prompt" \in Activities /\ "get_chats" \in Activities
    BY DEF Activities, Requests
  <1>3. /\ waits \in [Activities -> Nat]
        /\ ~(waits["prompt"] > 0) /\ ~(waits["get_chats"] > 0)
    BY <1>1, <1>2, OneWait DEF Init
  <1>4. TypeOK
    BY <1>3 DEF Init, TypeOK
  <1>5. OneActivity
    <2>1. waits = [Nothing EXCEPT ![FirstRequest] = 1] /\ ~Finished
      BY DEF Init, Finished
    <2>2. prompt # "none" <=> FirstRequest = "prompt"
      BY <1>1 DEF Init
    <2>. QED  BY <1>1, <2>1, <2>2, OneIsAll
  <1>6. PromptFits /\ StartedOnce /\ TextKept /\ AuthFits /\ ChatsFit /\ NamesOrdered
    BY <1>3 DEF Init, PromptFits, StartedOnce, TextKept, AuthFits, ChatsFit,
                NamesOrdered
  <1>. QED  BY <1>4, <1>5, <1>6 DEF Inv

-----------------------------------------------------------------------------
(* Asking for a string while none is asked for.                            *)
LEMMA OpenPromptFacts ==
    ASSUME Inv, NEW p \in Prompts, prompt = "none",
           OpenPrompt(Nothing, p, FALSE, line)
    PROVE  /\ prompt' = p /\ saved' = line /\ line' = 0
           /\ waits' = [Nothing EXCEPT !["prompt"] = 1]
  BY SendOne DEF OpenPrompt, Activities

(* The states in which a string is asked for, a request or timer is        *)
(* awaited, or the login is over.                                          *)
LEMMA PromptState ==
    ASSUME TypeOK', waits' = [Nothing EXCEPT !["prompt"] = 1],
           prompt' \in Prompts, PromptFits', AuthFits', TextKept', NamesOrdered',
           started' = 0, auth' # "logging_out"
    PROVE  Inv'
  <1>1. "prompt" \in Activities /\ waits'["prompt"] = 1 /\ ~(waits'["get_chats"] > 0)
    BY DEF Nothing, Activities, Requests
  <1>2. (prompt' # "none" <=> waits'["prompt"] > 0) /\ ~Finished'
    BY <1>1 DEF Prompts, Finished
  <1>3. \E a \in Activities : waits' = [Nothing EXCEPT ![a] = 1]
    BY <1>1
  <1>4. OneActivity'
    BY <1>2, <1>3 DEF OneActivity
  <1>5. StartedOnce' /\ ChatsFit'
    BY <1>1 DEF StartedOnce, ChatsFit
  <1>. QED  BY <1>4, <1>5 DEF Inv

(* What the invariant says of a state in which a prompt waits, *)
LEMMA WaitState ==
    ASSUME TypeOK', NEW a \in Activities \ {"prompt"},
           waits' = [Nothing EXCEPT ![a] = 1], a = "get_chats" => auth' = "ok",
           prompt' = "none", AuthFits', TextKept',
           started' = 0, auth' # "logging_out"
    PROVE  Inv'
  <1>1. ~(waits'["prompt"] > 0) /\ (waits'["get_chats"] > 0 => a = "get_chats")
    BY DEF Nothing, Activities, Requests
  <1>2. (prompt' # "none" <=> waits'["prompt"] > 0) /\ ~Finished'
    BY <1>1 DEF Finished
  <1>3. \E b \in Activities : waits' = [Nothing EXCEPT ![b] = 1]
    OBVIOUS
  <1>4. OneActivity'
    BY <1>2, <1>3 DEF OneActivity
  <1>5. StartedOnce' /\ ChatsFit' /\ PromptFits' /\ NamesOrdered'
    BY <1>1 DEF StartedOnce, ChatsFit, PromptFits, NamesOrdered
  <1>. QED  BY <1>4, <1>5 DEF Inv

(* and of one in which none does. *)
LEMMA OverState ==
    ASSUME TypeOK', waits' = Nothing, prompt' = "none", AuthFits', TextKept',
           \/ started' = 1 /\ auth' = "ok"
           \/ started' = 0 /\ auth' = "logging_out"
    PROVE  Inv'
  <1>1. ~(waits'["prompt"] > 0) /\ ~(waits'["get_chats"] > 0)
    BY DEF Nothing, Activities, Requests
  <1>2. OneActivity'
    BY <1>1 DEF OneActivity, Finished
  <1>3. StartedOnce' /\ ChatsFit' /\ PromptFits' /\ NamesOrdered'
    BY <1>1 DEF StartedOnce, ChatsFit, PromptFits, AuthFits, NamesOrdered
  <1>. QED  BY <1>2, <1>3 DEF Inv

(* An answer of tdlib keeps the invariant.                                 *)
LEMMA AuthStateStep ==
    ASSUME Inv, NEW res \in AuthStates \cup {"error"},
           started = 0, auth # "logging_out", prompt = "none",
           OnAuthState(Nothing, res),
           td' = IF res = "error" THEN td ELSE res,
           typed' = typed, input' = input, registered' = registered,
           refusals' \in Nat, UNCHANGED options
    PROVE  Inv'
  <1>1. AuthFits' /\ auth' \in AuthStates \cup {"unset"} /\ td' \in AuthStates
    BY DEF OnAuthState, NextAuth, Inv, AuthFits, TypeOK, AuthStates
  <1>2. /\ names' \in {{}, {"first"}, {"first", "last"}}
        /\ line \in Nat /\ saved \in Nat /\ typed \in Nat /\ input \in BOOLEAN
        /\ registered \in BOOLEAN /\ typed = line
        /\ (bot_mode \in BOOLEAN /\ bot_hash \in BOOLEAN /\ wait_dialog_list \in BOOLEAN)'
        /\ misled' \in BOOLEAN
    BY DEF OnAuthState, AskCode, Finish, Inv, TypeOK, TextKept, options
  <1>3. ASSUME NEW p \in Prompts, OpenPrompt(Nothing, p, prompt # "none", line),
               \/ auth' = "phone" /\ p = "phone"
               \/ auth' = "password" /\ p = "password"
               \/ auth' = "code" /\ p \in {"code", "first_name"} /\ names' = {},
               started' = 0
        PROVE  Inv'
    <2>1. /\ prompt' = p /\ saved' = line /\ line' = 0
          /\ waits' = [Nothing EXCEPT !["prompt"] = 1]
      BY <1>3, OpenPromptFacts
    <2>2. TypeOK'
      BY <1>1, <1>2, <1>3, <2>1, OneWait DEF TypeOK, Activities
    <2>3. PromptFits' /\ TextKept' /\ NamesOrdered'
      BY <1>1, <1>2, <1>3, <2>1 DEF PromptFits, TextKept, AuthFits, Prompts, NamesOrdered
    <2>. QED  BY <1>1, <1>3, <2>1, <2>2, <2>3, PromptState
  <1>4. ASSUME NEW a \in Activities \ {"prompt"}, NoPrompt(Send(Nothing, a)),
               a = "get_chats" => auth' = "ok",
               started' = 0, auth' # "logging_out"
        PROVE  Inv'
    <2>1. waits' = [Nothing EXCEPT ![a] = 1] /\ prompt' = "none"
      BY <1>4, SendOne DEF NoPrompt
    <2>2. TypeOK' /\ TextKept'
      BY <1>1, <1>2, <1>4, <2>1, OneWait DEF TypeOK, TextKept, NoPrompt
    <2>. QED  BY <1>1, <1>4, <2>1, <2>2, WaitState
  <1>5. ASSUME NoPrompt(Nothing),
               \/ started' = 1 /\ auth' = "ok"
               \/ started' = 0 /\ auth' = "logging_out"
        PROVE  Inv'
    <2>1. waits' = Nothing /\ prompt' = "none"
      BY <1>5 DEF NoPrompt
    <2>2. TypeOK' /\ TextKept'
      BY <1>1, <1>2, <1>5, <2>1, NoWait DEF TypeOK, TextKept, NoPrompt
    <2>. QED  BY <1>1, <1>5, <2>1, <2>2, OverState
  <1>6. CASE auth' = "phone" /\ started' = started /\ names' = names /\
             IF bot_mode THEN NoPrompt(Send(Nothing, "check_bot"))
             ELSE OpenPrompt(Nothing, "phone", prompt # "none", line)
    BY <1>3, <1>4, <1>6 DEF Prompts, Activities, Requests
  <1>7. CASE auth' = "code" /\ AskCode(Nothing, res) /\ started' = started
    BY <1>3, <1>7 DEF AskCode, Prompts
  <1>8. CASE auth' = "password" /\ started' = started /\
             OpenPrompt(Nothing, "password", prompt # "none", line)
    BY <1>3, <1>8 DEF Prompts
  <1>9. CASE auth' = "ok" /\ Finish(Nothing)
    BY <1>4, <1>5, <1>9 DEF Finish, Activities, Requests
  <1>10. CASE auth' = "logging_out" /\ NoPrompt(Nothing) /\ started' = started
    BY <1>5, <1>10
  <1>11. CASE auth' \in {"unset", "other"} /\ started' = started /\
              NoPrompt(Send(Nothing, "timer"))
    BY <1>4, <1>11 DEF Activities
  <1>. QED  BY <1>6, <1>7, <1>8, <1>9, <1>10, <1>11 DEF OnAuthState

-----------------------------------------------------------------------------
(* Every action keeps the invariant.                                       *)
LEMMA NextInv == Inv /\ [Next]_vars => Inv'
  <1>. SUFFICES ASSUME Inv, [Next]_vars PROVE Inv'
    OBVIOUS
  <1>1. ASSUME NEW r \in Requests, Answer(r) PROVE Inv'
    <2>1. /\ waits[r] > 0 /\ r \in Activities /\ r # "prompt" /\ r # "get_chats"
          /\ typed' = typed /\ input' = input /\ registered' = registered
          /\ UNCHANGED options
      BY <1>1 DEF Answer, Activities, Requests
    <2>2. /\ [waits EXCEPT ![r] = @ - 1] = Nothing
          /\ started = 0 /\ auth # "logging_out" /\ prompt = "none"
      BY <2>1, OnlyActivity DEF Inv, Finished, TypeOK
    <2>3. ASSUME NEW s \in Accepted(r), td' = s, OnAuthState(Nothing, s),
                 refusals' = refusals
          PROVE  Inv'
      <3>1. s \in AuthStates
        BY <2>3 DEF Accepted, Inv, TypeOK, AuthStates
      <3>2. s # "error" /\ refusals' \in Nat
        BY <3>1, <2>3 DEF AuthStates, Inv, TypeOK
      <3>. QED  BY <2>1, <2>2, <2>3, <3>1, <3>2, AuthStateStep
    <2>4. ASSUME OnAuthState(Nothing, "error"), td' = td,
                 refusals' = IF Accepted(r) = {} THEN refusals ELSE refusals + 1
          PROVE  Inv'
      <3>1. refusals' \in Nat
        BY <2>4 DEF Inv, TypeOK
      <3>. QED  BY <2>1, <2>2, <2>4, <3>1, AuthStateStep
    <2>. QED  BY <1>1, <2>2, <2>3, <2>4 DEF Answer
  <1>2. CASE GotDialogs
    <2>1. /\ "get_chats" \in Activities /\ waits["get_chats"] > 0
          /\ UNCHANGED <<auth, prompt, names, misled, lineVars, tdVars, options>>
      BY <1>2 DEF GotDialogs, Activities, Requests
    <2>2. /\ waits' = Nothing /\ started = 0 /\ auth = "ok" /\ prompt = "none"
      BY <1>2, <2>1, OnlyActivity DEF GotDialogs, Inv, Finished, TypeOK, ChatsFit
    <2>3. started' = 1
      BY <1>2, <2>2 DEF GotDialogs
    <2>4. TypeOK' /\ AuthFits' /\ TextKept'
      BY <2>1, <2>2, <2>3, NoWait DEF Inv, TypeOK, AuthFits, TextKept, lineVars, tdVars, options
    <2>. QED  BY <2>1, <2>2, <2>3, <2>4, OverState
  <1>3. CASE TdReady
    <2>. USE <1>3 DEF TdReady, clientVars, lineVars, options
    <2>1. prompt = "none" /\ auth \in {"unset", "other"} /\ started = 0
      BY DEF Inv, PromptFits, TypeOK, Prompts, AuthFits, StartedOnce, AuthStates
    <2>2. TypeOK'
      BY DEF Inv, TypeOK, AuthStates
    <2>3. OneActivity' /\ PromptFits' /\ StartedOnce' /\ TextKept' /\ AuthFits' /\ ChatsFit'
          /\ NamesOrdered'
      BY <2>1 DEF Inv, OneActivity, Finished, PromptFits, StartedOnce, TextKept,
                  AuthFits, ChatsFit, NamesOrdered
    <2>. QED  BY <2>2, <2>3 DEF Inv
  <1>4. CASE RetryTimer
    <2>1. /\ "timer" \in Activities /\ waits["timer"] > 0
          /\ "get_state" \in Activities \ {"prompt"}
          /\ UNCHANGED <<auth, prompt, names, started, misled, lineVars, tdVars, options>>
      BY <1>4 DEF RetryTimer, Activities, Requests
    <2>2. /\ waits = [Nothing EXCEPT !["timer"] = 1]
          /\ started = 0 /\ auth # "logging_out" /\ prompt = "none"
      BY <2>1, OnlyActivity DEF Inv, Finished, TypeOK
    <2>3. waits' = [Nothing EXCEPT !["get_state"] = 1]
      BY <1>4, <2>2 DEF RetryTimer, Nothing, Activities, Requests
    <2>4. TypeOK' /\ AuthFits' /\ TextKept'
      BY <2>1, <2>2, <2>3, OneWait DEF Inv, TypeOK, AuthFits, TextKept, lineVars, tdVars, options
    <2>. QED  BY <2>1, <2>2, <2>3, <2>4, WaitState
  <1>5. CASE StringTyped
    <2>1. /\ "prompt" \in Activities /\ waits["prompt"] > 0 /\ prompt # "none"
          /\ UNCHANGED <<auth, started, misled, typed, input, tdVars, options>>
      BY <1>5 DEF StringTyped, Inv, OneActivity, Activities
    <2>2. /\ [waits EXCEPT !["prompt"] = @ - 1] = Nothing
          /\ started = 0 /\ auth # "logging_out" /\ typed = saved
          /\ saved \in Nat
      BY <2>1, OnlyActivity DEF Inv, Finished, TypeOK, TextKept
    <2>3. AuthFits'
      BY <2>1 DEF Inv, AuthFits, tdVars
    <2>4. CASE SendString(Nothing, prompt)
      <3>1. RequestFor(prompt) \in Activities \ {"prompt"} /\ RequestFor(prompt) # "get_chats"
        BY <2>4 DEF SendString, RequestFor, Activities, Requests
      <3>2. /\ waits' = [Nothing EXCEPT ![RequestFor(prompt)] = 1]
            /\ prompt' = "none" /\ names' = names /\ line' = saved /\ saved' = 0
        BY <2>4, <3>1, SendOne DEF SendString
      <3>3. TypeOK' /\ TextKept'
        BY <2>1, <2>2, <3>1, <3>2, OneWait DEF Inv, TypeOK, TextKept, tdVars, options
      <3>. QED  BY <2>1, <2>2, <2>3, <3>1, <3>2, <3>3, WaitState
    <2>5. CASE NextString(Nothing, prompt, saved)
      <3>1. /\ prompt \in {"first_name", "last_name"}
            /\ prompt' \in {"last_name", "code"}
            /\ waits' = [Nothing EXCEPT !["prompt"] = 1]
            /\ saved' = saved /\ line' = 0
        BY <2>1, <2>5, SendOne DEF NextString, OpenPrompt
      <3>2. /\ names' \in {{}, {"first"}, {"first", "last"}}
            /\ NamesOrdered'
        BY <2>5, SendOne DEF NextString, NameOf, NamesOrdered, OpenPrompt, Inv
      <3>3. TypeOK'
        BY <2>1, <2>2, <3>1, <3>2, OneWait DEF Inv, TypeOK, tdVars, options, Prompts
      <3>4. PromptFits' /\ TextKept'
        BY <2>1, <2>2, <3>1 DEF Inv, PromptFits, TextKept, tdVars
      <3>. QED  BY <2>1, <2>2, <2>3, <3>1, <3>2, <3>3, <3>4, PromptState DEF Prompts
    <2>. QED  BY <1>5, <2>2, <2>4, <2>5 DEF StringTyped
  <1>6. CASE StringEof
    <2>1. TypeOK'
      BY <1>6 DEF StringEof, clientVars, tdVars, options, Inv, TypeOK
    <2>2. OneActivity' /\ PromptFits' /\ StartedOnce' /\ TextKept' /\ AuthFits' /\ ChatsFit'
          /\ NamesOrdered'
      BY <1>6 DEF StringEof, clientVars, tdVars, Inv, OneActivity, Finished,
                  PromptFits, StartedOnce, TextKept, AuthFits, ChatsFit, NamesOrdered
    <2>. QED  BY <2>1, <2>2 DEF Inv
  <1>7. CASE TypeText
    BY <1>7 DEF TypeText, clientVars, tdVars, options, Inv, TypeOK, OneActivity, Finished,
                PromptFits, StartedOnce, TextKept, AuthFits, ChatsFit,
                NamesOrdered
  <1>8. CASE UNCHANGED vars
    BY <1>8 DEF vars, clientVars, lineVars, tdVars, options, Inv, TypeOK, OneActivity, Finished,
                PromptFits, StartedOnce, TextKept, AuthFits, ChatsFit,
                NamesOrdered
  <1>. QED  BY <1>1, <1>2, <1>3, <1>4, <1>5, <1>6, <1>7, <1>8 DEF Next

(* Inv holds in every state. *)
LEMMA Correct == Spec => []Inv
  BY InitInv, NextInv, PTL DEF Spec

(* Every variable keeps its type. *)
THEOREM TypeCorrect == Spec => []TypeOK
  <1>1. Inv => TypeOK
    BY DEF Inv
  <1>. QED  BY <1>1, Correct, PTL

(* There is always exactly one activity, until the login is over.          *)
THEOREM OneActivityCorrect == Spec => []OneActivity
  <1>1. Inv => OneActivity
    BY DEF Inv
  <1>. QED  BY <1>1, Correct, PTL

(* The user is asked for what tdlib waits for. *)
THEOREM PromptCorrect == Spec => []PromptFits
  <1>1. Inv => PromptFits
    BY DEF Inv
  <1>. QED  BY <1>1, Correct, PTL

(* The client is started at most once, and then it is logged in.           *)
THEOREM StartedCorrect == Spec => []StartedOnce
  <1>1. Inv => StartedOnce
    BY DEF Inv
  <1>. QED  BY <1>1, Correct, PTL

(* No prompt loses what was typed. *)
THEOREM TextCorrect == Spec => []TextKept
  <1>1. Inv => TextKept
    BY DEF Inv
  <1>. QED  BY <1>1, Correct, PTL

-----------------------------------------------------------------------------
(***************************************************************************)
(* The names: nothing is asked or sent for a wrong kind of user before the *)
(* first error that is read as an answer about the account.                *)
(***************************************************************************)
NamesInv == ~misled =>
    /\ waits["check_code"] > 0 => registered
    /\ waits["signup"] > 0 => ~registered /\ names = {"first", "last"}
    /\ prompt \in {"first_name", "last_name"} => ~registered
    /\ prompt = "code" => names = IF registered THEN {} ELSE {"first", "last"}

(* No request of a code is out. *)
LEMMA NoCodeSent ==
    ASSUME waits' = Nothing \/
           \E a \in Activities \ {"check_code", "signup"} : waits' = [Nothing EXCEPT ![a] = 1]
    PROVE  ~(waits'["check_code"] > 0) /\ ~(waits'["signup"] > 0)
  BY DEF Nothing, Activities, Requests

(* NamesInv at the start. *)
LEMMA InitNames == Init => NamesInv
  <1>. SUFFICES ASSUME Init PROVE NamesInv
    OBVIOUS
  <1>1. ~(waits["check_code"] > 0) /\ ~(waits["signup"] > 0)
    BY DEF Init, FirstRequest, Nothing, Activities, Requests
  <1>. QED  BY <1>1 DEF Init, NamesInv

(* An answer keeps NamesInv. *)
LEMMA AnswerNames ==
    ASSUME Inv, NamesInv, NEW res \in AuthStates \cup {"error"},
           prompt = "none", registered' = registered, OnAuthState(Nothing, res)
    PROVE  NamesInv'
  <1>. USE SendOne
  <1>0. waits' = Nothing \/
        \E a \in Activities \ {"check_code", "signup"} : waits' = [Nothing EXCEPT ![a] = 1]
    BY DEF OnAuthState, AskCode, OpenPrompt, NoPrompt, Finish, Activities, Requests
  <1>00. ~(waits'["check_code"] > 0) /\ ~(waits'["signup"] > 0)
    BY <1>0, NoCodeSent
  <1>1. CASE auth' = "code" /\ res # "error"
    <2>1. AskCode(Nothing, res)
      BY <1>1 DEF OnAuthState
    <2>2. PICK r \in {registered} :
            OpenPrompt(Nothing, IF r THEN "code" ELSE "first_name", FALSE, line)
      BY <1>1, <2>1 DEF AskCode, ReadRegistered
    <2>3. names' = {} /\ prompt' = IF registered THEN "code" ELSE "first_name"
      BY <2>1, <2>2 DEF AskCode, OpenPrompt
    <2>. QED  BY <1>00, <2>3 DEF NamesInv, Inv, TypeOK
  <1>2. CASE auth' = "code" /\ res = "error"
    BY <1>2 DEF OnAuthState, NamesInv
  <1>3. CASE auth' # "code"
    <2>1. prompt' \in {"none", "phone", "password"}
      BY <1>3 DEF OnAuthState, OpenPrompt, NoPrompt, Finish
    <2>. QED  BY <1>00, <2>1 DEF NamesInv
  <1>. QED  BY <1>1, <1>2, <1>3

(* NamesInv is inductive under Inv. *)
LEMMA NextNames ==
    ASSUME Inv, NamesInv, [Next]_vars
    PROVE  NamesInv'
  <1>1. ASSUME NEW r \in Requests, Answer(r) PROVE NamesInv'
    <2>1. /\ waits[r] > 0 /\ r \in Activities /\ r # "prompt"
          /\ registered' = registered
      BY <1>1 DEF Answer, Activities, Requests
    <2>2. [waits EXCEPT ![r] = @ - 1] = Nothing /\ prompt = "none"
      BY <2>1, OnlyActivity
    <2>3. ASSUME NEW s \in Accepted(r), OnAuthState(Nothing, s)
          PROVE  NamesInv'
      <3>1. s \in AuthStates
        BY DEF Accepted, Inv, TypeOK, AuthStates
      <3>. QED  BY <2>1, <2>2, <2>3, <3>1, AnswerNames
    <2>4. ASSUME OnAuthState(Nothing, "error")
          PROVE  NamesInv'
      BY <2>1, <2>2, <2>4, AnswerNames
    <2>. QED  BY <1>1, <2>2, <2>3, <2>4 DEF Answer
  <1>2. CASE GotDialogs
    <2>1. /\ "get_chats" \in Activities /\ waits["get_chats"] > 0
          /\ UNCHANGED <<prompt, names, misled>>
      BY <1>2 DEF GotDialogs, Activities, Requests
    <2>2. waits' = Nothing /\ prompt = "none"
      BY <1>2, <2>1, OnlyActivity DEF GotDialogs
    <2>. QED  BY <2>1, <2>2, NoCodeSent DEF NamesInv
  <1>3. CASE TdReady
    BY <1>3 DEF TdReady, clientVars, NamesInv
  <1>4. CASE RetryTimer
    <2>1. /\ "timer" \in Activities /\ waits["timer"] > 0
          /\ UNCHANGED <<prompt, names, misled>>
      BY <1>4 DEF RetryTimer, Activities
    <2>2. waits = [Nothing EXCEPT !["timer"] = 1] /\ prompt = "none"
      BY <2>1, OnlyActivity
    <2>3. waits' = [Nothing EXCEPT !["get_state"] = 1]
      BY <1>4, <2>2 DEF RetryTimer, Nothing, Activities, Requests
    <2>4. ~(waits'["check_code"] > 0) /\ ~(waits'["signup"] > 0)
      BY <2>3, NoCodeSent DEF Activities, Requests
    <2>. QED  BY <2>1, <2>2, <2>4 DEF NamesInv
  <1>5. CASE StringTyped
    <2>1. /\ "prompt" \in Activities /\ waits["prompt"] > 0 /\ prompt # "none"
          /\ misled' = misled /\ registered' = registered
      BY <1>5 DEF StringTyped, Inv, OneActivity, Activities, tdVars
    <2>2. [waits EXCEPT !["prompt"] = @ - 1] = Nothing
      BY <2>1, OnlyActivity
    <2>3. CASE SendString(Nothing, prompt)
      <3>1. RequestFor(prompt) \in Activities
        BY <2>3 DEF SendString, RequestFor, Activities, Requests
      <3>2. /\ waits' = [Nothing EXCEPT ![RequestFor(prompt)] = 1]
            /\ prompt' = "none" /\ names' = names
        BY <2>3, <3>1, SendOne DEF SendString
      <3>3. /\ waits'["check_code"] > 0 => RequestFor(prompt) = "check_code"
            /\ waits'["signup"] > 0 => RequestFor(prompt) = "signup"
        BY <3>2 DEF Nothing, Activities, Requests
      <3>4. ~misled =>
              /\ RequestFor(prompt) = "check_code" => registered
              /\ RequestFor(prompt) = "signup" => ~registered /\ names = {"first", "last"}
        BY <2>3 DEF SendString, RequestFor, NamesInv
      <3>. QED  BY <2>1, <3>2, <3>3, <3>4 DEF NamesInv
    <2>4. CASE NextString(Nothing, prompt, saved)
      <3>1. /\ prompt \in {"first_name", "last_name"}
            /\ prompt' = IF prompt = "first_name" THEN "last_name" ELSE "code"
            /\ waits' = [Nothing EXCEPT !["prompt"] = 1]
            /\ names' = names \cup {NameOf(prompt)}
        BY <2>1, <2>4, SendOne DEF NextString, OpenPrompt
      <3>2. /\ ~misled => ~registered
            /\ prompt = "last_name" => names' = {"first", "last"}
        BY <3>1 DEF NamesInv, Inv, NamesOrdered, NameOf
      <3>3. ~(waits'["check_code"] > 0) /\ ~(waits'["signup"] > 0)
        BY <2>1, <3>1, NoCodeSent
      <3>. QED  BY <2>1, <3>1, <3>2, <3>3 DEF NamesInv
    <2>. QED  BY <1>5, <2>2, <2>3, <2>4 DEF StringTyped
  <1>6. CASE StringEof \/ TypeText \/ UNCHANGED vars
    BY <1>6 DEF StringEof, TypeText, vars, clientVars, tdVars, NamesInv
  <1>. QED  BY <1>1, <1>2, <1>3, <1>4, <1>5, <1>6 DEF Next

(* Until an error is read as an answer about the account, a code is sent   *)
(* with names exactly when the user is new, whatever else was refused.     *)
THEOREM NamesCorrect == Spec => []NamesFit
  <1>1. Inv /\ NamesInv /\ [Next]_vars => NamesInv'
    BY NextNames
  <1>2. NamesInv => NamesFit
    BY DEF NamesInv, NamesFit
  <1>. QED  BY <1>1, <1>2, InitNames, Correct, PTL DEF Spec

-----------------------------------------------------------------------------
(***************************************************************************)
(* EventLoop, for every finite set of threads and every size of the pipe.  *)
(* The inductive invariant is LoopInv.                                     *)
(***************************************************************************)

(* A callback that makes the prompt stale asks for a new one.              *)
StaleAsked == loop = "check" /\ stale => need_update \/ need_prompt_update

LoopInv == LoopTypeOK /\ WakeupPending /\ PromptFresh /\ StaleAsked

(* One thread more, or less, is posting. *)
LEMMA PostingCount ==
    ASSUME LoopTypeOK, NEW t \in Thread
    PROVE  /\ Cardinality(posting) \in Nat
           /\ t \notin posting => Cardinality(posting \cup {t}) = Cardinality(posting) + 1
           /\ t \in posting => Cardinality(posting \ {t}) = Cardinality(posting) - 1
  <1>1. IsFiniteSet(posting)
    BY EventLoopAssumption, FS_Subset DEF LoopTypeOK
  <1>2. Cardinality(posting) \in Nat
    BY <1>1, FS_CardinalityType
  <1>3. t \notin posting => Cardinality(posting \cup {t}) = Cardinality(posting) + 1
    BY <1>1, FS_AddElement
  <1>4. t \in posting => Cardinality(posting \ {t}) = Cardinality(posting) - 1
    BY <1>1, FS_RemoveElement
  <1>. QED  BY <1>2, <1>3, <1>4

(* The number of threads that are posting is a natural number. *)
LEMMA PostingNat ==
    ASSUME LoopTypeOK PROVE Cardinality(posting) \in Nat
  BY EventLoopAssumption, FS_Subset, FS_CardinalityType DEF LoopTypeOK

(* LoopInv at the start. *)
LEMMA LoopInitInv == LoopInit => LoopInv
  <1>. SUFFICES ASSUME LoopInit PROVE LoopInv
    OBVIOUS
  <1>1. Cardinality(posting) = 0
    BY FS_EmptySet DEF LoopInit
  <1>2. LoopTypeOK
    <2>1. 0 \in 0..PipeSize /\ 0 \in Nat
      BY EventLoopAssumption
    <2>. QED  BY <2>1 DEF LoopInit, LoopTypeOK
  <1>3. WakeupPending
    <2>1. queue = 0 /\ pipe = 0 /\ need_update = FALSE
      BY DEF LoopInit
    <2>2. (IF need_update THEN 1 ELSE 0) = 0
      BY <2>1
    <2>. QED  BY <1>1, <2>1, <2>2 DEF WakeupPending
  <1>4. PromptFresh /\ StaleAsked
    BY DEF LoopInit, PromptFresh, StaleAsked
  <1>. QED  BY <1>2, <1>3, <1>4 DEF LoopInv

(* LoopInv is inductive. *)
LEMMA LoopNextInv == LoopInv /\ [LoopNext]_eventVars => LoopInv'
  <1>. SUFFICES ASSUME LoopInv, [LoopNext]_eventVars PROVE LoopInv'
    OBVIOUS
  <1>. USE EventLoopAssumption DEF LoopInv
  <1>0. Cardinality(posting) \in Nat
    BY PostingNat
  <1>1. ASSUME NEW t \in Thread, Post(t) PROVE LoopInv'
    <2>1. LoopTypeOK' /\ PromptFresh' /\ StaleAsked'
      BY <1>1 DEF Post, LoopTypeOK, PromptFresh, StaleAsked, loopVars
    <2>2. Cardinality(posting') = Cardinality(posting) + 1
      BY <1>1, PostingCount DEF Post
    <2>3. WakeupPending'
      BY <1>0, <1>1, <2>2 DEF Post, WakeupPending, LoopTypeOK, loopVars
    <2>. QED  BY <2>1, <2>3
  <1>2. ASSUME NEW t \in Thread, Wakeup(t) PROVE LoopInv'
    <2>1. LoopTypeOK' /\ PromptFresh' /\ StaleAsked'
      BY <1>2 DEF Wakeup, LoopTypeOK, PromptFresh, StaleAsked, loopVars
    <2>2. Cardinality(posting') = Cardinality(posting) - 1
      BY <1>2, PostingCount DEF Wakeup
    <2>3. WakeupPending'
      BY <1>0, <1>2, <2>2 DEF Wakeup, WakeupPending, LoopTypeOK, loopVars
    <2>. QED  BY <2>1, <2>3
  <1>3. CASE EventReady
    BY <1>3 DEF EventReady, threadVars, loopVars, LoopTypeOK, WakeupPending, PromptFresh, StaleAsked
  <1>4. CASE Signal
    BY <1>4 DEF Signal, threadVars, loopVars, LoopTypeOK, WakeupPending, PromptFresh, StaleAsked
  <1>5. CASE Poll
    <2>1. posting' = posting /\ queue' = queue /\ need_update = FALSE /\ stale = FALSE
      BY <1>5 DEF Poll, threadVars, PromptFresh, LoopTypeOK
    <2>2. PICK prints \in BOOLEAN :
              /\ stale' = (stale \/ prints)
              /\ need_prompt_update' = (need_prompt_update \/ prints)
      BY <1>5 DEF Poll
    <2>3. LoopTypeOK' /\ PromptFresh'
      <3>1. pipe' \in 0..PipeSize
        <4>1. pipe' = IF pipe > 0 THEN pipe - 1 ELSE pipe
          BY <1>5 DEF Poll, PipeRead
        <4>. QED  BY <4>1 DEF LoopTypeOK
      <3>2. need_update' \in BOOLEAN
        BY <1>5 DEF Poll, LoopTypeOK
      <3>. QED  BY <1>5, <2>2, <3>1, <3>2 DEF Poll, threadVars, LoopTypeOK, PromptFresh
    <2>4. StaleAsked'
      BY <2>1, <2>2 DEF StaleAsked
    <2>5. WakeupPending'
      <3>1. queue <= pipe + Cardinality(posting)
        <4>1. (IF need_update THEN 1 ELSE 0) = 0
          BY <2>1
        <4>. QED  BY <1>0, <4>1 DEF WakeupPending, LoopTypeOK
      <3>2. CASE pipe > 0
        <4>1. pipe' = pipe - 1 /\ need_update' = TRUE
          BY <1>5, <3>2 DEF Poll, PipeRead
        <4>. QED  BY <1>0, <2>1, <3>1, <4>1 DEF WakeupPending, LoopTypeOK
      <3>3. CASE ~(pipe > 0)
        <4>1. pipe' = pipe /\ need_update' = need_update
          BY <1>5, <3>3 DEF Poll
        <4>. QED  BY <2>1, <3>1, <4>1 DEF WakeupPending
      <3>. QED  BY <3>2, <3>3
    <2>. QED  BY <2>3, <2>4, <2>5
  <1>6. CASE Check
    <2>1. posting' = posting /\ pipe' = pipe
      BY <1>6 DEF Check, threadVars
    <2>2. CASE Halt
      BY <1>6, <2>2 DEF Check, Halt, threadVars, LoopTypeOK, WakeupPending, PromptFresh, StaleAsked
    <2>3. CASE Work
      <3>1. PICK k \in 0..queue : (queue > 0 => k > 0) /\ queue' = queue - k
        BY <2>3 DEF Work
      <3>2. queue' \in Nat /\ (queue = 0 => queue' = 0) /\ (queue > 0 => queue' <= queue - 1)
        BY <3>1 DEF LoopTypeOK
      <3>3. need_update' = FALSE /\ stale' = FALSE /\ loop' = "poll" /\ need_update = TRUE
        BY <2>3 DEF Work, LoopTypeOK
      <3>4. LoopTypeOK'
        BY <1>6, <2>3, <3>2 DEF Check, Work, threadVars, LoopTypeOK
      <3>5. WakeupPending'
        BY <1>0, <2>1, <3>2, <3>3 DEF WakeupPending, LoopTypeOK
      <3>. QED  BY <3>3, <3>4, <3>5 DEF PromptFresh, StaleAsked
    <2>4. CASE Redraw
      BY <1>6, <2>4 DEF Check, Redraw, threadVars, LoopTypeOK, WakeupPending, PromptFresh, StaleAsked
    <2>. QED  BY <1>6, <2>2, <2>3, <2>4 DEF Check
  <1>7. CASE UNCHANGED eventVars
    BY <1>7 DEF eventVars, threadVars, loopVars, LoopTypeOK, WakeupPending, PromptFresh, StaleAsked
  <1>. QED  BY <1>1, <1>2, <1>3, <1>4, <1>5, <1>6, <1>7 DEF LoopNext

(* LoopInv holds in every state. *)
LEMMA LoopCorrect == LoopSpec => []LoopInv
  BY LoopInitInv, LoopNextInv, PTL DEF LoopSpec

(* Every variable keeps its type; the pipe never holds more than it can.   *)
THEOREM LoopTypeCorrect == LoopSpec => []LoopTypeOK
  <1>1. LoopInv => LoopTypeOK
    BY DEF LoopInv
  <1>. QED  BY <1>1, LoopCorrect, PTL

(* No wakeup is lost. *)
THEOREM WakeupCorrect == LoopSpec => []WakeupPending
  <1>1. LoopInv => WakeupPending
    BY DEF LoopInv
  <1>. QED  BY <1>1, LoopCorrect, PTL

(* The loop does not sleep on a stale prompt. *)
THEOREM FreshCorrect == LoopSpec => []PromptFresh
  <1>1. LoopInv => PromptFresh
    BY DEF LoopInv
  <1>. QED  BY <1>1, LoopCorrect, PTL

===============================================================================
