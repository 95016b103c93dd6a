------------------------------ MODULE ChatWindow ------------------------------
(***************************************************************************)
(* The window of one chat of the curses client (td-window-chat.cpp, the    *)
(* handlers of telegram-curses.cpp that call it, and the key of the dialog *)
(* list that opens it).                                                    *)
(*                                                                         *)
(* The window is opened and closed at will.  It holds the messages tdlib   *)
(* tells of while it is open, and those of the pages of history it asks    *)
(* for when rows stay free.  A request does not belong to a window: its    *)
(* answer is taken by whatever window of the same chat waits for the same  *)
(* page.  Updates and answers arrive in one queue.                         *)
(***************************************************************************)
EXTENDS Integers, Sequences, FiniteSets, FiniteSetsExt, Functions

CONSTANTS
    Chat,        \* the chats that may be opened
    Lengths,     \* how many messages each chat may have at first
    MaxId,       \* bound: the ids of messages are 1 .. MaxId
    MaxLines,    \* bound: the lines of a message
    Height,      \* the rows for messages
    Page,        \* how many messages getChatHistory asks for: 10 in the code
    MaxChanges,  \* bound: what happens to messages
    MaxFailures, \* bound: refused requests
    MaxOpens,    \* bound: how often a window is opened
    MaxInbox     \* bound: what tdlib has said and the client has not heard

ASSUME ChatWindowAssumption ==
    /\ IsFiniteSet(Chat) /\ Chat # {}
    /\ {MaxId, MaxLines, Height, Page, MaxInbox} \subseteq Nat \ {0}
    /\ {MaxChanges, MaxFailures, MaxOpens} \subseteq Nat
    /\ Lengths \subseteq [Chat -> 0..(MaxId - 1)]

VARIABLES
    msgs,     \* tdlib: the lines of each message of each chat
    nextId,   \* tdlib: the id of the next message
    pending,  \* tdlib: the requests for history it has not answered
    inbox,    \* the updates and answers on their way to the client, in order
    budget,   \* what is left of the bounds
    win       \* ChatWindow: NoWindow or the fields of the window

tdVars == <<msgs, nextId>>
vars == <<tdVars, pending, inbox, budget, win>>

Id == 1..MaxId
End == MaxId + 1      \* INT_MAX as an id: the bottom of the chat
Last == MaxLines + 1  \* INT_MAX as a line: the last one of its message
NoWindow == [chat |-> "none"]

Contents == UNION {[S -> 1..MaxLines] : S \in SUBSET Id}
Windows ==
    [chat : Chat,        \* chat_id_
     first : 0..End,     \* first_allowed_message_id_
     running : BOOLEAN,  \* query_running_
     msgs : Contents,    \* messages_
     bottom : 0..End,    \* bottom_message_id_
     line : 0..Last,     \* bottom_message_line_num_
     text : BOOLEAN]     \* line_edit holds some text

Older(m, id) == {i \in DOMAIN m : i < id}
Newer(m, id) == {i \in DOMAIN m : i > id}

-----------------------------------------------------------------------------
(***************************************************************************)
(* redraw.  Messages are drawn upwards from the bottom one, of which only  *)
(* the lines up to the bottom line are shown, or from the newest.  If rows *)
(* stay free the next page is asked for, unless one is on its way.         *)
(***************************************************************************)
SettledLoose(w) ==
    IF w.bottom \notin DOMAIN w.msgs
    THEN [w EXCEPT !.bottom = End, !.line = Last] ELSE w

Settled(w) ==
    IF w.bottom \notin DOMAIN w.msgs
    THEN [w EXCEPT !.bottom = End, !.line = Last]
    ELSE [w EXCEPT !.line = IF w.msgs[w.bottom] <= @ THEN w.msgs[w.bottom] - 1 ELSE @]

(* The rows it takes to show the messages m from the bottom of the window. *)
LinesShown(m, bottom, line) ==
    MapThenSumSet(LAMBDA i : m[i], Older(m, bottom))
    + (IF bottom = End THEN 0 ELSE line + 1)
RowsFree(w) == LinesShown(w.msgs, w.bottom, w.line) < Height

Redrawn(w) ==
    LET s == Settled(w) IN
    [s EXCEPT !.running = @ \/ (RowsFree(s) /\ s.first > 0)]

(* The window w becomes r, drawn: a request was sent if it now waits for   *)
(* one that it did not wait for in w.                                      *)
Become(w, r) ==
    /\ win' = r
    /\ pending' = IF r.running /\ ~w.running
                  THEN Append(pending, [chat |-> r.chat, from |-> r.first])
                  ELSE pending
Show(d) == \E w \in {d} : \E r \in {Redrawn(w)} : Become(w, r)

-----------------------------------------------------------------------------
(***************************************************************************)
(* tdlib.                                                                  *)
(***************************************************************************)
Say(m) == /\ Len(inbox) < MaxInbox
          /\ inbox' = Append(inbox, m)

Spend(what) == /\ budget[what] > 0
               /\ budget' = [budget EXCEPT ![what] = @ - 1]

With(m, id, n) == [i \in DOMAIN m \cup {id} |-> IF i = id THEN n ELSE m[i]]
Without(m, id) == Restrict(m, DOMAIN m \ {id})

NewMessage(c, n) ==
    /\ Spend("changes") /\ nextId \in Id
    /\ msgs' = [msgs EXCEPT ![c] = With(@, nextId, n)]
    /\ nextId' = nextId + 1
    /\ Say([of |-> "new", chat |-> c, id |-> nextId, lines |-> n])
    /\ UNCHANGED <<pending, win>>

(* A message that was sent from here gets its id from the server.  *)
SendSucceeded(c, id) ==
    /\ Spend("changes") /\ nextId \in Id
    /\ msgs' = [msgs EXCEPT ![c] = With(Without(@, id), nextId, @[id])]
    /\ nextId' = nextId + 1
    /\ Say([of |-> "sent", chat |-> c, old |-> id, id |-> nextId, lines |-> msgs[c][id]])
    /\ UNCHANGED <<pending, win>>

(* The content of a message changes, or its keyboard.  *)
Edit(c, id, n) ==
    /\ Spend("changes") /\ n # msgs[c][id]
    /\ msgs' = [msgs EXCEPT ![c][id] = n]
    /\ Say([of |-> "edit", chat |-> c, id |-> id, lines |-> n])
    /\ UNCHANGED <<nextId, pending, win>>

Delete(c, id) ==
    /\ Spend("changes")
    /\ msgs' = [msgs EXCEPT ![c] = Without(@, id)]
    /\ Say([of |-> "delete", chat |-> c, id |-> id])
    /\ UNCHANGED <<nextId, pending, win>>

(* The page of a request: the newest messages that are older than q.from.  *)
PageOf(q) ==
    LET m == msgs[q.chat] IN
    Restrict(m, {i \in Older(m, q.from) :
                   Cardinality({j \in Older(m, q.from) : j > i}) < Page})

Dropped(s, i) == SubSeq(s, 1, i - 1) \o SubSeq(s, i + 1, Len(s))

Answer ==
    /\ \E i \in DOMAIN pending :
         /\ Say([of |-> "page", query |-> pending[i], msgs |-> PageOf(pending[i])])
         /\ pending' = Dropped(pending, i)
    /\ UNCHANGED <<tdVars, budget, win>>

Refuse ==
    /\ Spend("failures")
    /\ \E i \in DOMAIN pending :
         /\ Say([of |-> "failed", query |-> pending[i]])
         /\ pending' = Dropped(pending, i)
    /\ UNCHANGED <<tdVars, win>>

-----------------------------------------------------------------------------
(***************************************************************************)
(* What the client hears.  get_chat_window finds no window for an update   *)
(* of another chat; an answer is for no window if none shows its chat or   *)
(* if that window waits for another page.                                  *)
(***************************************************************************)
Hear(what) == /\ inbox # <<>> /\ Head(inbox).of = what
              /\ inbox' = Tail(inbox)
              /\ UNCHANGED <<tdVars, budget>>

Mine(c) == win # NoWindow /\ win.chat = c
Ignored == UNCHANGED <<win, pending>>

(* add_message, before it draws.  *)
Added(w, id, n) == [w EXCEPT !.msgs = With(@, id, n)]

updateNewMessage ==
    /\ Hear("new")
    /\ LET m == Head(inbox) IN
       IF Mine(m.chat) THEN Show(Added(win, m.id, m.lines)) ELSE Ignored

(* delete_message, which draws, if the window has the message at all.  If  *)
(* that was the bottom one a neighbour's key in messages_ is taken for its *)
(* id.  A key is the negative of an id: drawing then goes to the end.      *)
Deleted(w, id) ==
    IF id \notin DOMAIN w.msgs THEN w
    ELSE Redrawn([w EXCEPT !.msgs = Without(@, id),
                           !.bottom = IF @ = id THEN 0 ELSE @])

updateMessageSendSucceeded ==
    /\ Hear("sent")
    /\ LET m == Head(inbox) IN
       IF Mine(m.chat)
       THEN \E d \in {Deleted(win, m.old)} : \E r \in {Redrawn(Added(d, m.id, m.lines))} :
              Become(win, r)
       ELSE Ignored

updateDeleteMessages ==
    /\ Hear("delete")
    /\ LET m == Head(inbox) IN
       IF Mine(m.chat) THEN \E r \in {Deleted(win, m.id)} : Become(win, r) ELSE Ignored

updateMessageContent ==
    /\ Hear("edit")
    /\ LET m == Head(inbox) IN
       IF Mine(m.chat) /\ m.id \in DOMAIN win.msgs
       THEN Show(Added(win, m.id, m.lines))
       ELSE Ignored

(* A window that takes the answer for any page of its chat.  *)
WaitsAny(q) == Mine(q.chat)

Waits(q) == Mine(q.chat) /\ win.first = q.from

(* An empty page that is not taken for the beginning of the chat.  *)
NextFirstKeeps(first, S) == IF S = {} THEN first ELSE Min(S)

(* Where the history goes on after the page S.  *)
NextFirst(first, S) == IF S = {} THEN 0 ELSE Min(S)

(* add_history.  The messages are added one by one, each time drawing;     *)
(* with rows free the window still waits, and asks for nothing before all  *)
(* are there.  The oldest of the page is where the next one starts.        *)
add_history ==
    /\ Hear("page")
    /\ LET m == Head(inbox)
           S == DOMAIN m.msgs
       IN IF Waits(m.query)
          THEN Show([win EXCEPT
                       !.msgs = [i \in DOMAIN @ \cup S |->
                                   IF i \in S THEN m.msgs[i] ELSE @[i]],
                       !.first = NextFirst(@, S),
                       !.running = FALSE])
          ELSE Ignored

(* A failure after which the window is not drawn.  *)
get_history_failedQuiet ==
    /\ Hear("failed")
    /\ win' = IF Waits(Head(inbox).query) THEN [win EXCEPT !.running = FALSE] ELSE win
    /\ UNCHANGED pending

get_history_failed ==
    /\ Hear("failed")
    /\ IF Waits(Head(inbox).query) THEN Show([win EXCEPT !.running = FALSE])
       ELSE Ignored

-----------------------------------------------------------------------------
(***************************************************************************)
(* Keys.  The newest window has the keys, so that a chat is opened from    *)
(* the list only when no other is.                                         *)
(***************************************************************************)
Key == UNCHANGED <<tdVars, inbox, budget>>

Open(c) ==
    /\ win = NoWindow /\ Spend("opens")
    /\ Show([chat |-> c, first |-> End, running |-> FALSE, msgs |-> <<>>,
             bottom |-> 0, line |-> 0, text |-> FALSE])
    /\ UNCHANGED <<tdVars, inbox>>

Escape == /\ win # NoWindow
          /\ win' = NoWindow
          /\ UNCHANGED pending /\ Key

(* A character is typed: only at the end of the chat.  *)
Type == /\ win # NoWindow /\ win.bottom = End
        /\ Show([win EXCEPT !.text = TRUE]) /\ Key

(* The text is sent or erased.  *)
Clear == /\ win # NoWindow /\ win.text
         /\ Show([win EXCEPT !.text = FALSE]) /\ Key

Scroll(w) == win # NoWindow /\ ~win.text /\ Show(w) /\ Key

(* From the end of the chat to its newest message, or from the first line  *)
(* of a message to the last one of the message above.                      *)
UpFrom(w, id, l) ==
    LET older == Older(w.msgs, id)
        to == IF l = 0 /\ older # {} THEN Max(older) ELSE id
        n == IF l # 0 THEN l - 1 ELSE IF older # {} THEN Last - 1 ELSE 0
    IN [w EXCEPT !.bottom = to,
                 !.line = IF n >= w.msgs[to] THEN w.msgs[to] - 1 ELSE n]

Up == Scroll(IF win.bottom \in DOMAIN win.msgs THEN UpFrom(win, win.bottom, win.line)
             ELSE IF DOMAIN win.msgs = {} THEN [win EXCEPT !.bottom = End, !.line = Last]
             ELSE UpFrom(win, Max(DOMAIN win.msgs), Last))

DownFrom(w, id) ==
    IF w.line < w.msgs[id] - 1 THEN [w EXCEPT !.line = @ + 1]
    ELSE IF Newer(w.msgs, id) = {} THEN [w EXCEPT !.bottom = End, !.line = Last]
    ELSE [w EXCEPT !.bottom = Min(Newer(w.msgs, id)), !.line = 0]

Down == Scroll(IF win.bottom \in DOMAIN win.msgs THEN DownFrom(win, win.bottom)
               ELSE [win EXCEPT !.bottom = End, !.line = Last])

ToEnd == Scroll([win EXCEPT !.bottom = End, !.line = Last])

-----------------------------------------------------------------------------
Init ==
    /\ \E n \in Lengths :
         /\ nextId = 1 + Max({n[c] : c \in Chat})
         /\ msgs = [c \in Chat |-> [i \in 1..n[c] |-> 1]]
    /\ pending = <<>> /\ inbox = <<>>
    /\ budget = [changes |-> MaxChanges, failures |-> MaxFailures, opens |-> MaxOpens]
    /\ win = NoWindow

Client == \/ updateNewMessage \/ updateMessageSendSucceeded
          \/ updateDeleteMessages \/ updateMessageContent
          \/ add_history \/ get_history_failed
User == \/ \E c \in Chat : Open(c)
        \/ Escape \/ Type \/ Clear \/ Up \/ Down \/ ToEnd
Next ==
    \/ \E c \in Chat : \/ \E n \in 1..MaxLines : NewMessage(c, n)
                       \/ \E id \in DOMAIN msgs[c] :
                            \/ SendSucceeded(c, id) \/ Delete(c, id)
                            \/ \E n \in 1..MaxLines : Edit(c, id, n)
    \/ Answer \/ Refuse \/ Client \/ User

(* tdlib answers and the loop of the client runs.  *)
Spec == Init /\ [][Next]_vars /\ WF_vars(Answer) /\ WF_vars(Client)

-----------------------------------------------------------------------------
TypeOK ==
    /\ msgs \in [Chat -> Contents] /\ nextId \in 1..End
    /\ \A i \in DOMAIN pending : pending[i] \in [chat : Chat, from : 1..End]
    /\ budget \in [changes : 0..MaxChanges, failures : 0..MaxFailures, opens : 0..MaxOpens]
    /\ win \in Windows \cup {NoWindow}

(* When the client has heard everything, the window shows no message that  *)
(* is gone or has changed, and none is missing from first_allowed on,      *)
(* also when the answer was for an earlier window of the chat (add_history,*)
(* add_message, delete_message, update_message_content).                   *)
NoGap ==
    win # NoWindow /\ inbox = <<>> =>
        LET real == msgs[win.chat] IN
        /\ \A i \in DOMAIN win.msgs : i \in DOMAIN real /\ win.msgs[i] = real[i]
        /\ \A i \in DOMAIN real : i >= win.first => i \in DOMAIN win.msgs

(* A window with room for older messages waits for them, and a window that *)
(* waits has a request on its way that it will take the answer of: it is   *)
(* never stuck, whatever windows were opened and closed before it (redraw, *)
(* TdMessagesCallback).                                                    *)
HistoryAsked ==
    win # NoWindow =>
        /\ RowsFree(win) /\ win.first > 0 => win.running
        /\ win.running =>
             \/ \E i \in DOMAIN pending : Waits(pending[i])
             \/ \E i \in DOMAIN inbox : /\ inbox[i].of \in {"page", "failed"}
                                        /\ Waits(inbox[i].query)

(* The window always ends with a line that its bottom message has, however *)
(* messages change and go, and while there is text to edit the window is   *)
(* at the end of the chat, where its keys reach it (redraw, delete_message,*)
(* key_pressed, sym_key_pressed).                                          *)
ViewSound ==
    /\ TypeOK
    /\ win # NoWindow =>
         /\ \/ win.bottom = End
            \/ win.bottom \in DOMAIN win.msgs /\ win.line < win.msgs[win.bottom]
         /\ win.text => win.bottom = End

(* Once the user and the chats come to rest, the rows of the window are    *)
(* full or the whole chat is in it (redraw, add_history,                   *)
(* get_history_failed).                                                    *)
HistoryFills == <>[](win = NoWindow \/ win.first = 0 \/ ~RowsFree(win))
=============================================================================
