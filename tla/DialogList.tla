------------------------------ MODULE DialogList ------------------------------
(***************************************************************************)
(* The list of dialogs of the curses client (td-window-dialogs.cpp and the *)
(* handlers of telegram-curses.cpp that call it).                          *)
(*                                                                         *)
(* tdlib keeps the chats in an order of its own.  It tells of a chat the   *)
(* first time it mentions it, of each change of its order, and answers     *)
(* getChats with the chats that follow a position; everything it says      *)
(* arrives in one queue.  The window lists the chats it was told of, draws *)
(* those it knows to have no unknown chat above them, and keeps one chat   *)
(* selected while the list is reordered under it.                          *)
(***************************************************************************)
EXTENDS Integers, Sequences, FiniteSets

CONSTANTS
    Chat,       \* the ids of the chats
    MaxOrder,   \* the orders are 0 .. MaxOrder, 0 for a chat that is in no list
    Rows,       \* the rows of the window: max_size
    MaxChanges, \* bound: changes of an order
    MaxFailures,\* bound: refused getChats
    MaxInbox    \* bound: what tdlib has said and the client has not heard

ASSUME DialogListAssumption ==
    /\ Chat \subseteq Nat \ {0} /\ IsFiniteSet(Chat) /\ Chat # {}
    /\ MaxOrder \in Nat \ {0} /\ Rows \in Nat \ {0}
    /\ MaxChanges \in Nat /\ MaxFailures \in Nat /\ MaxInbox \in Nat \ {0}

VARIABLES
    tdOrder,  \* tdlib: the order of each chat
    told,     \* tdlib: the chats it has told of
    asked,    \* tdlib: the position of an unanswered getChats, or NoQuery
    inbox,    \* the updates and answers on their way to the client, in order
    budget,   \* the changes and failures that are left
    win       \* the window: see Windows

tdVars == <<tdOrder, told, asked, budget>>
vars == <<tdVars, inbox, win>>

-----------------------------------------------------------------------------
(* ChatPosition: what stands higher in the list comes first.  *)
At(o, c) == [order |-> o, chat |-> c]
Positions == [order : -1..MaxOrder, chat : Chat]
Header == At(MaxOrder + 1, 1 + CHOOSE c \in Chat : \A d \in Chat : d <= c)
Before(p, q) == p.order > q.order \/ (p.order = q.order /\ p.chat > q.chat)
NoQuery == At(-2, 0)

Windows ==
    [list : SUBSET (Positions \cup {Header}),    \* dialog_list
     chatOrder : [Chat -> 0..MaxOrder],          \* chat_order, 0 for no entry
     last : Positions \cup {Header, At(-1, Header.chat)}, \* last_position
     pos : Positions \cup {Header},              \* position
     offset : 0..(Rows - 1),                     \* position_offset
     running : BOOLEAN]                          \* running_query_

Above(l, p) == {q \in l : Before(q, p)}

(* The entry that follows p, or p itself when it is the last one.  *)
Following(l, p) ==
    IF \E q \in l : Before(p, q)
    THEN CHOOSE q \in l : Before(p, q) /\ \A r \in Above(l, q) : ~Before(p, r)
    ELSE p

(* The entry just above p, or p itself when it is the first one.  *)
Preceding(l, p) ==
    IF Above(l, p) = {} THEN p
    ELSE CHOOSE q \in Above(l, p) : \A r \in Above(l, p) : r = q \/ Before(r, q)

-----------------------------------------------------------------------------
(***************************************************************************)
(* redraw.  The row of the selected chat is clipped to the window and to   *)
(* the entries there are above it.  From the top row on entries are drawn  *)
(* until one lies beyond last_position; rows that stay free ask for more.  *)
(***************************************************************************)
Clipped(w) ==
    LET high == IF w.offset >= Rows THEN Rows - 1 ELSE w.offset
        above == IF w.pos \in w.list THEN Cardinality(Above(w.list, w.pos)) ELSE 0
    IN IF high < 0 THEN 0 ELSE IF high > above THEN above ELSE high

(* The entries from the top row on; w.offset has been clipped.  *)
FromTop(w) ==
    LET top == (IF w.pos \in w.list THEN Cardinality(Above(w.list, w.pos)) ELSE 0)
               - w.offset
    IN {q \in w.list : Cardinality(Above(w.list, q)) >= top}
Drawable(w) == {q \in FromTop(w) : ~Before(w.last, q)}

(* The last row counts as drawn only if an entry follows it.  *)
Full(w) == Cardinality(Drawable(w)) >= Rows /\ Cardinality(FromTop(w)) > Rows

(* A window that asks again while it waits.  *)
RedrawImpatient(d) ==
    \E w \in {d} : \E c \in {[w EXCEPT !.offset = Clipped(w)]} :
    \E ask \in {~Full(c) /\ c.last.order >= 0} :
        /\ win' = [c EXCEPT !.running = @ \/ ask]
        /\ asked' = IF ask THEN c.last ELSE asked

(* The window d is drawn: it may send getChats.  *)
Redraw(d) ==
    \E w \in {d} : \E c \in {[w EXCEPT !.offset = Clipped(w)]} :
    \E ask \in {~Full(c) /\ c.last.order >= 0 /\ ~c.running} :
        /\ win' = [c EXCEPT !.running = @ \/ ask]
        /\ asked' = IF ask THEN c.last ELSE asked

-----------------------------------------------------------------------------
(***************************************************************************)
(* tdlib.                                                                  *)
(***************************************************************************)
Say(m) == /\ Len(inbox) < MaxInbox
          /\ inbox' = Append(inbox, m)

NewOrder(c, o) == [of |-> "order", chat |-> c, order |-> o]
Failed == [of |-> "failed"]
Chats(s) == [of |-> "chats", list |-> s]

(* A chat moves, enters the list or leaves it.  A chat nobody knew is then *)
(* told of; one that never had an order stays unknown.                     *)
Reorder(c, o) ==
    /\ budget.changes > 0 /\ tdOrder[c] # o
    /\ c \in told \/ o > 0
    /\ tdOrder' = [tdOrder EXCEPT ![c] = o]
    /\ told' = told \cup {c}
    /\ budget' = [budget EXCEPT !.changes = @ - 1]
    /\ Say(NewOrder(c, o))
    /\ UNCHANGED <<asked, win>>

TdChats == {At(tdOrder[c], c) : c \in {d \in Chat : tdOrder[d] > 0}}

(* The chats getChats is answered with, now: those that follow p.  *)
Page(p) == {q \in TdChats : Before(p, q) /\
               Cardinality({r \in TdChats : Before(p, r) /\ Before(r, q)}) < Rows}

(* Before the answer tdlib tells of the chats of the page that are new.  *)
TellFirst ==
    /\ asked # NoQuery
    /\ \E q \in Page(asked) :
         /\ q.chat \notin told
         /\ told' = told \cup {q.chat}
         /\ Say(NewOrder(q.chat, q.order))
    /\ UNCHANGED <<tdOrder, asked, budget, win>>

Answer ==
    /\ asked # NoQuery
    /\ \A q \in Page(asked) : q.chat \in told
    /\ Say(Chats(Page(asked)))
    /\ asked' = NoQuery
    /\ UNCHANGED <<tdOrder, told, budget, win>>

Refuse ==
    /\ asked # NoQuery /\ budget.failures > 0
    /\ budget' = [budget EXCEPT !.failures = @ - 1]
    /\ asked' = NoQuery
    /\ Say(Failed)
    /\ UNCHANGED <<tdOrder, told, win>>

-----------------------------------------------------------------------------
(***************************************************************************)
(* The client.                                                             *)
(***************************************************************************)
Heard(m) == /\ inbox # <<>> /\ Head(inbox).of = m
            /\ inbox' = Tail(inbox)
            /\ UNCHANGED <<tdOrder, told, budget>>

(* An update that leaves the selected chat where it was on the list.  *)
MovedBlind(w, c, o) ==
    LET list == w.list \ {At(w.chatOrder[c], c)} IN
    [w EXCEPT !.list = IF o > 0 THEN list \cup {At(o, c)} ELSE list,
              !.chatOrder[c] = o]

(* The list after chat c has taken order o, not drawn yet.  *)
Moved(w, c, o) ==
    LET list == w.list \ {At(w.chatOrder[c], c)} IN
    [w EXCEPT !.list = IF o > 0 THEN list \cup {At(o, c)} ELSE list,
              !.chatOrder[c] = o,
              !.pos = IF @.chat # c THEN @ ELSE IF o > 0 THEN At(o, c) ELSE Header,
              !.offset = IF w.pos.chat = c /\ o <= 0 THEN 0 ELSE @]

(* A chat that has an entry with this order is not even drawn again.  *)
updateChat ==
    /\ Heard("order")
    /\ LET m == Head(inbox) IN
       IF win.chatOrder[m.chat] = m.order /\ m.order > 0
       THEN UNCHANGED <<win, asked>>
       ELSE Redraw(Moved(win, m.chat, m.order))

(* Every answer is taken for the end of the list but for its first chat.  *)
ReachedFirst(last, s) ==
    IF s = {} THEN [last EXCEPT !.order = -1]
    ELSE CHOOSE q \in {last} \cup s : \A r \in {last} \cup s : r = q \/ Before(q, r)

(* The position up to which the answer s shows there is nothing unknown.  *)
Reached(last, s) ==
    IF s = {} THEN [last EXCEPT !.order = -1]
    ELSE CHOOSE q \in {last} \cup s : \A r \in {last} \cup s : r = q \/ Before(r, q)

got_dialogs ==
    /\ Heard("chats")
    /\ Redraw([win EXCEPT !.last = Reached(@, Head(inbox).list), !.running = FALSE])

(* The failure of a request that is taken for the end of the list.  *)
got_dialogs_failedEnds ==
    /\ Heard("failed")
    /\ Redraw([win EXCEPT !.running = FALSE, !.last.order = -1])

got_dialogs_failed ==
    /\ Heard("failed")
    /\ Redraw([win EXCEPT !.running = FALSE])

(* The login is over, or an update that changes nothing of the list.  *)
Drawn == /\ Redraw(win)
         /\ UNCHANGED <<tdOrder, told, budget, inbox>>

(* TERMKEY_SYM_DOWN.  Below the last entry the list moves up a row, which  *)
(* makes room that asks for more.                                          *)
Down ==
    /\ LET next == Following(win.list, win.pos) IN
       IF next # win.pos
       THEN Redraw([win EXCEPT !.pos = next, !.offset = @ + 1])
       ELSE /\ win.last.order >= 0
            /\ Redraw([win EXCEPT !.offset = IF @ = Rows - 1 THEN @ - 1 ELSE @])
    /\ UNCHANGED <<tdOrder, told, budget, inbox>>

(* TERMKEY_SYM_UP *)
Up ==
    /\ win.pos # Preceding(win.list, win.pos)
    /\ Redraw([win EXCEPT !.pos = Preceding(win.list, win.pos),
                          !.offset = IF @ > 0 THEN @ - 1 ELSE @])
    /\ UNCHANGED <<tdOrder, told, budget, inbox>>

-----------------------------------------------------------------------------
(* position_offset is left uninitialized: with nothing above the header it *)
(* is clipped to 0 by the first redraw, before a key can read it.          *)
Init ==
    /\ tdOrder \in [Chat -> 0..MaxOrder]
    /\ told = {} /\ asked = NoQuery /\ inbox = <<>>
    /\ budget = [changes |-> MaxChanges, failures |-> MaxFailures]
    /\ win = [list |-> {Header}, chatOrder |-> [c \in Chat |-> 0],
              last |-> Header, pos |-> Header, offset |-> 0, running |-> FALSE]

Client == updateChat \/ got_dialogs \/ got_dialogs_failed
Tdlib == TellFirst \/ Answer
Next ==
    \/ \E c \in Chat, o \in 0..MaxOrder : Reorder(c, o)
    \/ Tdlib \/ Refuse
    \/ Client \/ Drawn \/ Down \/ Up

(* tdlib answers and the loop of the client runs; the login is over at     *)
(* some time.  Keys are pressed at will.                                   *)
Spec == Init /\ [][Next]_vars /\ WF_vars(Tdlib) /\ WF_vars(Client) /\ WF_vars(Drawn)

-----------------------------------------------------------------------------
Messages == [of : {"order"}, chat : Chat, order : 0..MaxOrder]
            \cup [of : {"failed"}] \cup [of : {"chats"}, list : SUBSET Positions]

TypeOK ==
    /\ tdOrder \in [Chat -> 0..MaxOrder] /\ told \subseteq Chat
    /\ asked \in Positions \cup {Header, NoQuery}
    /\ \A i \in DOMAIN inbox : inbox[i] \in Messages
    /\ budget \in [changes : 0..MaxChanges, failures : 0..MaxFailures]
    /\ win \in Windows

(* However the chats are reordered, enter and leave the list, the selected *)
(* one is an entry of it, once, and its row counts the entries above it    *)
(* that are drawn: the keys step from it to a neighbour, and never from    *)
(* past the end of dialog_list (updateChat, redraw, sym_key_pressed).      *)
SelectionListed ==
    /\ TypeOK
    /\ win.pos \in win.list /\ Header \in win.list
    /\ \A c \in Chat : \A p, q \in win.list : p.chat = c /\ q.chat = c => p = q
    /\ win.offset <= Cardinality(Above(win.list, win.pos))

(* When the client has heard everything, every chat that tdlib places      *)
(* above last_position is in the list at its place, and no chat tdlib has  *)
(* dropped: what is drawn has no gap (updateChat, got_dialogs).            *)
NoChatSkipped ==
    inbox = <<>> =>
        /\ {q \in TdChats : ~Before(win.last, q)} \subseteq win.list
        /\ win.list \subseteq TdChats \cup {Header}

(* running_query_ is set exactly while one getChats is on its way: a       *)
(* second one is never sent, and the list never waits for none (redraw,    *)
(* got_dialogs, got_dialogs_failed).                                       *)
OneQuery ==
    LET answers == {i \in DOMAIN inbox : inbox[i].of \in {"chats", "failed"}} IN
    /\ win.running <=> asked # NoQuery \/ answers # {}
    /\ Cardinality(answers) + (IF asked = NoQuery THEN 0 ELSE 1) <= 1

(* Once the user and the chats come to rest, the window is full or shows   *)
(* the whole list, whatever was refused before.                            *)
ListFills == <>[](win.last.order >= 0 => Full(win))
=============================================================================
