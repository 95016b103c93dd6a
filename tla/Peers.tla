-------------------------------- MODULE Peers --------------------------------
(***************************************************************************)
(* The peers telegram-cli knows and the names they answer to               *)
(* (interface.c: tdcli_peers, alias_tree, on_user_update ...               *)
(* on_chat_update, and the updates and prints that call them).             *)
(*                                                                         *)
(* tdlib tells of a user, group, channel or secret chat with an object and *)
(* of a dialog with a chat object that carries such an object of its own.  *)
(* A peer keeps both, counted, and has up to three aliases: one by its     *)
(* number, one by its username and one by its name or title; it may have   *)
(* neither username nor name, which are NULL then.  They are in one tree   *)
(* for all peers and in a list of the peer, which share nothing but the    *)
(* text.  Each action is one update, or one message or name that is        *)
(* printed.                                                                *)
(***************************************************************************)
EXTENDS Integers, Sequences, FiniteSets, Functions

CONSTANTS
    Users, Channels, Groups, \* peers by kind; secret chats behave as groups
    Usernames, Titles,
    None,       \* NULL
    MaxSuffix,  \* bound: numbers that are appended to a title
    MaxChanges  \* bound: changes of usernames and titles

Peer == Users \cup Channels \cup Groups

ASSUME PeersAssumption ==
    /\ IsFiniteSet(Peer) /\ Peer # {}
    /\ None \notin Usernames \cup Titles
    /\ MaxSuffix \in Nat /\ MaxChanges \in Nat

VARIABLES
    uname, title, \* tdlib: the username and the name or title of a peer
    changes,    \* how often they changed
    refs,       \* the reference counts of a peer's objects, by their content
    user,       \* the object P->user, P->group, ... points to, or None
    chat,       \* P->chat: its title and the object in its type_, or None
    names       \* alias_tree and the aliases of the peers

tdVars == <<uname, title, changes>>
vars == <<tdVars, refs, user, chat, names>>

Object == [uname : Usernames \cup {None}, title : Titles \cup {None}]
ChatObject == [title : Titles \cup {None}, user : Object]

-----------------------------------------------------------------------------
(***************************************************************************)
(* Aliases.  A title is made unique with a number; 0 stands for no suffix. *)
(* A peer and a user agree on the text of an alias by its kind: "@" begins *)
(* only usernames, '#' is only in a number's alias and before a suffix.    *)
(***************************************************************************)
Suffixes == 0..MaxSuffix

MainAlias(p) == [kind |-> "id", of |-> p, n |-> 0]
UsernameAlias(w) == IF w = None THEN None ELSE [kind |-> "@", of |-> w, n |-> 0]
TitleAlias(w, k) == [kind |-> "title", of |-> w, n |-> k]

Aliases == {MainAlias(p) : p \in Peer} \cup {UsernameAlias(w) : w \in Usernames}
           \cup {TitleAlias(w, k) : w \in Titles, k \in Suffixes}

(* NULL points to nothing.                                                 *)
ASSUME NullAssumption == None \notin Aliases \cup Object \cup ChatObject

(* What is left in a list of an alias whose text was freed: its kind.      *)
FreedOf(k) == [kind |-> "freed", of |-> k, n |-> 0]
Freed(t) == IF t.kind = "freed" THEN t ELSE FreedOf(t.kind)
Text == Aliases \cup {FreedOf(k) : k \in {"id", "@", "title"}}

(* The alias table: tree[a] has the entries under a, the one that a lookup *)
(* finds first; lists[p] is P->aliases, user[p] and name[p] are            *)
(* P->username_alias and P->name_alias; fault stops the client.            *)
NoNames ==
    [tree  |-> [a \in Aliases |-> <<>>],
     lists |-> [p \in Peer |-> <<>>],
     user  |-> [p \in Peer |-> None],
     name  |-> [p \in Peer |-> None],
     fault |-> "none",
     collided |-> {}]    \* history: aliases inserted twice

(* Go on with F from each table in D where nothing went wrong. *)
Bind(D, F(_)) == UNION {IF d.fault = "none" THEN F(d) ELSE {d} : d \in D}

(* tree_insert fails its assertion on a second entry with the same name,   *)
(* unless the random weight of the new one puts it above the old one.      *)
AddAlias(d, p, a) ==
    LET added == [d EXCEPT !.tree[a] = <<p>> \o @] IN
    IF d.tree[a] = <<>> THEN {added}
    ELSE {[added EXCEPT !.collided = @ \cup {a}], [d EXCEPT !.fault = "assert"]}

(* del_alias takes the entry that a lookup finds, whose peer ever it is.   *)
DelAlias(d, a) == [d EXCEPT !.tree[a] = IF @ = <<>> THEN @ ELSE Tail(@)]

(* Where P->aliases has a, or 0.  *)
Place(l, a) ==
    IF \E i \in DOMAIN l : l[i] = a
    THEN CHOOSE i \in DOMAIN l : l[i] = a /\ \A j \in 1..(i - 1) : l[j] # a
    ELSE 0

(* The search for a reads every text before it, freed ones too: then the   *)
(* outcome is D or anything at all.                                        *)
Searched(d, p, a, D) ==
    LET l == d.lists[p] IN
    IF \E j \in DOMAIN l : l[j].kind = "freed" /\ (Place(l, a) = 0 \/ j < Place(l, a))
    THEN D \cup {[d EXCEPT !.fault = "freed"]} ELSE D

AddAliasInternal(d, p, a) == AddAlias([d EXCEPT !.lists[p] = Append(@, a)], p, a)

(* del_alias_internal moves the last text into the place of a and frees    *)
(* that one: if a was not the last, the list keeps a freed text.           *)
DelAliasInternal(d, p, a) ==
    LET l == d.lists[p]
        i == Place(l, a)
        n == Len(l)
        kept == SubSeq([l EXCEPT ![i] = IF i = n THEN @ ELSE Freed(l[n])], 1, n - 1)
    IN Searched(d, p, a,
         IF i = 0 THEN {d}
         ELSE {[DelAlias(d, a) EXCEPT !.lists[p] = kept,
                                      !.fault = IF l[n].kind = "freed" THEN "freed" ELSE @]})

(* A renaming that forgets to delete the old name from the tree. *)
SubAliasInternalKeeps(d, p, a, b) ==
    IF a = b THEN {d} ELSE
    CASE a = None -> AddAliasInternal(d, p, b)
      [] b = None -> DelAliasInternal(d, p, a)
      [] OTHER ->
           LET i == Place(d.lists[p], a) IN
           Searched(d, p, a,
             IF i = 0 THEN {d} ELSE AddAlias([d EXCEPT !.lists[p][i] = b], p, b))

SubAliasInternal(d, p, a, b) ==
    IF a = b THEN {d} ELSE
    CASE a = None -> AddAliasInternal(d, p, b)
      [] b = None -> DelAliasInternal(d, p, a)
      [] OTHER ->
           LET i == Place(d.lists[p], a) IN
           Searched(d, p, a,
             IF i = 0 THEN {d}
             ELSE AddAlias([DelAlias(d, a) EXCEPT !.lists[p][i] = b], p, b))

Usable(d, p, a) == d.tree[a] = <<>> \/ Head(d.tree[a]) = p

(* generate_alias_title: with the first suffix that is free or the peer's  *)
(* own; NULL if there is no title.  An update that needs a suffix above    *)
(* MaxSuffix is not explored.                                              *)
GenerateTitle(d, p, w) ==
    IF w = None THEN {None}
    ELSE {TitleAlias(w, k) : k \in {k \in Suffixes :
            /\ Usable(d, p, TitleAlias(w, k))
            /\ \A j \in Suffixes : j < k => ~Usable(d, p, TitleAlias(w, j))}}

SetUsername(d, p, w) ==
    LET a == UsernameAlias(w) IN
    {[e EXCEPT !.user[p] = a] : e \in SubAliasInternal(d, p, d.user[p], a)}

SetName(d, p, w) ==
    UNION {{[e EXCEPT !.name[p] = a] : e \in SubAliasInternal(d, p, d.name[p], a)} :
              a \in GenerateTitle(d, p, w)}

(* A user's own name wins over that of the chat. *)
PeerNamesAlways(d, p, o) ==
    LET main == IF d.lists[p] = <<>> THEN AddAliasInternal(d, p, MainAlias(p)) ELSE {d}
        full == IF p \in Groups THEN main
                ELSE Bind(main, LAMBDA x : SetUsername(x, p, o.uname))
    IN IF p \in Users THEN Bind(full, LAMBDA x : SetName(x, p, o.title)) ELSE full

(* on_user_update, on_group_update, on_channel_update and                  *)
(* on_secret_chat_update, as far as names go.  A user with a chat is named *)
(* by the chat.                                                            *)
PeerNames(d, p, o) ==
    LET main == IF d.lists[p] = <<>> THEN AddAliasInternal(d, p, MainAlias(p)) ELSE {d}
        full == IF p \in Groups THEN main
                ELSE Bind(main, LAMBDA x : SetUsername(x, p, o.uname))
    IN IF p \in Users /\ chat[p] = None
       THEN Bind(full, LAMBDA x : SetName(x, p, o.title)) ELSE full

-----------------------------------------------------------------------------
(***************************************************************************)
(* Objects.  tdlib hands an object over with one reference, which its      *)
(* update or its chat object holds.  No pointer is compared, so that an    *)
(* object is named by what it says.                                        *)
(***************************************************************************)
Take(rs, p, o) == [rs EXCEPT ![p][o] = @ + 1]
Drop(rs, p, o) == IF o = None THEN rs ELSE [rs EXCEPT ![p][o] = @ - 1]

Told(p) == [uname |-> uname[p], title |-> title[p]]

(* peer_update_peer *)
KeepObject(rs, p, o) == Drop(Take(rs, p, o), p, user[p])

(* The object the peer had before is dropped once more. *)
KeepChatBefore(rs, p, o, old) ==
    LET freed == IF old = None THEN rs ELSE Drop(rs, p, old.user)
    IN Drop(Take(freed, p, o), p, user[p])

(* peer_update_chat drops a reference to the object of a peer that it has  *)
(* just taken, and overwrites it with the chat's one.                      *)
KeepChat(rs, p, o, old) ==
    LET freed == IF old = None THEN rs ELSE Drop(rs, p, old.user)
    IN Drop(Take(freed, p, o), p, o)

OnPeerUpdate(rs, p, o) ==
    /\ names' \in PeerNames(names, p, o)
    /\ refs' = KeepObject(rs, p, o)
    /\ user' = [user EXCEPT ![p] = o]

(* on_chat_update of a chat c in place of the chat old: its peer first.    *)
OnChatUpdate(rs, p, c, old) ==
    /\ names' \in Bind(PeerNames(names, p, c.user), LAMBDA d : SetName(d, p, c.title))
    /\ refs' = KeepChat(KeepObject(rs, p, c.user), p, c.user, old)
    /\ user' = [user EXCEPT ![p] = c.user]
    /\ chat' = [chat EXCEPT ![p] = c]

-----------------------------------------------------------------------------
Init ==
    /\ uname = [p \in Peer |-> None]
    /\ title \in [Peer -> Titles \cup {None}]
    /\ changes = 0
    /\ refs = [p \in Peer |-> [o \in Object |-> 0]]
    /\ user = [p \in Peer |-> None]
    /\ chat = [p \in Peer |-> None]
    /\ names = NoNames

Running == names.fault = "none"

(* Somebody takes or gives up a username, which has one bearer at a time,  *)
(* or changes, gets or loses a name or title.                              *)
Rename(p) ==
    /\ p \notin Groups /\ changes < MaxChanges
    /\ \E w \in (Usernames \cup {None}) \ {uname[p]} :
         /\ w # None => \A q \in Peer : uname[q] # w
         /\ uname' = [uname EXCEPT ![p] = w]
    /\ changes' = changes + 1
    /\ UNCHANGED <<title, refs, user, chat, names>>

Retitle(p) ==
    /\ changes < MaxChanges
    /\ \E w \in (Titles \cup {None}) \ {title[p]} : title' = [title EXCEPT ![p] = w]
    /\ changes' = changes + 1
    /\ UNCHANGED <<uname, refs, user, chat, names>>

(* UpdateUser, UpdateGroup, UpdateChannel, UpdateSecretChat,               *)
(* UpdateChannelFull; also GetUser when an unknown user is printed.  The   *)
(* update's own reference is dropped with it.                              *)
UpdatePeer(p) ==
    /\ OnPeerUpdate(refs, p, Told(p))
    /\ UNCHANGED <<tdVars, chat>>

(* UpdateChat; also GetChat when an unknown chat is printed.  The chat is  *)
(* kept, and with it the reference that came with its object.              *)
UpdateChat(p) ==
    /\ OnChatUpdate(Take(refs, p, Told(p)), p,
                    [title |-> title[p], user |-> Told(p)], chat[p])
    /\ UNCHANGED tdVars

(* UpdateChatTitle: the cached chat, with its new title, is updated again; *)
(* the chat is taken before it is dropped, and so survives.                *)
UpdateChatTitle(p) ==
    /\ chat[p] # None
    /\ OnChatUpdate(refs, p, [chat[p] EXCEPT !.title = title[p]], None)
    /\ UNCHANGED tdVars

(* print_chat_name of a private chat, also in print_message: the user that *)
(* came with the chat is updated again.                                    *)
PrintChat(p) ==
    /\ p \in Users /\ chat[p] # None
    /\ OnPeerUpdate(refs, p, chat[p].user)
    /\ UNCHANGED <<tdVars, chat>>

(* print_user_name of a user that is known: he is updated again. *)
PrintUser(p) ==
    /\ p \in Users /\ user[p] # None
    /\ OnPeerUpdate(refs, p, user[p])
    /\ UNCHANGED <<tdVars, chat>>

Next ==
    /\ Running
    /\ \E p \in Peer :
         \/ Rename(p) \/ Retitle(p)
         \/ UpdatePeer(p) \/ UpdateChat(p) \/ UpdateChatTitle(p)
         \/ PrintChat(p) \/ PrintUser(p)

Spec == Init /\ [][Next]_vars

-----------------------------------------------------------------------------
(***************************************************************************)
(* Properties.                                                             *)
(***************************************************************************)

(* Type correctness. *)
TypeOK ==
    /\ uname \in [Peer -> Usernames \cup {None}]
    /\ title \in [Peer -> Titles \cup {None}]
    /\ changes \in 0..MaxChanges
    /\ refs \in [Peer -> [Object -> 0..2]]
    /\ user \in [Peer -> Object \cup {None}]
    /\ chat \in [Peer -> ChatObject \cup {None}]
    /\ names.tree \in [Aliases -> Seq(Peer)]
    /\ names.lists \in [Peer -> Seq(Text)]
    /\ names.user \in [Peer -> Aliases \cup {None}]
    /\ names.name \in [Peer -> Aliases \cup {None}]
    /\ names.fault \in {"none", "assert", "freed"}
    /\ names.collided \subseteq Aliases

(* An object is counted once for the peer and once for the chat that keep  *)
(* it, so that neither ever points to freed memory and none is leaked,     *)
(* although peer_update_chat keeps an object it does not count.            *)
RefsExact ==
    /\ TypeOK
    /\ \A p \in Peer, o \in Object :
         refs[p][o] = Cardinality({x \in {"peer", "chat"} :
             IF x = "peer" THEN user[p] = o ELSE chat[p] # None /\ chat[p].user = o})

(* No text of kind k was freed while it was in the list of p.  Usernames   *)
(* are, when the name or title before them in the list becomes NULL, and   *)
(* names and titles are when the username before them does.                *)
Intact(p, k) == FreedOf(k) \notin Range(names.lists[p])

(* A username leads to the peer whose cached user bears it and to no other *)
(* one, unless it was inserted for two peers at once, or a username was    *)
(* freed in the list of the peer: then changes of it are missed.           *)
UsernameLeads ==
    Running =>
    \A p \in Peer \ Groups, w \in Usernames :
        LET a == UsernameAlias(w) IN
        user[p] # None /\ a \notin names.collided /\ Intact(p, "@")
        => (names.tree[a] = <<p>> <=> user[p].uname = w)

(* Names and titles never lead to two peers, whoever takes whose name.     *)
(* Nor are they inserted twice, but for a peer in whose list one was freed.*)
TitlesApart ==
    Running =>
    \A a \in Aliases : a.kind = "title" =>
        \E p \in Peer :
            /\ Range(names.tree[a]) \subseteq {p}
            /\ Len(names.tree[a]) > 1 => ~Intact(p, "title")

(* The name a chat is printed under leads back to it, and no other name or *)
(* title does: it is the one that on_chat_update, or on_user_update while  *)
(* there was no chat, gave last, if any.                                   *)
NameLeads ==
    Running =>
    \A p \in Peer : chat[p] # None /\ Intact(p, "title") =>
        /\ \A a \in Aliases : a.kind = "title" =>
              (p \in Range(names.tree[a]) <=> a = names.name[p])
        /\ IF chat[p].title = None THEN names.name[p] = None
           ELSE names.name[p] # None /\ names.name[p].of = chat[p].title

(* However peers take names from each other, a name leads to the peer that *)
(* bears it (on_user_update and the others, on_chat_update).               *)
NamesLead == UsernameLeads /\ TitlesApart /\ NameLeads

(* The tree and the list of a peer name the same aliases, but for the kind *)
(* of those freed in the list, and for usernames inserted twice.           *)
TablesAgree ==
    Running =>
    \A a \in Aliases, p \in Peer :
        Intact(p, a.kind) /\ (a.kind = "@" => a \notin names.collided)
        => (p \in Range(names.tree[a]) <=> a \in Range(names.lists[p]))

=============================================================================
