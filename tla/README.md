# A TLA+ verification of telegram-cli

The repository holds two Telegram clients on top of tdlib: **telegram-cli**
(`main.c`, `interface.c`, `loop.c`, `json-tg.c`, `lua-tg.c`), a command-line
program driven by a terminal, by sockets, by `--exec` and by Lua scripts, and
**telegram-curses** (`telegram-curses.cpp`, `td-*.cpp`), a window client whose
CMake target is commented out.  `libedit/` is vendored, tdlib is a submodule.
The repository has no README and no tests; what the program promises is said by
its comments, its assertions, the help texts of the command table
(`interface.c:2399-2511`) and `usage()` (`main.c:454-491`).

## 1. Inventory

Everything in telegram-cli runs on one thread.  `net_loop` (`loop.c:212`) calls
one libevent callback at a time; tdlib's threads only write to a pipe
(`wakeup`, `loop.c:513`), and `TdCClientWork` then delivers answers and updates
as ordinary callbacks on the main thread.  So the interleavings that matter are
those of whole callbacks: input lines, answers, updates, timers, accepts and
hang-ups, in any order the outside world produces.

| component | state | operations | what is hard, and what makes it correct |
|---|---|---|---|
| commands (`interface.c`, `loop.c`, `json-tg.c`, `lua-tg.c`) | `struct in_command` and its refcnt, `allocated_commands`, `safe_quit`, message tree, file-wait tree, delayed queries, `struct in_ev` | read a line, resolve peers, run the handler, answers, updates, timers, `safe_quit`, `quit` | a block is shared by requests, trees and timers: it must be freed once, after exactly one answer; the client must quit when the last one is done and not before |
| login (`loop.c:84-133, 373-511`) | `auth_state`, the one-string prompt and its callback | answers to auth requests, strings typed, retry timer | one activity at a time; every error leads back to a prompt; commands start once |
| event loop (`loop.c:204-259, 513-553`, `main.c:761-829`) | wakeup pipe, `need_update`, `need_prompt_update`, `sigterm_cnt` | post, read pipe, work, signal | an update posted by a tdlib thread is delivered without waiting for another event; signals are noticed |
| peers and aliases (`interface.c:135-616`) | `tdcli_peers`, `chat_aliases` and their shared strings | chat, user, group, channel updates; renames | an alias names one peer; no alias outlives its peer's name; counts of shared objects |
| message registry (`interface.c:619-684`) | messages by id and by local number | new message, lookup, `msg_num_mode` | one local number per message and back |
| updates (`interface.c:3480-4050`) | cached chats, subscribers, `notify_ev` | one per kind of update | the cache follows the last update; nobody is told twice |
| socket framing (`loop.c:265-309`) | `in_buf`, `in_buf_pos`, `error` | read bytes, cut lines | every line once, an overlong line skipped |
| tokenizer and argument parser (`interface.c:773-959, 4057-4480`) | `line_ptr`, current token | next token, parse argument | quoting, optional arguments, back-tracking |
| printing and prompt (`interface.c:1267-1286, 4580-4700`) | readline's saved line, `readline_deactivated` | print start and end, one-string mode | output never loses what is being typed |
| JSON bridge (`json-tg.c`) | a value stack | fetch a function, store a result | the stack is balanced |
| Lua bridge (`lua-tg.c`) | Lua registry references | `tdcli_function`, callbacks, updates | one callback per query |
| curses: line editor (`td-line-edit.cpp`) | text, cursor, first row of the block | keys, drawing | the cursor stays in the text and on the screen; two computations of the layout agree |
| curses: dialog list (`td-window-dialogs.cpp`, `telegram-curses.cpp`) | the ordered list, the selected chat, `last_position`, `running_query_` | updates of chats, answers to `getChats`, keys | the list is reordered under the cursor; what is drawn has no gap; one request at a time, also after failures |
| curses: chat window (`td-window-chat.cpp`, `telegram-curses.cpp`) | messages, oldest page asked for, bottom line, text typed | updates of messages, answers to `getChatHistory`, keys, opening and closing | late answers, also those meant for an earlier window; messages deleted and edited under the view |
| curses: log, input, root windows | texts, focus | output, keys | thin wrappers |
| start-up (`main.c:100-735`) | options and configuration | parse once | sequential, runs before the loop |
| libedit, tdlib | – | – | third party |

## 2. Plan

Written first are the parts where several actors meet, each with its proofs;
then the data structures; then the window client.

1. `Commands`, `CommandService` (abstract), `MCCommands`, `CommandsProofs` – **done**.
2. `Login`, `MCLogin` – **done**.
3. `EventLoop`, `MCEventLoop` – **done**; `LoopProofs` has the proofs about both,
   the two modules of `loop.c` that have state between callbacks.
4. `Peers`, `MCPeers`, `PeersProofs` – **done**: objects, aliases and the tree,
   against the names tdlib's objects bear.
5. `Input`, `MCInput`, `InputProofs` – **done**: bytes to lines to tokens,
   against an automaton; `CommandTable`, `Arguments`, `MCArguments`, `ArgumentsProofs` –
   **done**: tokens to arguments, against all ways to divide a line.
6. `LineEdit`, `MCLineEdit`, `LineEditProofs` – **done**; `DialogList`,
   `MCDialogList`, `DialogListProofs` – **done**; `ChatWindow`, `MCChatWindow`,
   `ChatWindowProofs` – **done**.
7. Every safety property of these modules is proved, for all values of the
   constants.  Liveness stays with TLC.

The abstract specification is `CommandService` (open, closed, stopped), which
`Commands` implements.  For the other parts what is promised is an operator:
the lines of a stream (`Pieces`), an automaton (`Automaton`), all divisions of a
line (`RefusedRight`), the bearer of a name (`UsernameLeads`), the layout of a
text (`DrawLoop`), what tdlib has (`NoChatSkipped`, `NoGap`).

## 3. Commands

`Commands.tla` follows every line from `interpreter`, `read_incoming`,
`on_started` or `lua_parse_function` to the `in_command_decref` that frees it.

| code | model |
|---|---|
| a `struct in_command` block | a member of `Cmd`; `mem[c]` is unused, live or freed, `refcnt[c]` its count |
| `cmd->ev`, `ev->refcnt`, the bufferevent, `notify_ev` | `ev[c]`, `evref[e]`, `conn[e]`, `notify` |
| a pointer kept by somebody between callbacks | `held[s]`, by stage: request in flight, delayed query, message tree, timer, history, the wait list of a file; `"lost"` is for a command in memory that nobody points to |
| `allocated_commands`, `safe_quit`, `cur_chat_mode_chat_id`, `start_command` | `allocated`, `safe_quit`, `chat_mode`, `script` |
| the client's end | `status`: a safe quit, `quit`, or a fault (failed assertion, use after free, NULL pointer) |
| the ~70 entries of `commands[]` | kinds of line, by what the handler does with the command: refuse it, answer at once, send one request, send a message, page a history, wait for a file, set a timer, and the four that change the interface itself |

One action is one callback, to its return: `Interpret` is `interpreter_ex` with
the handler, `Settle` the `in_command_decref` calls of the callback, including
the `do_halt` in it.  `Taken` and `Dropped` are the references that
`interpreter_ex`, `interpreter_chat_mode` and `json_interpreter_ex` take and
that `fail_interface` and `tdcli_cb` drop; a line whose peer is unknown goes to
`held["resolve"]` and is interpreted again (`Resolved`) when tdlib has answered.

What is outside: tdlib answers a request once; the answer to a message request
precedes the update that settles the message; the answer to a peer search makes
the peer known; `DownloadFile` does not fail after an `UpdateFile` with a path
(after that the code would use a freed `file_wait`); a successful `DownloadFile`
reply does nothing.  Output, argument values and signals are left out.

### Properties and runs

| run | instance | what it shows |
|---|---|---|
| `commands_console` | 3 commands, console + `--exec` of one line + Lua, one file, one unknown peer | `RefcntExact`: the count is the number of pointers to the command (`Holders`, which a lost command has none of); `CompletedOnce`: completed exactly once before it is freed; `QuitWaits`: a safe quit ends with nothing outstanding; `NoFault`; `ImplementsService`: the whole refines `CommandService` |
| `commands_sockets` | 3 commands, 2 connections, `-d`, EOF, chat mode, negative limits | `EvRefExact`: an `in_ev` is counted by its bufferevent, its live commands and `notify_ev`, also on the paths that end in a fault |
| `commands_live` | 2 commands, no sockets, fairness | `EveryCommandEnds`, `QuitHappens` |
| `socket_quit_early` | 2 commands, 1 connection | finding: socket commands are not in `allocated_commands` (`loop.c:281`), so a safe quit on a socket may come too early (and, when it is last, never, since the count passes zero) |

The console run leaves out the lines whose known defects break `RefcntExact` or
`NoFault`: `/history` in chat mode holds the command that its line has dropped
(`interface.c:3460`), a JSON line that does not parse is dropped without having
been taken (`json-tg.c:244`), a negative limit fails `assert (p >= 0)`
(`interface.c:2257, 2267`), the end of the input is read as a line, and the name
of a secret chat that is known and has no chat yet fails `assert (0)` in
`cur_token_peer` (`interface.c:1163`; `SecretPeer`, with `SecretChats`).  All but
the JSON line are in `commands_sockets`, and `commands_live` has secret chats too.
Two defects are followed everywhere: a text in chat mode is neither sent nor
released, so that its command has a count of one and no pointer for ever, and a
safe quit then waits for ever (`interface.c:3470`; `RefcntExact` excepts these
lines by name, as `Leaking`); and a line of `--exec` that is answered at once ends
the client before the next one (`loop.c:341`).

Bounds.  `Cmd` bounds the number of lines in a behaviour, since a block is never
reused: three let one command be created, one resumed and one completed around
each other, and all sharing of state (a file's wait list, a connection, the
counter) already happens between two.  `Cmd` and `Conn` are symmetric.  One
`File` suffices because files do not interact; `MaxResolves = 1` resolves a peer
once, and the second resolution of a line repeats the first (`commands_live` has
two, for a secret chat that is met when a line is read again).  `Limits = {0, 2}`
has an empty history, a one-page and a two-page one.

Fairness (`Fairness`, used by `commands_live`): tdlib answers every request,
settles every message and every download, timers fire, and the lines of
`--exec`, which run inside one callback, run on.  Nothing makes users type, or
stop typing: the properties speak of what was already asked.

Deadlock is not checked: the client ends, and an instance runs out of lines.

### Proofs (`CommandsProofs.tla`)

All theorems hold for every finite set of commands and all other constants that
`ConstantsAssumption` allows.

* `TypeCorrect`, which no run repeats.  `TypeOK` is not inductive: `Resolved`
  subtracts one from the number of unresolved peers.  `Waiting` adds that a
  waiting line has one.
* `RefcntCorrect`, `CompletionCorrect`, under `Disciplined` (no `/history` in
  chat mode and no JSON line that does not parse: see the defects above).
  `RefcntExact` says nothing about which commands may be completed next, so it
  is strengthened to `OneHolder`: a live command has count one, exactly one
  stage holds it and it is not completed; others have no
  holder.  For `RefcntExact`, `LostLeaks` adds that only a text of a chat is held by
  nobody (`LostOnly`, `LostStep`).  `InterpretCounts` (a line, new or resumed, ends at one holder or
  freed), `CompleteCounts` (completing what a stage holds frees exactly that)
  and `RestHolds` carry the step.
* `AllocatedCorrect`, with no assumption on the input: `allocated_commands` is
  the number of live commands that are not from a socket minus the number of
  freed ones that are.  `StepKinds` sorts the steps into those that create one
  command, complete some, or neither, and `SettleAllocated` does the counting.
* `QuitCorrect`, under `ConsoleOnly` (no socket lines): the halt test
  compares `allocated_commands` with the number of commands freed, which
  `AllocatedCounts` makes the number of all commands (`HaltsEmpties`).  No run
  checks `AllocatedCounts` itself.

* `EvRefCorrect`, for all input: `EvInv` is `TypeInv`, the balance of each
  count against its owners (`Owners`, `Writers`), and `Unopened` (a connection
  not accepted yet has no owner and no count).  `StepCases` sorts the steps by
  what they do to connections, and `SettleEvRef` counts for all that settle.
* `NoFaultCorrect`, under `Sane`: `Disciplined`, no end of input, no secret chat
  that is known before it has a chat, no negative limit, and in a client started with `-d` no `safe_quit`, and `quit` from a socket
  only: both use `cmd->ev` unseen (`interface.c:1492, 1503`), and `safe_quit` frees
  the connection that `read_incoming` is still reading.  Each is needed, for with
  such a line the model reaches the fault at once.  `InterpretFaultless` is the
  step of a line.
* `ServiceCorrect`, under `Sane` and `ConsoleOnly`: `Spec => ImplementsService`,
  the whole refinement.  A step closes the commands that it frees, so that the
  proof is a case split by who frees something (`FreesNothing`, `FreedServes`);
  that the service stops exactly when nothing is open is `HaltsExactly`, which
  rests on `AllocatedCounts`.  `ConsoleOnly` is needed because of the finding of
  `socket_quit_early`.

Only model-checked: liveness, which is outside the prover's reach.

## 4. Login

`Login.tla` follows `tdcli_login`: the client asks tdlib for its authorization
state and `on_got_auth_state` does what the answer, or the last answer before an
error, calls for.

| code | model |
|---|---|
| `auth_state` | `auth`; `"unset"` is 0, `"other"` a state the `switch` does not know |
| callbacks that are still to come | `waits`: one count for each request, the 10 ms timer and the prompt |
| `one_string_cb`, `read_one_string` | `prompt` |
| the `arr` of names between `on_got_first_name` and `on_got_code` | `names` |
| `rl_line_buffer`, `saved_line` | `line`, `saved`: how much text they hold; `typed` is what the user typed |
| `on_started` | `started` |
| `bot_mode`, `bot_hash`, `wait_dialog_list` | variables that only `Init` chooses |
| tdlib's own state, the account | `td`, `registered`; `Accepted` is the protocol as the client's code expects it |

An error of a `WaitCode` request makes line 462 read `is_registered_` from the
error object; the model lets that read return either value, and the history
variable `misled` records it.  The run `login` covers persons and bots with each
option, from every state of tdlib, with three refusals and a line of two
characters: `OneActivity` (one callback is awaited until the login is over),
`PromptFits` (the user is asked for what tdlib waits for), `StartedOnce`,
`NamesFit` (names go with a code exactly for a new user, until `misled`),
`TextKept` (no chain of prompts loses the line readline was editing) and
`LoginEnds`.  Three refusals let any request be refused,
another after it, and one of them again; a refusal leaves `auth` and `td` as
they were, so more of them repeat what was seen.  Fairness: tdlib answers and gets
ready, the timer fires, and the user answers what he is asked; typing commands
is never forced.  Deadlock is not checked because the input may end under a
prompt, and then the client waits for ever.

`LoopProofs.tla` proves all the safety properties for every number of refusals
and every length of text.  `OneActivity` is the heart: an answer is taken while
nothing else is awaited (`OnlyActivity`), so a prompt never opens over another.
Added to make it inductive: `AuthFits` (what the client last heard is still
true, since only its own requests move tdlib on), `ChatsFit` and `NamesOrdered`.
Every step ends in one of three shapes, a prompt, a wait or the end
(`PromptState`, `WaitState`, `OverState`).  `NamesCorrect` adds `NamesInv`.

## 5. Event loop

`EventLoop.tla` has tdlib's threads, the wakeup pipe, the rounds of `net_loop`
and the signal handlers.  `Post` and `Wakeup` are two steps of a thread, with
the wait for room in the pipe between them; `Poll` is `event_base_loop` with the
callbacks of all ready events; `Check` is the rest of a round (`Halt`, `Work` or
`Redraw`).  What `TdCClientWork` does is not in the repository: the model only
assumes that it delivers at least one update if there is one.

The run `event_loop` has two threads, four updates, a pipe of two words (so that
threads do wait), two other events and the signals.  `WakeupPending` says that
every undelivered update has a wakeup of its own still to come, `PromptFresh`
that the loop never sleeps on an outdated prompt (while a string is asked for,
`update_prompt` does nothing and `reactivate_readline` redraws the prompt
afterwards), `UpdatesDelivered` that every update arrives, and `SigtermNoticed`
that a signal ends the client once an event is ready, also while updates keep
coming.  With no event ready the first signal goes unnoticed:
`event_base_loop` polls again when it is interrupted.  Fairness: the main loop
and the threads inside `wakeup` run.

`LoopProofs.tla` proves `LoopTypeOK`, `WakeupPending` and `PromptFresh` for
every finite set of threads and every size of the pipe.  `StaleAsked` (a
callback that outdates the prompt asks for a new one) makes them inductive.

## 6. Peers and aliases

`Peers.tla` follows `tdcli_peers` and `alias_tree` through the updates of users,
groups, channels and chats (`on_user_update` ... `on_chat_update`) and through
the prints that repeat such an update with an object the client already has.

| code | model |
|---|---|
| `P->user`, `P->group`, ... and `P->chat` | `user[p]`, `chat[p]`: an object is named by what it says (a username and a title), either of which may be NULL (`interface.c:461, 489, 498`) |
| the `refcnt` of an object | `refs[p][o]`; `peer_update_chat` drops a count it has just taken and keeps the pointer (`interface.c:301`) |
| `alias_tree` | `names.tree[a]`: the entries under one name, the one that a look-up finds first |
| `P->aliases`, `P->username_alias`, `P->name_alias` | `names.lists`, `names.user`, `names.name` |
| a text that `del_alias_internal` freed but left in the list (`interface.c:422-424`) | `FreedOf`, which keeps what kind of alias it was; a search that reads it is `Searched`, which allows every outcome |
| the assertion in `tree_insert` on equal keys | fails or not, by the random weight of the new node (`AddAlias`) |

A name or title that is NULL deletes the alias, and that is where texts are
freed: the last text of the list is moved into the gap and freed there.  If a
username goes, the name behind it in the list is lost, and the other way round.
The alias stays in the tree, and each later change of it is missed, since
`sub_alias_internal` looks for it in the list.  Then `@x` may lead to its former
bearer for ever, the name a peer is printed under may be in no table, and the
peer's own old title, which is still in the tree, is inserted a second time when
the name comes back.

The run `peers` has two users, a channel, one username that all three may bear
and two titles, with three changes.  `RefsExact`: an object is counted once by
its peer and once by the chat, although one of the functions keeps an object it
does not count.  `NamesLead`: a username leads to the peer whose cached object
bears it and to no other (`UsernameLeads`), a title never leads to two peers
(`TitlesApart`), and the name of a chat leads back to it and no other name does
(`NameLeads`).  `TablesAgree`: tree and lists name the same aliases.

The properties except, by name, what the code really gets wrong.  An alias of a
kind that was freed in the list of a peer (`~Intact(p, k)`) is not spoken of for
that peer, and such a peer's title may be in the tree twice; what is said of
usernames still holds where a title was freed, and the other way round.  And a
username may be inserted for two peers at once (`collided`), when a chat's copy
of an old user is printed after the username went to somebody else.

Three changes let a username pass to a second bearer and back while a title
changes, or a name be lost, freed with its neighbour and come back.  Suffixes go
up to four, two more than three peers with one title need, for the titles that
freed texts left in the tree; an update that needs a number above `MaxSuffix` is
not explored (`GenerateTitle` is then empty).  Groups and secret chats differ from channels only by having no username.

`PeersProofs.tla` proves the three for every finite set of peers, all usernames
and titles, any bound of the suffixes and any number of changes.  Two assumptions
name what NULL and a freed text are not: objects or aliases (`NullAssumption`
and the kinds of aliases).  The inductive invariant (`IInv`) has four parts.

* `Counted` writes the count of an object as a sum over the two pointers; a
  chat's update balances because tdlib's own reference pays for the pointer that
  is kept uncounted.
* `ListsOK`: a list starts with its peer's number, so that no deletion ever takes
  the first entry, and no alias is in it twice.
* `CurrentOK`, once for usernames and once for titles: a list holds no alias of
  the kind but the one that the peer points to, and holds that one unless a text
  of its kind was freed there.
* `MarkOK` and `HeadingOK`, for one username and one title: who has it in his
  list is led to by the tree, and who is led to by the tree has it in his list or
  had a text of its kind freed there.  A title's entries are all of one peer.

`Changed` says what one change of an alias does, whether it is opened, deleted
or replaced (`Opened`, `Closed`, `Moved`): other lists stay, no alias of another
kind leaves the list without leaving its kind behind, and the tree changes under
the old and the new alias only.  That a username or a title keeps the invariant
follows from `Changed` alone, once for both; a title that is generated is
free or the peer's own (`TitleGenerated`), so that titles of two peers never meet.
`Borne` ties the aliases to the objects and chats that are kept.

## 7. From bytes to arguments

`Input.tla` has the buffer of a connection (`in_buf`, `error`), the passes of
`read_incoming`, and the tokenizer as operators on a line.  The run `input`
sends every stream of six characters (a letter, a blank, two kinds of quote, a
backslash, newline, zero) in pieces of every size through a buffer of five.
`LinesRight`: each line once and in order, up to the first that fills the
buffer, after which the connection is deaf: nothing can be read into a full
buffer (`loop.c:303`).  `TokensRight`: the two loops over a quoted token, one
that finds its end and one that takes escapes out, agree with an automaton that
reads the line once, and any text can be written as one argument.  `RestRight`:
`next_token_end` gives the rest of the line.  Six characters contain two quotes,
an escaped quote and a blank at once, and two lines; the buffer of five is
reached by a line with one character to spare.  The functions are total and the
stream is finite, so that no fairness is needed.

`InputProofs.tla` proves the three for streams and lines of every length, in
pieces of every size, and buffers of every size.

* `LinesCorrect`.  `LinesRight` speaks of the moments between two calls of
  `read_incoming`; `Inv` says what holds inside one.  What is in the buffer and
  what is still unread are the end of the stream (`Kept`).  The lines are the
  pieces before the place where that end begins, which is a place where a piece
  begins, and all of them fitted (`Interpreted`).  An error is a full buffer
  without a newline, and stays one, because nothing can be read into it.  A pass
  that cut no line has left nothing unread that would fit, which is why the loop
  may stop there.  Cutting a line goes from the k-th place where a piece begins
  to the next (`CutKeeps`, on ranks in a finite set of numbers).
* `TokensCorrect`, without any state.  While the automaton is in a quoted token,
  it is escaped exactly where the first loop has `esc` set; the text it has
  gathered, followed by what the second loop takes from there on, is the text of
  the token (`QuotedText`, from the end of the token back).  With that one token
  advances both readings by the same text (`PlainRun`, `QuotedRun`, `ReadFrom`).
  What is written between quotes is read back character by character
  (`WrittenIsOne`).
* `RestCorrect` compares the end found by `next_token_end` with the blanks of
  the line, and otherwise is the first token of `TokensCorrect` (`ReadByFirst`).

The functions over strings are recursive, and the library's induction theorems,
which take a predicate as parameter, are out of reach.  That such a function
exists is shown once, for a recursion over finitely many stages
(`RecursionExists`): the stages up to which there is one go on from each number
to the next.  What it computes is shown by sets of
numbers: one that goes on from each member to the next has them all
(`AllNumbers`, `Upward`, `Downward`), which follows from the existence of a
least counterexample.

`CommandTable.tla` is `commands[]` with its argument lists; `Arguments.tla` is
`parse_command_line`, argument by argument.  `at` is `line_ptr`; `Read` is one
`parse_argument_...` with its return codes 0, -1, -2, -3 and -5, which give the
token back or not.  A name that tdlib must be asked for makes the line wait
(`-2`), and the whole line is parsed again when tdlib has answered; meanwhile
the client may hear of other peers or forget one (`Hear`).  tdlib is assumed to
send the update of a peer before the answer that names it: the code throws the
answer away (`update_chat_aliases` is empty, `interface.c:762`).

Which names are asked for is `ReadPeer`, and not what one would expect: a
username always is; a number, as `user#id1`, only for an argument of that kind
of peer, and never where any chat will do, since `tdcli_any` is 0 and
`mode >= 0 && mode != ff[i]` then skips every form (`interface.c:1191`), so that
`chat_info user#id1` is refused for a user the client has not heard of.  The
codes of the kinds are generated and not in the repository; were one negative,
the test would skip nothing, and the constant `Negative` says which ones are
(`AsksById`).  The name of a secret chat that is known and has no chat yet fails
`assert (0)` (`interface.c:1163`), which ends the line, and the client, as
`aborted`.

The run `arguments` types lines of up to three tokens after each of thirteen
commands whose arguments are optional, repeated or of several kinds, with one
name of a group, one of a secret chat, a username and a number of a user.
`TokensOnce`: the arguments of an accepted line are the line, each token once,
whatever was given back.  One slip of the code is excepted: "too many args" is
told by the length of the next token (`interface.c:4474`), which is 0 at the end
of the line and for `""` too, so that a line is accepted in spite of a left-over
`""` and all that follows it.
`ArgumentsFit`: a handler is given what it asked for, all at one moment, and can
tell what was left out.  `RefusedRight`: a line is refused only if no division
of its tokens fits, as names are known at that moment; `search` and `send_file` are excepted, where an optional
argument may take what the required one after it needed.  `EveryLineEnds` needs
the answers of tdlib and the client's own steps; a single change by itself is
enough for a line to be read differently the second time.  It ends with the line
handled or refused, or aborted while a secret chat without a chat is known.  A known slip is left
out by name: `parse_argument_chat` leaves 0 and not `NOT_FOUND` for an optional
chat, so that `search` without a chat looks in chat 0 (`interface.c:2322`).

`ArgumentsProofs.tla` proves `TypeOK`, `TokensOnce` and `ArgumentsFit` for lines
of any length over any names, with any number of changes of what is known
meanwhile.  The inductive invariant `IInv` says of the part that is parsed what
the properties say of an accepted line: the arguments taken are a chain of
stretches of the line that ends at `line_ptr` (`Chain`, `ChainAt`), each fits the
description it was read for (`TakenFit`), what was left out is marked (`Marked`),
and the command's name has been read before its description is used
(`CommandKnown`, `InTable`).  `OneArgument` and `OneRead` say what one
`parse_argument_...` returns, so that its twelve outcomes are looked at once.
It also proves `RefusedRight`, for which the invariant says that every argument
took all it could (`Greedy`) and why a line is refused (`WhyRefused`).  Then no
division of the tokens is ever ahead of the arguments (`NeverAhead`); while only
required arguments of one token were read it is exactly where they are.  So a
line with tokens left over has no division that reaches its end, and where a
required argument found nothing (`Stuck`) every division has that argument start
(`NoDivision`).  Of `commands[]` the proofs use `TableAssumption`, which TLC
evaluates: an argument that repeats is never the rest of the line, and a modifier
never required; only the last argument repeats or takes the rest of the line; a
rest that may be left out occurs only in a command that `RefusedRight` excepts.
Of tokens they use that one in quotes is neither a number nor a modifier
(`ArgumentsAssumption`).

## 8. Line editor

`LineEdit.tla` has the text, the cursor and `frame_start_line`; a key and the
`draw` that follows it are one action, since every user of the editor redraws
after each key.  An editor without `echo`, that of the password window, is
edited and never drawn: `draw` returns before it moves the frame.  The cursor is
always enabled where a text is drawn: only a window of several prompts would draw
an editor without it, with `pos_line` at -1, and the one that has several,
`TdInputWindowCodeReg`, is never opened (src/telegram-curses.cpp:110-131).
Rows are computed by their ends, as a definition; `DrawLoop`
is the loop of `draw` character by character, and `LayoutAgrees` says that they
agree and that no row is wider than the block.  `CursorShown`: the cursor's row
is in the block and the block in the text.  `FrameFilled`: no room is wasted
below while rows are hidden above.  `KeysMoveByLines`: an action property about
LEFT, RIGHT, HOME, END, UP, DOWN and the page keys.  The run has a block of two
by two and texts of up to nine characters, so that five rows, wrapped and not,
scroll both ways.  `LineEditProofs.tla` proves `TypeOK` (so `insert` and `erase`
never throw), `CursorShown` and `FrameFilled` for every size of block and text:
`FrameFacts` is arithmetic alone, `RowFacts` says that the cursor's row is one
of the text's, and each key keeps the cursor in the text (`MoveFacts`,
`LineFacts`).  `KeysMoveByLines` counts newlines: the counts of two stretches of
text add up (`CountSum`), moving by a line passes one newline (`MoveUpLines`,
`MoveDownLines`), and a page is so many of these moves.  For `LayoutAgrees`,
`Drawn` says what `draw` knows after k characters, in terms of the rows' ends of
the text read so far.  The recursive function has a finite domain: it exists (`DrawExists`), and a least k
at which `Drawn` failed would contradict `DrawnStep`.

## 9. Dialog list

In `DialogList.tla` tdlib keeps an order of its own and says three things, in
one queue: a chat's order, the chats after a position, a failure.  The window
(`win`) is `dialog_list`, `chat_order`, `last_position`, `position`,
`position_offset` and `running_query_`; `Redraw` is `redraw` with the request it
may send, and ends every action, as in the code.  `Reorder` stands for both
`updateChat` and `updateChatOrder`; ENTER, which opens a chat, is in `ChatWindow`.

The run `dialog_list` has three chats with two orders, a window of two rows, two
changes and a failure: enough for a chat to leave and come back under the
cursor, for a page to be out of date when it arrives, and for the list to be
longer than the window.  `SelectionListed`: the selection is an entry, and a
chat has one.  `NoChatSkipped`: once all is heard, every chat above
`last_position` is listed, though answers and updates carry orders of different
moments.  `OneQuery`: `running_query_` is set exactly while a request is under
way.  `ListFills`: the window fills, or the whole list is in it.  Fairness:
tdlib answers (a refusal is its choice, and there are finitely many), the main
loop handles what it was sent, and the login ends.  Assumed of tdlib: it tells
of a chat by an update before it mentions it elsewhere, and everything it says
keeps its order.

`DialogListProofs.tla` proves the three safety properties for every finite set of
chats and any number of rows, orders, changes and failures.  `WInv` says that
the list is what `chat_order` makes it and the selection is in it; that a redraw
or a move keeps this is `RedrawFacts` and `MovedFacts`, and `ClientDraws` shows
that all the client does is one of them.  `QueryOne` adds that a request asks
for what follows `last_position`.  `NoneLost`, for `NoChatSkipped`, speaks of the
whole queue: for a chat tdlib has told of, the last thing said of it is its
order now (`Caught`); the others are not listed (`Unheard`) and follow
`last_position`, now and after each answer still to be heard (`Followed`).  That
an answer leaves no chat behind is `PageCovers`.  `NoChatSkipped` alone says
nothing while the queue holds anything, hence all this.

## 10. Chat window

`ChatWindow.tla` has the messages tdlib knows in each chat, its queue, the
requests it has not answered, in any order, and the one window there may be.
`Settled` and `LinesShown` are the loop of `redraw`; `first` is
`first_allowed_message_id_`, `End` and `Last` are `INT_MAX`.  A window is opened
from the dialog list, which has the keys only while there is no other window.
Typing needs the view at the end of the chat; the input line has one row, so
that `Height` is fixed.  `delete_message` takes a key of `messages_`, which is a
negated id, for an id when the bottom message goes: the next drawing finds no
such message and shows the end of the chat, which the model follows.

The run `chat_window` has two chats of up to three messages of one or two lines,
a page of one, two changes, a failure and two openings: a late page finds an
earlier window's successor, on the same chat or another, at the same position or
another.  `NoGap`: with all heard, what the window holds is what tdlib has, and
nothing is missing after `first`.  `HistoryAsked`: a window with room has a
request under way whose answer it will take.  `ViewSound`: the view ends with a
line that exists.  `HistoryFills`, under fairness of tdlib and the main loop
alone.  `NoGap` holds although a page is matched by chat and position only,
since pages and updates keep their order.  Deadlock is not checked: the user may
close the last window that the bound allows.

`ChatWindowProofs.tla` proves the three safety properties for every number of
chats, messages, lines, rows, pages, changes and openings.  `ViewSound` follows
from types and `RedrawnFacts`, which says that the loop of `redraw` ends in a
view.  For `HistoryAsked`, `TypeInv` adds that a window with free rows waits, and
`Promised` that what it waits for is among the requests or in the queue.  `NoGap`
is the deepest: it holds only with an empty queue, so `AllDated` says what is
true in between.  Every message in the queue is right about the messages it
names, up to the changes that are said behind it (`Dated`, with `Entry` for one
message and `Covers` for a stretch of history), and so is the window, as if it
stood in front of the queue (`Shown`).  An answer carries the messages of the
moment it is given, behind every change said until then: that is why pages may be
matched by chat and position only.  The steps are gathered into changes,
answers and what the window hears, with one lemma for each (`DatedSaid`,
`DatedHeard`, `ShownSaid`, `ShownTakes`, `ShownPaged`).

## 11. What is proved and what is only checked

Every invariant and action property of the passing runs is a theorem, and so is
the refinement of `CommandService`, each for all constants that the modules'
assumptions allow; the hypotheses on the input that some theorems about commands
carry are named in section 3.  Only model-checked are the liveness properties,
since the prover has neither `ENABLED` nor fairness: `QuitHappens`,
`EveryCommandEnds`, `LoginEnds`, `UpdatesDelivered`, `SigtermNoticed`,
`EveryLineEnds`, `ListFills` and `HistoryFills`.

## 12. Not modelled

* Start-up (`main.c`): options and configuration are read once, by one thread.
* The message registry (`interface.c:619-684`): a table that only grows.
* The formatting of output, and of values for JSON and Lua, most of which is
  generated from tdlib's schema; the completion mode of the parser.
* The log, input and root windows of the curses client.
* tdlib, and `libedit`, which is vendored third-party code and two thirds of the
  source lines.
* Slips inside one handler that no state depends on: `channel_edit ... sign`
  (`interface.c:2098`), the button loop of `push_button` (`interface.c:1607`),
  the number -2147483648, which is read as absent (`interface.c:961`).
* A tdlib that closes by itself: the curses client then drops requests without
  an answer (`telegram-curses.hpp:40`).
