------------------------------ MODULE Arguments ------------------------------
(***************************************************************************)
(* How a line becomes a command with arguments (interface.c:               *)
(* parse_command_line, the parse_argument functions, cur_token_peer).  A   *)
(* line is a sequence of tokens; each argument of the command takes some   *)
(* of them, or none if it is optional.  A name that only tdlib knows makes *)
(* the command wait, and the whole line is interpreted again afterwards.   *)
(***************************************************************************)
EXTENDS Integers, Sequences, CommandTable

CONSTANTS
    Line,       \* the lines that are typed
    Modifiers, Numbers, Quoted, Words, \* tokens by what they look like
    Open,       \* a quoted token that does not end
    Empty,      \* quoted tokens with nothing between the quotes
    Names,      \* tokens that name a peer
    Usernames,  \* ... with "@", which tdlib can search
    Ids,        \* ... by number, as user#id7
    KindOf,     \* the kind of peer that a name is of
    Negative,   \* kinds whose code is negative (generated, not in the source)
    Messages,   \* the numbers of messages that were printed
    InChat,     \* tokens as bob@5 for a message, and the name in them
    MaxChanges  \* bound: changes of what the client knows

Token == Modifiers \cup Numbers \cup Quoted \cup Words
         \cup Names \cup DOMAIN InChat \cup {Open}

ASSUME ArgumentsAssumption ==
    /\ Line \subseteq Seq(Token)
    /\ Usernames \cup Ids \subseteq Names
    /\ KindOf \in [Names -> Kinds]
    /\ Negative \subseteq Kinds
    /\ Empty \subseteq Quoted
    /\ Messages \subseteq Numbers
    /\ InChat \in [DOMAIN InChat -> Names]
    /\ DOMAIN InChat \cap (Numbers \cup Names \cup Quoted \cup {Open}) = {}
    /\ Names \cap (Modifiers \cup Numbers \cup Quoted \cup {Open}) = {}
    /\ Open \notin Modifiers \cup Numbers \cup Words
    /\ Quoted \cap (Modifiers \cup Numbers \cup {Open}) = {}
    /\ MaxChanges \in Nat

VARIABLES
    known,      \* what the client knows of a name: nothing, the peer, its chat
    changes,    \* how often it changed by itself
    state,      \* idle, or of the command: parsing, waiting, accepted or refused;
                \* aborted after an assertion failed
    line,       \* its line
    at,         \* line_ptr: the next token
    args,       \* the arguments read so far, modifiers and command name first
    awaited,    \* the name that was asked for
    reason      \* why the command was refused

command == <<state, line, at, args, awaited, reason>>
vars == <<known, changes, command>>

Peer == "peer"
Chat == "chat"
Knowledge == {"nothing", Peer, Chat}
NoName == "none"

(* An argument took the tokens from first to next - 1.  If there are none, *)
(* mark is what the handler finds: "absent" is NOT_FOUND or NULL, "zero"   *)
(* what memset left.                                                       *)
Argument == [first : Nat, next : Nat, mark : {"taken", "absent", "zero"}]

Init ==
    /\ known = [n \in Names |-> "nothing"]
    /\ changes = 0
    /\ state = "idle" /\ line = << >> /\ at = 1 /\ args = << >>
    /\ awaited = NoName /\ reason = "none"

-----------------------------------------------------------------------------
(***************************************************************************)
(* Reading one argument at token i: "ok", "bad" for -1, "end" for -3,      *)
(* "skip" for -5, "wait" for -2, "abort" if an assertion fails.            *)
(***************************************************************************)
Take(i, j) == [r |-> "ok", first |-> i, next |-> j, mark |-> "taken"]
Leave(r, i, m) == [r |-> r, first |-> i, next |-> i, mark |-> m]

(* A token that does not fit is skipped. *)
MissLoses(D, i, m) ==
    [r |-> IF D.opt \/ D.period THEN "skip" ELSE "bad",
     first |-> i + 1, next |-> i + 1, mark |-> m]

(* A token that does not fit is left to the next argument. *)
Miss(D, i, m) == Leave(IF D.opt \/ D.period THEN "skip" ELSE "bad", i, m)

Ended(i) == i > Len(line)

(* Any kind of peer will do. *)
FitsAny(n, type) == TRUE

Fits(n, type) == type \in {"chat", KindOf[n]}

(* tdcli_any is 0, so that mode >= 0 && mode != ff[i] leaves out every form *)
(* of number where any peer would do; with a negative mode it leaves out   *)
(* none.                                                                   *)
AsksById(n, type) == type # "chat" /\ (type = KindOf[n] \/ type \in Negative)

(* cur_token_peer.  For a secret chat without a chat it knows no query:    *)
(* assert (0).                                                             *)
ReadPeer(t, type) ==
    CASE t \notin Names -> "none"
      [] t \in Names /\ known[t] # "nothing" /\ ~Fits(t, type) -> "none"
      [] t \in Names /\ known[t] = Chat /\ Fits(t, type) -> "found"
      [] t \in Names /\ known[t] = Peer /\ Fits(t, type) ->
           IF KindOf[t] = "secret" THEN "abort" ELSE "ask"
      [] OTHER -> IF t \in Usernames \/ (t \in Ids /\ AsksById(t, type)) THEN "ask" ELSE "none"

Reading(t, type) ==
    CASE type = "modifier" -> IF t \in Modifiers THEN "found" ELSE "none"
      [] type = "number" -> IF t \in Numbers THEN "found" ELSE "none"
      [] type = "msg_id" ->
           IF t \in DOMAIN InChat THEN ReadPeer(InChat[t], "chat")
           ELSE IF t \in Messages THEN "found" ELSE "none"
      [] OTHER -> ReadPeer(t, type)

(* parse_argument_string *)
ReadString(D, i) ==
    IF Ended(i) THEN Leave("end", i, "absent")
    ELSE IF line[i] = Open THEN Miss(D, i, "absent") ELSE Take(i, i + 1)

(* parse_argument_string_end: the rest of the line, or one quoted token.   *)
ReadRest(i) ==
    IF Ended(i) THEN Take(i, i)
    ELSE IF line[i] \notin Quoted \cup {Open} THEN Take(i, Len(line) + 1)
    ELSE IF line[i] # Open /\ i = Len(line) THEN Take(i, i + 1)
    ELSE Leave("bad", i, "absent")

(* parse_argument_modifier, _number, _double, _msg_id, _chat: an optional  *)
(* chat is not marked as absent when the token is not a name.              *)
ReadPlain(D, i) ==
    IF Ended(i) THEN Leave(IF D.type = "modifier" THEN "skip" ELSE "end", i, "absent")
    ELSE IF line[i] \in Quoted \cup {Open} THEN Miss(D, i, "absent")
    ELSE CASE Reading(line[i], D.type) = "found" -> Take(i, i + 1)
           [] Reading(line[i], D.type) = "ask" -> Leave("wait", i, "absent")
           [] Reading(line[i], D.type) = "abort" -> Leave("abort", i, "absent")
           [] OTHER -> Miss(D, i, IF D.type = "chat" THEN "zero" ELSE "absent")

(* parse_argument_any *)
ReadAny(D, i) ==
    CASE D.type \in {"string", "media_type", "command"} -> ReadString(D, i)
      [] D.type = "string_end" -> ReadRest(i)
      [] OTHER -> ReadPlain(D, i)

(* parse_argument_period: as many as fit, one token each. *)
ReadMany(D, i) ==
    LET n == CHOOSE k \in 0..Len(line) :
                 /\ \A j \in 0..(k - 1) : ReadAny(D, i + j).r = "ok"
                 /\ ReadAny(D, i + k).r # "ok"
        last == ReadAny(D, i + n).r
    IN IF last \in {"wait", "abort"} THEN Leave(last, i + n, "absent")
       ELSE IF n > 0 THEN Take(i, i + n)
       ELSE Leave(IF last = "end" THEN "end" ELSE IF D.opt THEN "skip" ELSE "bad", i, "absent")

(* The end of the line refuses optional arguments too. *)
ReadToTheEnd(D, i) ==
    LET o == IF D.period THEN ReadMany(D, i) ELSE ReadAny(D, i)
    IN IF o.r = "skip" THEN [o EXCEPT !.r = "ok"] ELSE o

(* What parse_command_line makes of it: the end of the line is as good as  *)
(* a token that does not fit.                                              *)
Read(D, i) ==
    LET o == IF D.period THEN ReadMany(D, i) ELSE ReadAny(D, i)
    IN IF o.r = "skip" \/ (o.r = "end" /\ D.opt) THEN [o EXCEPT !.r = "ok"] ELSE o

-----------------------------------------------------------------------------
(* parse_command_line: the modifiers, the name of the command, its         *)
(* arguments.                                                              *)
Descs ==
    <<[type |-> "modifier", opt |-> TRUE, period |-> TRUE],
      [type |-> "command", opt |-> FALSE, period |-> FALSE]>>
    \o IF Len(args) < 2 THEN << >> ELSE Table[line[args[2].first]]

Refuse(why) ==
    /\ state' = "refused" /\ reason' = why
    /\ UNCHANGED <<line, at, args, awaited>>

NameIn(t) == IF t \in Names THEN t ELSE InChat[t]

(* The next argument. *)
ParseArgument ==
    /\ state = "parsing" /\ Len(args) < Len(Descs)
    /\ \E o \in {Read(Descs[Len(args) + 1], at)} :
         \/ /\ o.r = "ok" /\ (Len(args) = 1 => line[at] \in DOMAIN Table)
            /\ args' = Append(args, [first |-> o.first, next |-> o.next, mark |-> o.mark])
            /\ at' = o.next
            /\ UNCHANGED <<state, line, awaited, reason>>
         \/ o.r = "ok" /\ Len(args) = 1 /\ line[at] \notin DOMAIN Table /\ Refuse("unknown")
         \/ o.r \in {"bad", "end"} /\ Refuse(o.r)
         \/ /\ o.r = "wait"
            /\ state' = "waiting" /\ awaited' = NameIn(line[o.first])
            /\ UNCHANGED <<line, at, args, reason>>
         \/ /\ o.r = "abort" /\ state' = "aborted"
            /\ UNCHANGED <<line, at, args, awaited, reason>>
    /\ UNCHANGED <<known, changes>>

(* Nothing may be left: the next token has no length.  That is so at the   *)
(* end of the line, but a quoted token may have none either.               *)
ParseEnd ==
    /\ state = "parsing" /\ Len(args) = Len(Descs)
    /\ IF Ended(at) \/ line[at] \in Empty
       THEN state' = "accepted" /\ UNCHANGED <<line, at, args, awaited, reason>>
       ELSE Refuse("extra")
    /\ UNCHANGED <<known, changes>>

Begin == state' = "parsing" /\ at' = 1 /\ args' = << >>

(* interpreter_ex with a line that was typed. *)
Type ==
    /\ state = "idle"
    /\ \E l \in Line : line' = l
    /\ Begin
    /\ UNCHANGED <<known, changes, awaited, reason>>

(* The handler runs, or the command was refused, and the line is freed. *)
Return ==
    /\ state \in {"accepted", "refused"}
    /\ state' = "idle" /\ line' = << >> /\ at' = 1 /\ args' = << >>
    /\ awaited' = NoName /\ reason' = "none"
    /\ UNCHANGED <<known, changes>>

(* The chat is in the answer only, which is not looked at. *)
ProceedWithQueryUntold ==
    /\ state = "waiting"
    /\ awaited' = NoName
    /\ Begin
    /\ UNCHANGED <<known, changes, line, reason>>

(* tdlib has found the peer, whose chat it told of before it answered: the *)
(* line is interpreted again from its start.                               *)
ProceedWithQuery ==
    /\ state = "waiting"
    /\ known' = [known EXCEPT ![awaited] = Chat]
    /\ awaited' = NoName
    /\ Begin
    /\ UNCHANGED <<changes, line, reason>>

StopQuery ==
    /\ state = "waiting"
    /\ Refuse("resolve")
    /\ UNCHANGED <<known, changes>>

(* An update tells of a peer, or a name moves from one that was known. *)
Hear ==
    /\ state \in {"idle", "waiting"}
    /\ changes < MaxChanges
    /\ changes' = changes + 1
    /\ \E n \in Names, k \in Knowledge :
          /\ k # known[n]
          /\ known' = [known EXCEPT ![n] = k]
    /\ UNCHANGED command

Next ==
    \/ ParseArgument \/ ParseEnd \/ Type \/ Return
    \/ ProceedWithQuery \/ StopQuery \/ Hear

(* The client runs on, and tdlib answers. *)
Fairness == WF_vars(ParseArgument \/ ParseEnd \/ Return \/ ProceedWithQuery \/ StopQuery)

Spec == Init /\ [][Next]_vars /\ Fairness

-----------------------------------------------------------------------------
TypeOK ==
    /\ known \in [Names -> Knowledge]
    /\ changes \in 0..MaxChanges
    /\ state \in {"idle", "parsing", "waiting", "accepted", "refused", "aborted"}
    /\ line \in Seq(Token)
    /\ at \in 1..(Len(line) + 1)
    /\ args \in Seq(Argument)
    /\ awaited \in Names \cup {NoName}
    /\ reason \in {"none", "bad", "end", "unknown", "extra", "resolve"}

(* Going back and forth over optional arguments neither loses a token nor  *)
(* gives it to two arguments: those of an accepted line are the line, but  *)
(* for an empty quoted token that no argument took and all that follows    *)
(* it, which the test of cur_token_len for "too many args" lets pass.      *)
TokensOnce ==
    /\ TypeOK
    /\ \A i \in 1..Len(args) :
          /\ args[i].first = IF i = 1 THEN 1 ELSE args[i - 1].next
          /\ args[i].first <= args[i].next
    /\ state = "accepted" =>
          \E end \in {args[Len(args)].next} :
              end = Len(line) + 1 \/ (end <= Len(line) /\ line[end] \in Empty)

(* A token is what an argument of type t expects, as the client knows it.  *)
TokenFits(t, type) ==
    CASE type \in {"string", "media_type", "command"} -> t # Open
      [] type = "modifier" -> t \in Modifiers
      [] type = "number" -> t \in Numbers
      [] type = "msg_id" ->
           t \in Messages \/ (t \in DOMAIN InChat /\ known[InChat[t]] = Chat)
      [] OTHER -> t \in Names /\ known[t] = Chat /\ type \in {"chat", KindOf[t]}

(* ... and the tokens from i to j - 1 are what D describes. *)
TakesAll(D, i, j) ==
    IF D.type = "string_end"
    THEN \/ i = j
         \/ j = Len(line) + 1 /\ i < j /\ line[i] \notin Quoted \cup {Open}
         \/ j = i + 1 /\ i = Len(line) /\ line[i] \in Quoted
    ELSE /\ \A k \in i..(j - 1) : TokenFits(line[k], D.type)
         /\ i = j => D.opt
         /\ j > i + 1 => D.period

(* What a handler finds for an argument that was left out says so; an      *)
(* optional chat that was is 0 instead.                                    *)
AbsentMarked ==
    state = "accepted" =>
        \A i \in 3..Len(args) :
            Descs[i].opt /\ Descs[i].type # "chat" /\ args[i].first = args[i].next
            => args[i].mark = "absent" \/ Descs[i].type = "string_end"

(* A handler only gets arguments of the types it asked for, peers that     *)
(* have a chat and are of the right kind, all at the same moment, although *)
(* the client heard of other peers while the line waited; and it can tell  *)
(* which ones were left out.                                               *)
ArgumentsFit ==
    /\ AbsentMarked
    /\ state = "accepted" =>
        /\ Len(args) = Len(Descs)
        /\ \A i \in 1..Len(args) : TakesAll(Descs[i], args[i].first, args[i].next)

(* Where a required argument follows an optional one, as in search and     *)
(* send_file, the optional one takes what the required one needed.         *)
OptionalFirst ==
    \E i, j \in 3..Len(Descs) : i < j /\ Descs[i].opt /\ ~Descs[j].opt

(* A refused line of any other command has no reading at all, as the names *)
(* are known at that moment: always taking the first token that fits loses *)
(* no line.                                                                *)
RefusedRight ==
    state = "refused" /\ reason \in {"bad", "end", "extra"}
    /\ Len(args) >= 2 /\ ~OptionalFirst
    => LET n == Len(Descs) - 2
           last == Len(line) + 1
       IN ~ \E b \in [0..n -> args[2].next..last] :
              /\ b[0] = args[2].next /\ b[n] = last
              /\ \A i \in 1..n : b[i - 1] <= b[i] /\ TakesAll(Descs[i + 2], b[i - 1], b[i])

(* The name of a secret chat that the client knows, but not yet its chat.  *)
SecretKnown == \E n \in Names : KindOf[n] = "secret" /\ known[n] = Peer

(* A line that waits for its peers one by one comes to an end; only such a *)
(* secret chat ends the client with it.                                    *)
EveryLineEnds ==
    state = "parsing" ~> (state = "idle" \/ (state = "aborted" /\ SecretKnown))
==============================================================================
