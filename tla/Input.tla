-------------------------------- MODULE Input --------------------------------
(***************************************************************************)
(* From the bytes of a socket to lines and tokens (loop.c: read_incoming;  *)
(* interface.c: next_token, next_token_end, unescape_token).  What a       *)
(* client writes arrives in pieces of any size; a line is cut where a      *)
(* newline is found in a buffer of fixed size, and its tokens are taken    *)
(* one after the other.                                                    *)
(***************************************************************************)
EXTENDS Integers, Sequences, FiniteSets

CONSTANTS
    Letters, Space, Quotes, Backslash, NewLine, Nul, \* characters by their role
    Escapes,    \* what n, r, t, b and a stand for after a backslash
    Cap,        \* size of in_buf, 4096
    MaxSent     \* bound: characters that the client sends

Char == Letters \cup Quotes \cup {Space, Backslash, NewLine, Nul}

ASSUME InputAssumption ==
    /\ Cap \in Nat \ {0} /\ MaxSent \in Nat
    /\ Cardinality({Space, Backslash, NewLine, Nul}) = 4
    /\ Escapes \in [DOMAIN Escapes -> Char] /\ DOMAIN Escapes \subseteq Letters
    /\ Letters \cap Quotes = {}
    /\ (Letters \cup Quotes) \cap {Space, Backslash, NewLine, Nul} = {}

VARIABLES
    sent,       \* history: all that the client wrote
    unread,     \* what libevent has of it and read_incoming has not
    ready,      \* more came since read_incoming was called
    in_buf, error,
    reading,    \* read_incoming runs
    ok,         \* ... and this pass over the buffer cut a line
    lines       \* the lines that were interpreted

conn == <<in_buf, error, reading, ok, lines>>
vars == <<sent, unread, ready, conn>>

Init ==
    /\ sent = << >> /\ unread = << >> /\ ready = FALSE
    /\ in_buf = << >> /\ error = FALSE
    /\ reading = FALSE /\ ok = FALSE
    /\ lines = << >>

-----------------------------------------------------------------------------
(***************************************************************************)
(* The lines.                                                              *)
(***************************************************************************)
Least(S) == CHOOSE i \in S : \A j \in S : i <= j
Up(i, j) == IF i <= j THEN i ELSE j
First(l, n) == SubSeq(l, 1, n)
After(l, n) == SubSeq(l, n + 1, Len(l))

Places(l, c) == {i \in 1..Len(l) : l[i] = c}

(* strdup stops at a zero byte. *)
Text(l) == IF Places(l, Nul) = {} THEN l ELSE First(l, Least(Places(l, Nul)) - 1)

(* bufferevent_read into the rest of the buffer. *)
Fill ==
    LET n == Up(Cap - Len(in_buf), Len(unread))
    IN in_buf' = in_buf \o First(unread, n) /\ unread' = After(unread, n)

Send ==
    /\ ~reading /\ Len(sent) < MaxSent
    /\ \E c \in Char :
          sent' = Append(sent, c) /\ unread' = Append(unread, c)
    /\ ready' = TRUE
    /\ UNCHANGED conn

ReadIncoming ==
    /\ ready /\ ~reading
    /\ ready' = FALSE /\ reading' = TRUE /\ ok' = FALSE
    /\ Fill
    /\ UNCHANGED <<sent, error, lines>>

CutLine ==
    /\ reading /\ Places(in_buf, NewLine) # {}
    /\ LET n == Least(Places(in_buf, NewLine))
       IN /\ lines' = IF error THEN lines ELSE Append(lines, Text(First(in_buf, n - 1)))
          /\ in_buf' = After(in_buf, n)
    /\ error' = FALSE /\ ok' = TRUE
    /\ UNCHANGED <<sent, unread, ready, reading>>

(* One pass is enough. *)
NextPassNever ==
    /\ reading /\ Places(in_buf, NewLine) = {}
    /\ reading' = FALSE /\ error' = (error \/ Len(in_buf) = Cap)
    /\ UNCHANGED <<sent, ready, lines, ok, in_buf, unread>>

(* A pass that cut no line is the last; a full buffer without a newline is *)
(* an error.                                                               *)
NextPass ==
    /\ reading /\ Places(in_buf, NewLine) = {}
    /\ IF ok
       THEN Fill /\ ok' = FALSE /\ UNCHANGED <<reading, error>>
       ELSE /\ reading' = FALSE /\ error' = (error \/ Len(in_buf) = Cap)
            /\ UNCHANGED <<ok, in_buf, unread>>
    /\ UNCHANGED <<sent, ready, lines>>

Next == Send \/ ReadIncoming \/ CutLine \/ NextPass

Spec == Init /\ [][Next]_vars

-----------------------------------------------------------------------------
(***************************************************************************)
(* The tokens of a line, which has no newline or zero in it.  line_ptr is  *)
(* the index of a character, Len(l) + 1 at the end.                        *)
(***************************************************************************)
Blank == {Space}

SkipWspc(l, i) == Least({j \in i..(Len(l) + 1) : j > Len(l) \/ l[j] \notin Blank})

(* Where the loop over a quoted token that begins at i stops: esc toggles  *)
(* at each backslash.                                                      *)
QuotedEnd(l, i) ==
    LET esc[j \in i..(Len(l) + 1)] ==
            j > i /\ l[j - 1] = Backslash /\ ~esc[j - 1]
    IN Least({j \in (i + 1)..(Len(l) + 1) : j > Len(l) \/ (l[j] = l[i] /\ ~esc[j])})

(* A letter is taken for itself after a backslash. *)
MeaningPlain(c) == c

(* What a backslash makes of the character after it. *)
Meaning(c) == IF c \in DOMAIN Escapes THEN Escapes[c] ELSE c

(* Escapes stay in the text. *)
UnescapedNot(l, i, e) == [text |-> SubSeq(l, i, e - 1), stop |-> e]

(* unescape_token of the characters i to e - 1, and where its loop stops.  *)
Unescaped(l, i, e) ==
    LET read[j \in i..(e + 1)] ==
            IF j >= e THEN [text |-> << >>, stop |-> j]
            ELSE IF l[j] # Backslash
            THEN [read[j + 1] EXCEPT !.text = <<l[j]>> \o @]
            ELSE [read[j + 2] EXCEPT !.text = <<Meaning(l[j + 1])>> \o @]
    IN read[i]

(* next_token from line_ptr i: what the token is, where it begins and      *)
(* where the line goes on.                                                 *)
NextToken(l, p) ==
    LET i == SkipWspc(l, p)
        q == QuotedEnd(l, i)
        w == Least({j \in i..(Len(l) + 1) : j > Len(l) \/ l[j] \in Blank})
    IN CASE i > Len(l) -> [kind |-> "end", text |-> << >>, from |-> i, next |-> i]
         [] i <= Len(l) /\ l[i] \notin Quotes ->
              [kind |-> "plain", text |-> SubSeq(l, i, w - 1), from |-> i, next |-> w]
         [] i <= Len(l) /\ l[i] \in Quotes /\ q > Len(l) ->
              [kind |-> "open", text |-> << >>, from |-> i, next |-> q]
         [] OTHER ->
              [kind |-> "quoted", text |-> Unescaped(l, i + 1, q).text, from |-> i, next |-> q + 1]

(* All the tokens of a line. *)
Tokens(l) ==
    LET from[p \in 1..(Len(l) + 1)] ==
            LET t == NextToken(l, p)
            IN IF t.kind = "end" THEN << >> ELSE <<t>> \o from[t.next]
    IN from[1]

(* The blanks at the end are kept. *)
NextTokenEndUntrimmed(l, p) ==
    LET i == SkipWspc(l, p)
        t == NextToken(l, i)
    IN IF i <= Len(l) /\ l[i] \notin Quotes
       THEN [kind |-> "plain", text |-> SubSeq(l, i, Len(l))]
       ELSE IF SkipWspc(l, t.next) <= Len(l) THEN [kind |-> "more", text |-> << >>]
       ELSE [kind |-> t.kind, text |-> t.text]

(* next_token_end from line_ptr p: the rest of the line without the blanks *)
(* at its end, or a quoted token that nothing follows.                     *)
NextTokenEnd(l, p) ==
    LET i == SkipWspc(l, p)
        t == NextToken(l, i)
        last == Least({e \in i..Len(l) : \A j \in (e + 1)..Len(l) : l[j] \in Blank})
    IN IF i <= Len(l) /\ l[i] \notin Quotes
       THEN [kind |-> "plain", text |-> SubSeq(l, i, last)]
       ELSE IF SkipWspc(l, t.next) <= Len(l) THEN [kind |-> "more", text |-> << >>]
       ELSE [kind |-> t.kind, text |-> t.text]

-----------------------------------------------------------------------------
TypeOK ==
    /\ sent \in Seq(Char) /\ Len(sent) <= MaxSent
    /\ unread \in Seq(Char) /\ in_buf \in Seq(Char)
    /\ Len(in_buf) <= Cap
    /\ {ready, reading, ok, error} \subseteq BOOLEAN
    /\ lines \in Seq(Seq(Char \ {NewLine, Nul}))

(* What was sent, newline by newline; the last piece has none yet.         *)
Pieces ==
    LET ends == Places(sent, NewLine) \cup {0}
        End(k) == CHOOSE e \in ends : Cardinality({f \in ends : f < e}) = k - 1
        n == Cardinality(ends)
    IN [k \in 1..n |->
          IF k = n THEN After(sent, End(k)) ELSE SubSeq(sent, End(k) + 1, End(k + 1) - 1)]

(* The first piece that does not fit into the buffer with its newline.     *)
Fitting == {k \in 1..Len(Pieces) : \A j \in 1..k : Len(Pieces[j]) < Cap}

(* Nothing is lost or read twice between the socket and the buffer.        *)
StreamKept ==
    /\ Len(in_buf) + Len(unread) <= Len(sent)
    /\ in_buf \o unread = After(sent, Len(sent) - Len(in_buf) - Len(unread))

(* However the bytes arrived, the client has interpreted each line once    *)
(* and in order, up to the first that fills the buffer: that one is the    *)
(* end of the connection, since nothing is read into a full buffer.        *)
LinesRight ==
    /\ TypeOK /\ StreamKept
    /\ ~ready /\ ~reading =>
         /\ lines = [k \in 1..Cardinality(Fitting \ {Len(Pieces)}) |-> Text(Pieces[k])]
         /\ error = (Cardinality(Fitting) < Len(Pieces))

(* One pass over the characters, with the state of an automaton.           *)
Step(s, c) ==
    CASE s.mode = "blank" /\ c \in Blank -> s
      [] s.mode = "blank" /\ c \in Quotes -> [s EXCEPT !.mode = "quoted", !.quote = c]
      [] s.mode = "blank" /\ c \notin Blank \cup Quotes -> [s EXCEPT !.mode = "plain", !.text = <<c>>]
      [] s.mode = "plain" /\ c \notin Blank -> [s EXCEPT !.text = Append(@, c)]
      [] s.mode = "quoted" /\ c = Backslash -> [s EXCEPT !.mode = "escaped"]
      [] s.mode = "quoted" /\ c \notin {Backslash, s.quote} -> [s EXCEPT !.text = Append(@, c)]
      [] s.mode = "escaped" -> [s EXCEPT !.mode = "quoted",
                                 !.text = Append(@, IF c \in DOMAIN Escapes THEN Escapes[c] ELSE c)]
      [] OTHER -> [s EXCEPT !.mode = "blank", !.text = << >>,
                              !.read = Append(@, [kind |-> s.mode, text |-> s.text])]

Automaton(l) ==
    LET after[n \in 0..Len(l)] ==
            IF n = 0 THEN [mode |-> "blank", quote |-> Space, text |-> << >>, read |-> << >>]
            ELSE Step(after[n - 1], l[n])
        s == after[Len(l)]
    IN CASE s.mode = "blank" -> s.read
         [] s.mode = "plain" -> Append(s.read, [kind |-> "plain", text |-> s.text])
         [] OTHER -> Append(s.read, [kind |-> "open", text |-> << >>])

Read(l) == [k \in 1..Len(Tokens(l)) |-> [kind |-> Tokens(l)[k].kind, text |-> Tokens(l)[k].text]]

NewLines == IF lines = << >> THEN {} ELSE {lines[Len(lines)]}

Escaped(q, l) ==
    LET esc[n \in 0..Len(l)] ==
            IF n = 0 THEN << >>
            ELSE esc[n - 1] \o (IF l[n] \in {q, Backslash} THEN <<Backslash, l[n]>> ELSE <<l[n]>>)
    IN <<q>> \o esc[Len(l)] \o <<q>>

(* Any text can be written as one argument.                                *)
TextsExpressible ==
    \A l \in NewLines, q \in Quotes :
        /\ Read(Escaped(q, l)) = <<[kind |-> "quoted", text |-> l]>>
        /\ NextTokenEnd(Escaped(q, l), 1) = [kind |-> "quoted", text |-> l]

(* The two loops over a quoted token, one that finds its end and one that  *)
(* takes its escapes out, agree on what is escaped: together they read the *)
(* line as an automaton would, and any text can be written as an argument. *)
TokensRight == TextsExpressible /\ \A l \in NewLines : Read(l) = Automaton(l)

(* The rest of a line as one argument: the line without the blanks around  *)
(* it, unless it is quoted, and then nothing may follow.                   *)
RestRight ==
    \A l \in NewLines :
        LET r == NextTokenEnd(l, 1)
        IN CASE r.kind = "plain" ->
                  /\ r.text # << >> /\ r.text[Len(r.text)] \notin Blank
                  /\ \E i, j \in 0..Len(l) :
                        /\ l = First(l, i) \o r.text \o After(l, j)
                        /\ \A k \in (1..i) \cup ((j + 1)..Len(l)) : l[k] \in Blank
             [] r.kind = "more" -> Len(Read(l)) > 1
             [] r.kind = "end" -> Read(l) = << >>
             [] OTHER -> Read(l) = <<r>>
==============================================================================
