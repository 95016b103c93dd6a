--------------------------- MODULE ArgumentsProofs ---------------------------
(***************************************************************************)
(* Proofs about Arguments: whatever lines are typed and whatever tdlib     *)
(* knows, each token of an accepted line goes to one argument, each        *)
(* argument is of the type that its handler asked for, and a line that is  *)
(* refused can be read in no other way.                                    *)
(***************************************************************************)
EXTENDS Arguments, FiniteSetTheorems, WellFoundedInduction, SequenceTheorems, TLAPS

(* What a reading hands on. *)
Marks == {"taken", "absent", "zero"}

(* An argument took the tokens from i to j - 1, and could not go on. *)
Far(D, i, j) ==
    IF D.type = "string_end" THEN j = Len(line) + 1
    ELSE j <= Len(line) /\ (i = j \/ D.period) => ~TokenFits(line[j], D.type)

(* An argument that is required has nothing to take at i. *)
Stuck(D, i) ==
    IF D.type = "string_end"
    THEN i <= Len(line) /\ (line[i] = Open \/ (line[i] \in Quoted /\ i < Len(line)))
    ELSE ~D.opt /\ (i <= Len(line) => ~TokenFits(line[i], D.type))

(* A reading of one token, or of the rest of the line. *)
OneRead(D, i, o) ==
    /\ o.r \in {"ok", "bad", "end", "skip", "wait", "abort"}
    /\ o.mark \in Marks
    /\ o.first = i
    /\ o.r = "ok" => /\ o.next \in i..(Len(line) + 1)
                     /\ D.type # "string_end" =>
                          o.next = i + 1 /\ i <= Len(line) /\ TokenFits(line[i], D.type)
                     /\ D.type = "string_end" => TakesAll(D, i, o.next)
    /\ o.r = "skip" => D.type # "string_end" /\ (D.opt \/ D.period)
    /\ o.r \in {"skip", "end"} =>
         /\ o.next = i
         /\ o.mark = "absent" \/ D.type = "chat"
    /\ o.r = "wait" => i <= Len(line) /\ NameIn(line[i]) \in Names
    /\ D.type = "string_end" => o.r \in {"ok", "bad"} /\ (o.r = "ok" => o.next = Len(line) + 1)
    /\ o.r = "bad" => (D.type = "string_end" \/ (~D.opt /\ ~D.period))
                      /\ (D.type = "string_end" => Stuck(D, i))
    /\ o.r # "ok" /\ D.type # "string_end" /\ i <= Len(line) => ~TokenFits(line[i], D.type)

(* One entry of a description of arguments. *)
LEMMA DescriptionFacts ==
    ASSUME NEW D \in Description
    PROVE  /\ D.type \in Types /\ D.opt \in BOOLEAN /\ D.period \in BOOLEAN
           /\ D.period => D.type # "string_end"
           /\ D.type = "modifier" => D.opt
BY DEF Description, Desc

(* A token that is found fits; one that is asked for names a peer.         *)
LEMMA ReadingFacts ==
    ASSUME TypeOK, NEW t \in Token,
           NEW type \in Types \ {"string", "media_type", "command", "string_end"}
    PROVE  /\ Reading(t, type) \in {"found", "ask", "none", "abort"}
           /\ Reading(t, type) = "found" <=> TokenFits(t, type)
           /\ Reading(t, type) = "ask" => NameIn(t) \in Names
           /\ TokenFits(t, type) => t \notin Quoted \cup {Open}
<1>1. ASSUME NEW n, NEW ty
      PROVE  /\ ReadPeer(n, ty) \in {"found", "ask", "none", "abort"}
             /\ ReadPeer(n, ty) = "found" <=>
                  n \in Names /\ known[n] = Chat /\ ty \in {"chat", KindOf[n]}
             /\ ReadPeer(n, ty) = "ask" => n \in Names
  BY DEF ReadPeer, Fits, AsksById, Chat, Peer
<1>2. CASE type = "modifier"
  BY <1>2, ArgumentsAssumption DEF Reading, TokenFits
<1>3. CASE type = "number"
  BY <1>3, ArgumentsAssumption DEF Reading, TokenFits
<1>4. CASE type = "msg_id"
  <2>1. CASE t \in DOMAIN InChat
    <3>1. InChat[t] \in Names
      BY <2>1, ArgumentsAssumption
    <3>2. t \notin Messages /\ t \notin Quoted \cup {Open}
      BY <2>1, ArgumentsAssumption
    <3> QED BY <1>1, <1>4, <2>1, <3>1, <3>2 DEF Reading, TokenFits, NameIn
  <2>2. CASE t \notin DOMAIN InChat
    BY <1>4, <2>2, ArgumentsAssumption DEF Reading, TokenFits
  <2> QED BY <2>1, <2>2
<1>5. CASE type \notin {"modifier", "number", "msg_id"}
  <2>1. Reading(t, type) = ReadPeer(t, type)
    BY <1>5 DEF Reading
  <2>2. TokenFits(t, type) <=>
          t \in Names /\ known[t] = Chat /\ type \in {"chat", KindOf[t]}
    BY <1>5 DEF TokenFits
  <2>3. t \in Names => t \notin Quoted \cup {Open}
    BY ArgumentsAssumption
  <2> QED BY <1>1, <2>1, <2>2, <2>3 DEF NameIn
<1> QED BY <1>2, <1>3, <1>4, <1>5

(* One read of a plain token or of a rest-of-line argument stays in the line and moves past
   what it returns. *)
LEMMA ReadAnyFacts ==
    ASSUME TypeOK, NEW D \in Description, NEW i \in 1..(Len(line) + 1)
    PROVE  OneRead(D, i, ReadAny(D, i))
<1>t. line \in Seq(Token) /\ Len(line) \in Nat
  BY LenProperties DEF TypeOK
<1>a. line \in Seq(Token) /\ Len(line) \in Nat /\ i \in Nat /\ 1 <= i /\ i <= Len(line) + 1
  BY <1>t
<1>b. ~Ended(i) => i \in 1..Len(line)
  BY <1>a DEF Ended
<1>c. ~Ended(i) => line[i] \in Token
  BY <1>a, <1>b, ElementOfSeq
<1>0. Len(line) \in Nat /\ i \in Nat /\ (~Ended(i) => i <= Len(line) /\ line[i] \in Token)
  BY <1>a, <1>b, <1>c
<1> USE DescriptionFacts
<1>1. CASE D.type \in {"string", "media_type", "command"}
  BY <1>0, <1>1 DEF ReadAny, ReadString, Leave, Miss, Take, OneRead, TokenFits, Marks, Ended
<1>2. CASE D.type = "string_end"
  <2>1. ReadAny(D, i) = ReadRest(i)
    BY <1>2 DEF ReadAny
  <2>2. CASE Ended(i)
    BY <1>0, <1>2, <2>1, <2>2 DEF ReadRest, Take, OneRead, TakesAll, Marks, Ended
  <2>3. CASE ~Ended(i) /\ line[i] \notin Quoted \cup {Open}
    BY <1>0, <1>2, <2>1, <2>3 DEF ReadRest, Take, OneRead, TakesAll, Marks
  <2>4. CASE ~Ended(i) /\ line[i] \in Quoted /\ line[i] # Open /\ i = Len(line)
    <3>1. ReadRest(i) = Take(i, i + 1)
      BY <2>4 DEF ReadRest
    <3> QED BY <1>0, <1>2, <2>1, <2>4, <3>1 DEF Take, OneRead, TakesAll, Marks
  <2>5. CASE /\ ~Ended(i) /\ line[i] \in Quoted \cup {Open}
             /\ line[i] = Open \/ i # Len(line)
    <3>1. ReadRest(i) = Leave("bad", i, "absent")
      BY <2>5 DEF ReadRest
    <3>2. Stuck(D, i)
      BY <1>0, <1>2, <2>5 DEF Stuck
    <3> QED BY <1>0, <1>2, <2>1, <2>5, <3>1, <3>2 DEF Leave, OneRead, Marks
  <2> QED BY <2>2, <2>3, <2>4, <2>5
<1>3. CASE D.type \notin {"string", "media_type", "command", "string_end"}
  <2>1. ReadAny(D, i) = ReadPlain(D, i)
    BY <1>3 DEF ReadAny
  <2>2. CASE Ended(i)
    BY <1>0, <1>3, <2>1, <2>2 DEF ReadPlain, Leave, OneRead, Marks, Ended
  <2>3. CASE ~Ended(i)
    <3>1. /\ Reading(line[i], D.type) \in {"found", "ask", "none", "abort"}
          /\ Reading(line[i], D.type) = "found" <=> TokenFits(line[i], D.type)
          /\ Reading(line[i], D.type) = "ask" => NameIn(line[i]) \in Names
          /\ TokenFits(line[i], D.type) => line[i] \notin Quoted \cup {Open}
      BY <1>0, <1>3, <2>3, ReadingFacts
    <3> QED BY <1>0, <1>3, <2>1, <2>3, <3>1
            DEF ReadPlain, Leave, Miss, Take, OneRead, Marks
  <2> QED BY <2>2, <2>3
<1> QED BY <1>1, <1>2, <1>3

(* A set of numbers has a least one. *)
LEMMA LeastNumber ==
    ASSUME NEW S \in SUBSET Nat, S # {}
    PROVE  \E m \in S : \A k \in S : m <= k
<1> DEFINE R == OpToRel(<, Nat)
<1>1. IsWellFoundedOn(R, Nat)
  BY NatLessThanWellFounded
<1>2. PICK m \in S : \A k \in S : <<k, m>> \notin R
  <2> HIDE DEF R
  <2> QED BY <1>1, WFMin
<1>3. \A k \in S : ~ (k < m)
  BY <1>2 DEF OpToRel
<1> QED BY <1>3

(* How many tokens a repeated argument takes is well defined: reading      *)
(* stops at the end of the line.                                           *)
LEMMA ReadManyFacts ==
    ASSUME TypeOK, NEW D \in Description, D.period, NEW i \in 1..(Len(line) + 1)
    PROVE  \E n \in 0..(Len(line) + 1 - i) :
             /\ \A j \in 0..(n - 1) : ReadAny(D, i + j).r = "ok"
             /\ ReadAny(D, i + n).r # "ok"
             /\ ReadMany(D, i) =
                  LET last == ReadAny(D, i + n).r IN
                  IF last \in {"wait", "abort"} THEN Leave(last, i + n, "absent")
                  ELSE IF n > 0 THEN Take(i, i + n)
                  ELSE Leave(IF last = "end" THEN "end"
                             ELSE IF D.opt THEN "skip" ELSE "bad", i, "absent")
<1>1. Len(line) \in Nat /\ i \in Nat /\ 1 <= i /\ i <= Len(line) + 1
  <2>1. Len(line) \in Nat
    BY LenProperties DEF TypeOK
  <2> QED BY <2>1
<1>2. D.type # "string_end"
  BY DescriptionFacts
<1> DEFINE Stops(k) == /\ \A j \in 0..(k - 1) : ReadAny(D, i + j).r = "ok"
                       /\ ReadAny(D, i + k).r # "ok"
           room == Len(line) + 1 - i
           S == {k \in 0..room : ReadAny(D, i + k).r # "ok"}
           n == CHOOSE k \in 0..Len(line) : Stops(k)
<1>3. ReadAny(D, Len(line) + 1).r # "ok"
  <2>1. Len(line) + 1 \in 1..(Len(line) + 1)
    BY <1>1
  <2>2. OneRead(D, Len(line) + 1, ReadAny(D, Len(line) + 1))
    BY <2>1, ReadAnyFacts
  <2>3. ReadAny(D, Len(line) + 1).r = "ok" => Len(line) + 1 <= Len(line)
    BY <1>2, <2>2 DEF OneRead
  <2> QED BY <1>1, <2>3
<1>4. room \in S
  <2>1. i + room = Len(line) + 1 /\ room \in 0..room
    BY <1>1
  <2>2. ReadAny(D, i + room) = ReadAny(D, Len(line) + 1)
    <3> HIDE DEF room
    <3> QED BY <2>1
  <2>3. ReadAny(D, i + room).r # "ok"
    BY <1>3, <2>2
  <2> HIDE DEF room
  <2> QED BY <2>1, <2>3
<1>5. PICK m \in S : \A k \in S : m <= k
  <2>1. S \subseteq Nat
    OBVIOUS
  <2> HIDE DEF S
  <2> QED BY <1>4, <2>1, LeastNumber
<1>6. m \in 0..Len(line) /\ Stops(m)
  <2>1. m \in Nat /\ m <= room /\ room \in Nat
    BY <1>1, <1>5
  <2>2. ASSUME NEW j \in 0..(m - 1) PROVE ReadAny(D, i + j).r = "ok"
    <3>1. j \in 0..room /\ ~(m <= j)
      BY <2>1
    <3>2. j \notin S
      BY <1>5, <3>1
    <3> QED BY <3>1, <3>2
  <2> QED BY <1>1, <1>5, <2>1, <2>2
<1>7. n \in 0..Len(line) /\ Stops(n)
  <2> HIDE DEF Stops
  <2> QED BY <1>6
<1>8. n \in 0..room
  <2>1. SUFFICES ASSUME n > room PROVE FALSE
    BY <1>1, <1>7
  <2>2. room \in 0..(n - 1)
    BY <1>1, <1>7, <2>1
  <2>3. i + room = Len(line) + 1
    BY <1>1
  <2> HIDE DEF n, room
  <2> QED BY <1>3, <1>7, <2>2, <2>3
<1>9. ReadMany(D, i) =
        LET last == ReadAny(D, i + n).r IN
        IF last \in {"wait", "abort"} THEN Leave(last, i + n, "absent")
        ELSE IF n > 0 THEN Take(i, i + n)
        ELSE Leave(IF last = "end" THEN "end"
                   ELSE IF D.opt THEN "skip" ELSE "bad", i, "absent")
  BY DEF ReadMany
<1> HIDE DEF n
<1> QED BY <1>7, <1>8, <1>9

(* What parse_command_line gets for an argument. *)
OneArgument(D, i, o) ==
    /\ o.r \in {"ok", "bad", "end", "wait", "abort"}
    /\ o.r = "ok" =>
         /\ o.first = i /\ o.next \in i..(Len(line) + 1) /\ o.mark \in Marks
         /\ TakesAll(D, i, o.next)
         /\ D.opt /\ D.type # "chat" /\ i = o.next =>
              o.mark = "absent" \/ D.type = "string_end"
    /\ o.r = "wait" => o.first \in 1..Len(line) /\ NameIn(line[o.first]) \in Names
    /\ o.r = "ok" => Far(D, i, o.next)
    /\ o.r \in {"bad", "end"} => Stuck(D, i)

(* The same of a read with the optional number of a msg_id or of a period after it. *)
LEMMA ReadFacts ==
    ASSUME TypeOK, NEW D \in Description, NEW i \in 1..(Len(line) + 1)
    PROVE  OneArgument(D, i, Read(D, i))
<1>1. Len(line) \in Nat /\ i \in Nat /\ 1 <= i /\ i <= Len(line) + 1
  <2>1. Len(line) \in Nat
    BY LenProperties DEF TypeOK
  <2> QED BY <2>1
<1>2. CASE ~D.period
  <2> DEFINE o == ReadAny(D, i)
  <2>1. OneRead(D, i, o)
    BY ReadAnyFacts
  <2>2. Read(D, i) = IF o.r = "skip" \/ (o.r = "end" /\ D.opt) THEN [o EXCEPT !.r = "ok"] ELSE o
    BY <1>2 DEF Read
  <2>3. \A j : j = i => (D.type = "string_end" => TakesAll(D, i, j))
    BY DEF TakesAll
  <2>4. D.opt /\ D.type # "string_end" => TakesAll(D, i, i)
    BY <1>1 DEF TakesAll
  <2>5. D.type # "string_end" /\ i <= Len(line) /\ TokenFits(line[i], D.type)
        => TakesAll(D, i, i + 1)
    BY <1>1 DEF TakesAll
  <2>6. [o EXCEPT !.r = "ok"].first = o.first /\ [o EXCEPT !.r = "ok"].next = o.next
        /\ [o EXCEPT !.r = "ok"].mark = o.mark /\ [o EXCEPT !.r = "ok"].r = "ok"
    BY DEF ReadAny, ReadString, ReadRest, ReadPlain, Leave, Miss, Take
  <2>7. D.type = "modifier" => D.opt
    BY DescriptionFacts
  <2> HIDE DEF o
  <2>8. CASE o.r = "skip" \/ (o.r = "end" /\ D.opt)
    <3>1. D.opt /\ o.next = i /\ o.first = i /\ (o.mark = "absent" \/ D.type = "chat")
      BY <1>2, <2>1, <2>7, <2>8 DEF OneRead
    <3>2. TakesAll(D, i, i)
      BY <2>3, <2>4, <3>1
    <3>3. D.type # "string_end" /\ (i <= Len(line) => ~TokenFits(line[i], D.type))
      BY <2>1, <2>8 DEF OneRead
    <3>4. Far(D, i, i)
      BY <3>3 DEF Far
    <3>5. Read(D, i) = [o EXCEPT !.r = "ok"]
      BY <2>2, <2>8
    <3>6. /\ Read(D, i).r = "ok" /\ Read(D, i).first = i /\ Read(D, i).next = i
          /\ Read(D, i).mark = o.mark
      BY <2>6, <3>1, <3>5
    <3>7. o.mark \in Marks
      BY <2>1 DEF OneRead
    <3> QED BY <1>1, <3>1, <3>2, <3>4, <3>6, <3>7 DEF OneArgument
  <2>9. CASE ~(o.r = "skip" \/ (o.r = "end" /\ D.opt))
    <3>1. Read(D, i) = o
      BY <2>2, <2>9
    <3>2. o.r = "ok" => TakesAll(D, i, o.next)
      BY <2>1, <2>5 DEF OneRead
    <3>3. o.r = "ok" /\ D.type # "string_end" => o.next # i
      BY <1>1, <2>1 DEF OneRead
    <3>4. o.r \in {"ok", "bad", "end", "wait", "abort"}
      BY <2>1, <2>9 DEF OneRead
    <3>5. o.r = "wait" => o.first \in 1..Len(line) /\ NameIn(line[o.first]) \in Names
      BY <1>1, <2>1 DEF OneRead
    <3>6. o.r = "ok" => Far(D, i, o.next)
      BY <1>1, <1>2, <2>1, <3>3 DEF OneRead, Far
    <3>7. o.r \in {"bad", "end"} => Stuck(D, i)
      BY <2>1, <2>9 DEF OneRead, Stuck
    <3>8. o.first = i /\ o.mark \in Marks /\ (o.r = "ok" => o.next \in i..(Len(line) + 1))
      BY <2>1 DEF OneRead
    <3> QED BY <3>1, <3>2, <3>3, <3>4, <3>5, <3>6, <3>7, <3>8 DEF OneArgument
  <2> QED BY <2>8, <2>9
<1>3. CASE D.period
  <2>1. PICK n \in 0..(Len(line) + 1 - i) :
             /\ \A j \in 0..(n - 1) : ReadAny(D, i + j).r = "ok"
             /\ ReadAny(D, i + n).r # "ok"
             /\ ReadMany(D, i) =
                  LET last == ReadAny(D, i + n).r IN
                  IF last \in {"wait", "abort"} THEN Leave(last, i + n, "absent")
                  ELSE IF n > 0 THEN Take(i, i + n)
                  ELSE Leave(IF last = "end" THEN "end"
                             ELSE IF D.opt THEN "skip" ELSE "bad", i, "absent")
    BY <1>3, ReadManyFacts
  <2>2. n \in Nat /\ i + n \in 1..(Len(line) + 1)
    BY <1>1, <2>1
  <2>3. D.type # "string_end"
    BY <1>3, DescriptionFacts
  <2>4. \A k \in i..(i + n - 1) : TokenFits(line[k], D.type)
    <3>1. TAKE k \in i..(i + n - 1)
    <3>2. k - i \in 0..(n - 1) /\ i + (k - i) = k /\ k \in 1..(Len(line) + 1)
      BY <1>1, <2>2
    <3>3. ReadAny(D, i + (k - i)).r = "ok"
      BY <2>1, <3>2
    <3>4. ReadAny(D, k).r = "ok"
      BY <3>2, <3>3
    <3> QED BY <2>3, <3>2, <3>4, ReadAnyFacts DEF OneRead
  <2>5. n > 0 => TakesAll(D, i, i + n)
    BY <1>1, <1>3, <2>2, <2>3, <2>4 DEF TakesAll
  <2>6. D.opt => TakesAll(D, i, i)
    BY <1>1, <2>3 DEF TakesAll
  <2> DEFINE last == ReadAny(D, i + n)
  <2>7. OneRead(D, i + n, last)
    BY <2>2, ReadAnyFacts
  <2>8. Read(D, i) = LET o == ReadMany(D, i) IN
          IF o.r = "skip" \/ (o.r = "end" /\ D.opt) THEN [o EXCEPT !.r = "ok"] ELSE o
    BY <1>3 DEF Read
  <2>f. i + n <= Len(line) => ~TokenFits(line[i + n], D.type)
    BY <2>1, <2>3, <2>7 DEF OneRead
  <2>g. Far(D, i, i + n)
    BY <1>3, <2>3, <2>f DEF Far
  <2> HIDE DEF last
  <2>9. CASE last.r = "wait"
    <3>1. Read(D, i) = Leave("wait", i + n, "absent")
      BY <2>1, <2>8, <2>9 DEF Leave, last
    <3>2. i + n \in 1..Len(line) /\ NameIn(line[i + n]) \in Names
      BY <1>1, <2>2, <2>7, <2>9 DEF OneRead
    <3> QED BY <3>1, <3>2 DEF OneArgument, Leave
  <2>12. CASE last.r = "abort"
    <3>1. Read(D, i) = Leave("abort", i + n, "absent")
      BY <2>1, <2>8, <2>12 DEF Leave, last
    <3> QED BY <3>1 DEF OneArgument, Leave
  <2>10. CASE last.r \notin {"wait", "abort"} /\ n > 0
    <3>1. Read(D, i) = Take(i, i + n)
      BY <2>1, <2>8, <2>10 DEF Take, last
    <3> QED BY <1>1, <2>2, <2>5, <2>10, <2>g, <3>1 DEF OneArgument, Take, Marks
  <2>11. CASE last.r \notin {"wait", "abort"} /\ ~(n > 0)
    <3>1. ReadMany(D, i) = Leave(IF last.r = "end" THEN "end"
                                 ELSE IF D.opt THEN "skip" ELSE "bad", i, "absent")
      BY <2>1, <2>11 DEF last
    <3>z. n = 0 /\ i + n = i
      BY <1>1, <2>2, <2>11
    <3>2. CASE D.opt
      <4>1. Read(D, i) = Leave("ok", i, "absent")
        BY <2>8, <3>1, <3>2 DEF Leave
      <4>2. Far(D, i, i)
        BY <2>g, <3>z
      <4> QED BY <1>1, <2>6, <3>2, <4>1, <4>2 DEF OneArgument, Leave, Marks
    <3>3. CASE ~D.opt
      <4>1. Read(D, i).r \in {"end", "bad"}
        BY <2>8, <3>1, <3>3 DEF Leave
      <4>2. Stuck(D, i)
        BY <2>3, <2>f, <3>3, <3>z DEF Stuck
      <4> QED BY <4>1, <4>2 DEF OneArgument
    <3> QED BY <3>2, <3>3
  <2> QED BY <2>9, <2>10, <2>11, <2>12
<1> QED BY <1>2, <1>3

-----------------------------------------------------------------------------
(***************************************************************************)
(* The inductive invariant.  While the line is read, the arguments so far  *)
(* are a prefix of a reading of it that fits what the client knows; what   *)
(* it knows only changes when the line waits, and is then read anew.       *)
(***************************************************************************)
Interpreted ==
    \/ state \in {"parsing", "accepted"}
    \/ state = "refused" /\ reason \in {"bad", "end", "extra"}

(* line_ptr is where the last argument ended. *)
ChainAt == at = IF args = << >> THEN 1 ELSE args[Len(args)].next

(* The second argument is the name of a command. *)
CommandKnown ==
    Len(args) >= 2 => args[2].first \in 1..Len(line) /\ line[args[2].first] \in DOMAIN Table

Chain ==
    \A i \in 1..Len(args) :
        /\ args[i].first = IF i = 1 THEN 1 ELSE args[i - 1].next
        /\ args[i].first <= args[i].next

TakenFit == Interpreted =>
    \A i \in 1..Len(args) : TakesAll(Descs[i], args[i].first, args[i].next)

Marked == Interpreted =>
    \A i \in 3..Len(args) :
        Descs[i].opt /\ Descs[i].type # "chat" /\ args[i].first = args[i].next
        => args[i].mark = "absent" \/ Descs[i].type = "string_end"

(* What was taken is as much as could be.                                  *)
Greedy == Interpreted =>
    \A i \in 3..Len(args) : Far(Descs[i], args[i].first, args[i].next)

(* Why a line is refused. *)
WhyRefused ==
    state = "refused" =>
        /\ reason \in {"bad", "end"} =>
             Len(args) < Len(Descs) /\ Stuck(Descs[Len(args) + 1], at)
        /\ reason = "extra" => Len(args) = Len(Descs) /\ ~Ended(at)

InTable == Len(args) <= Len(Descs)

(* An accepted line has all the arguments of its command, and nothing else *)
(* before its end or an empty token.                                       *)
Complete ==
    state = "accepted" => Len(args) = Len(Descs) /\ (Ended(at) \/ line[at] \in Empty)

AwaitsName == state = "waiting" => awaited \in Names

IInv == /\ TypeOK /\ ChainAt /\ CommandKnown /\ Chain /\ TakenFit
        /\ Marked /\ Greedy /\ WhyRefused /\ InTable /\ Complete /\ AwaitsName

(* What the arguments a of the line l are described by. *)
Modifier == [type |-> "modifier", opt |-> TRUE, period |-> TRUE]
CommandName == [type |-> "command", opt |-> FALSE, period |-> FALSE]

DescsOf(l, a) ==
    <<Modifier, CommandName>> \o IF Len(a) < 2 THEN << >> ELSE Table[l[a[2].first]]

(* The description in force starts with the modifier and the command's name, and the table
   gives the rest once the name has been read. *)
LEMMA DescsFacts ==
    ASSUME NEW l \in Seq(Token), NEW a \in Seq(Argument),
           Len(a) >= 2 => l[a[2].first] \in DOMAIN Table
    PROVE  LET ds == DescsOf(l, a) IN
           /\ ds \in Seq(Description) /\ Len(ds) \in Nat /\ Len(ds) >= 2
           /\ ds[1] = Modifier /\ ds[2] = CommandName
           /\ Len(a) < 2 => Len(ds) = 2
<1> DEFINE first == <<Modifier, CommandName>>
           rest == IF Len(a) < 2 THEN << >> ELSE Table[l[a[2].first]]
<1>1. Len(a) \in Nat
  BY LenProperties
<1>2. Modifier \in Description /\ CommandName \in Description
  BY DEF Description, Desc, Types, Modifier, CommandName
<1>3. first \in Seq(Description) /\ Len(first) = 2
      /\ first[1] = Modifier /\ first[2] = CommandName
  BY <1>2
<1>4. rest \in Seq(Description)
  <2>1. CASE Len(a) < 2
    BY <2>1, EmptySeq
  <2>2. CASE ~(Len(a) < 2)
    <3>1. l[a[2].first] \in DOMAIN Table
      BY <1>1, <2>2
    <3>2. Table[l[a[2].first]] \in Seq(Description)
      BY <3>1, TableAssumption
    <3> QED BY <2>2, <3>2
  <2> QED BY <2>1, <2>2
<1>5. DescsOf(l, a) = first \o rest
  BY DEF DescsOf
<1>6. Len(a) < 2 => Len(rest) = 0
  OBVIOUS
<1> HIDE DEF first, rest
<1>7. Len(rest) \in Nat
  BY <1>4, LenProperties
<1>8. /\ first \o rest \in Seq(Description)
      /\ Len(first \o rest) = Len(first) + Len(rest)
      /\ \A i \in 1..(Len(first) + Len(rest)) :
           (first \o rest)[i] = IF i <= Len(first) THEN first[i] ELSE rest[i - Len(first)]
  BY <1>3, <1>4, ConcatProperties
<1>9. (first \o rest)[1] = first[1] /\ (first \o rest)[2] = first[2]
  BY <1>3, <1>7, <1>8
<1> QED BY <1>3, <1>5, <1>6, <1>7, <1>8, <1>9

(* As the arguments grow, what is expected next is settled once.           *)
LEMMA DescsStay ==
    ASSUME NEW l \in Seq(Token), NEW a \in Seq(Argument), NEW b \in Seq(Argument),
           Len(a) >= 2 => l[a[2].first] \in DOMAIN Table,
           Len(b) >= 2 => l[b[2].first] \in DOMAIN Table,
           Len(a) >= 2 => Len(b) >= 2 /\ b[2] = a[2]
    PROVE  /\ Len(DescsOf(l, a)) <= Len(DescsOf(l, b))
           /\ \A i \in 1..Len(DescsOf(l, a)) : DescsOf(l, b)[i] = DescsOf(l, a)[i]
<1>1. Len(a) \in Nat /\ Len(b) \in Nat
  BY LenProperties
<1>2. CASE Len(a) >= 2
  <2>1. ~(Len(a) < 2) /\ ~(Len(b) < 2) /\ b[2] = a[2]
    BY <1>1, <1>2
  <2>2. DescsOf(l, b) = DescsOf(l, a)
    BY <2>1, Zenon DEF DescsOf
  <2>3. Len(DescsOf(l, a)) \in Nat
    BY DescsFacts
  <2> QED BY <2>2, <2>3
<1>3. CASE Len(a) < 2
  <2>1. /\ Len(DescsOf(l, a)) = 2
        /\ DescsOf(l, a)[1] = Modifier /\ DescsOf(l, a)[2] = CommandName
    BY <1>3, DescsFacts
  <2>2. /\ Len(DescsOf(l, b)) \in Nat /\ Len(DescsOf(l, b)) >= 2
        /\ DescsOf(l, b)[1] = Modifier /\ DescsOf(l, b)[2] = CommandName
    BY DescsFacts
  <2>3. \A i \in 1..2 : i = 1 \/ i = 2
    OBVIOUS
  <2> QED BY <2>1, <2>2, <2>3
<1> QED BY <1>1, <1>2, <1>3

(* Descs, written as an operator of the two variables it depends on. *)
LEMMA DescsAre == Descs = DescsOf(line, args)
BY DEF Descs, DescsOf, Modifier, CommandName

(* Nothing is read yet: the invariant holds at the start of a line. *)
LEMMA InitIInv == Init => IInv
<1> SUFFICES ASSUME Init PROVE IInv
  OBVIOUS
<1>1. TypeOK
  <2>1. << >> \in Seq(Token) /\ Len(<< >>) = 0 /\ << >> \in Seq(Argument)
    BY EmptySeq
  <2>2. line = << >> /\ args = << >> /\ Len(line) = 0 /\ at \in 1..(Len(line) + 1)
    BY <2>1 DEF Init
  <2> QED BY <2>1, <2>2, ArgumentsAssumption DEF Init, TypeOK, Knowledge, NoName
<1>2. Len(args) = 0 /\ args = << >>
  BY DEF Init
<1>3. line = << >> /\ line \in Seq(Token) /\ args \in Seq(Argument)
  BY <1>1 DEF Init, TypeOK
<1>4. Len(Descs) = 2
  <2>1. ~(Len(args) >= 2) /\ Len(args) < 2
    BY <1>2
  <2>2. Len(DescsOf(line, args)) = 2
    BY <1>3, <2>1, DescsFacts
  <2> QED BY <2>2, DescsAre
<1> QED
  BY <1>1, <1>2, <1>3, <1>4, EmptySeq
     DEF Init, IInv, ChainAt, CommandKnown, Chain, TakenFit, Marked,
         Greedy, WhyRefused, InTable, Complete, AwaitsName, Interpreted

(* A line that is refused keeps what it has, and the reason is true. *)
LEMMA RefuseStep ==
    ASSUME IInv, NEW why \in {"bad", "end", "unknown", "extra", "resolve"},
           why \in {"bad", "end", "extra"} => state = "parsing",
           why \in {"bad", "end"} =>
               Len(args) < Len(Descs) /\ Stuck(Descs[Len(args) + 1], at),
           why = "extra" => Len(args) = Len(Descs) /\ ~Ended(at),
           Refuse(why), UNCHANGED <<known, changes>>
    PROVE  IInv'
<1>1. TypeOK'
  BY DEF IInv, TypeOK, Refuse
<1>2. Descs' = Descs
  BY DEF Refuse, Descs
<1>3. UNCHANGED <<known, line, at, args>> /\ state' = "refused" /\ reason' = why
  BY DEF Refuse
<1>t. known' = known /\ line' = line
  BY <1>3
<1>f. ASSUME NEW k, NEW ty PROVE TokenFits(line[k], ty)' <=> TokenFits(line[k], ty)
  BY <1>t DEF TokenFits
<1>a. ASSUME NEW E, NEW i, NEW j PROVE TakesAll(E, i, j)' <=> TakesAll(E, i, j)
  <2> DEFINE fit == \A k \in i..(j - 1) : TokenFits(line[k], E.type)
  <2>1. fit' <=> fit
    BY <1>f
  <2>2. TakesAll(E, i, j) <=>
          IF E.type = "string_end"
          THEN \/ i = j
               \/ j = Len(line) + 1 /\ i < j /\ line[i] \notin Quoted \cup {Open}
               \/ j = i + 1 /\ i = Len(line) /\ line[i] \in Quoted
          ELSE fit /\ (i = j => E.opt) /\ (j > i + 1 => E.period)
    BY DEF TakesAll
  <2>3. TakesAll(E, i, j)' <=>
          IF E.type = "string_end"
          THEN \/ i = j
               \/ j = Len(line) + 1 /\ i < j /\ line[i] \notin Quoted \cup {Open}
               \/ j = i + 1 /\ i = Len(line) /\ line[i] \in Quoted
          ELSE fit' /\ (i = j => E.opt) /\ (j > i + 1 => E.period)
    BY <1>t DEF TakesAll
  <2> HIDE DEF fit
  <2> QED BY <2>1, <2>2, <2>3
<1>b. \A E, i, j : Far(E, i, j)' <=> Far(E, i, j)
  BY <1>t, <1>f DEF Far
<1>4. \A E, i, j : (TakesAll(E, i, j)' <=> TakesAll(E, i, j)) /\ (Far(E, i, j)' <=> Far(E, i, j))
  BY <1>a, <1>b
<1>5. \A E, i : Stuck(E, i)' <=> Stuck(E, i)
  BY ONLY <1>t DEF Stuck, TokenFits
<1>6. Interpreted' => Interpreted
  BY <1>3 DEF Interpreted
<1>7. TakenFit' /\ Marked' /\ Greedy'
  BY <1>2, <1>3, <1>4, <1>6 DEF IInv, TakenFit, Marked, Greedy
<1>8. WhyRefused'
  BY <1>2, <1>3, <1>5 DEF WhyRefused, Ended
<1> QED
  BY <1>1, <1>2, <1>3, <1>7, <1>8
     DEF IInv, ChainAt, CommandKnown, Chain, InTable, Complete, AwaitsName

(* One more argument is read.                                              *)
LEMMA ArgumentStep ==
    ASSUME IInv, state = "parsing", Len(args) < Len(Descs),
           NEW o, OneArgument(Descs[Len(args) + 1], at, o), o.r = "ok",
           Len(args) = 1 => line[at] \in DOMAIN Table,
           args' = Append(args, [first |-> o.first, next |-> o.next, mark |-> o.mark]),
           at' = o.next,
           UNCHANGED <<state, line, awaited, reason, known, changes>>
    PROVE  IInv'
<1> DEFINE n == Len(args)
           g == [first |-> o.first, next |-> o.next, mark |-> o.mark]
           D == Descs[n + 1]
<1>1. /\ args \in Seq(Argument) /\ n \in Nat /\ line \in Seq(Token) /\ Len(line) \in Nat
      /\ at \in Nat /\ 1 <= at /\ at <= Len(line) + 1
  <2>1. args \in Seq(Argument) /\ line \in Seq(Token)
    BY DEF IInv, TypeOK
  <2>2. n \in Nat /\ Len(line) \in Nat
    BY <2>1, LenProperties
  <2>3. at \in 1..(Len(line) + 1)
    BY DEF IInv, TypeOK
  <2> QED BY <2>1, <2>2, <2>3
<1>2. /\ o.first = at /\ o.next \in at..(Len(line) + 1) /\ o.mark \in Marks
      /\ TakesAll(D, at, o.next) /\ Far(D, at, o.next)
      /\ D.opt /\ D.type # "chat" /\ at = o.next => o.mark = "absent" \/ D.type = "string_end"
  BY DEF OneArgument
<1>3. g \in Argument
  BY <1>1, <1>2 DEF Argument, Marks
<1>4. /\ args' \in Seq(Argument) /\ Len(args') = n + 1 /\ args'[n + 1] = g
      /\ \A i \in 1..n : args'[i] = args[i]
  BY <1>1, <1>3, AppendProperties
<1>5. TypeOK'
  <2>1. at' \in 1..(Len(line') + 1)
    BY <1>1, <1>2
  <2> QED BY <1>4, <2>1 DEF IInv, TypeOK
<1>6. n >= 2 => args'[2] = args[2]
  BY <1>1, <1>4
<1>7. CommandKnown'
  <2>1. CASE n >= 2
    BY <1>6, <2>1 DEF IInv, CommandKnown
  <2>2. CASE n = 1
    <3>1. D = CommandName
      <4>1. ~(Len(args) >= 2)
        BY <2>2
      <4>2. DescsOf(line, args)[2] = CommandName
        BY <1>1, <4>1, DescsFacts
      <4> QED BY <2>2, <4>2, DescsAre
    <3>2. at < o.next
      BY <1>1, <1>2, <3>1 DEF TakesAll, CommandName
    <3>3. at \in 1..Len(line)
      BY <1>1, <1>2, <3>2
    <3>4. args'[2].first = at
      BY <1>2, <1>4, <2>2
    <3>5. line[at] \in DOMAIN Table /\ line' = line
      BY <2>2
    <3>6. args'[2].first \in 1..Len(line') /\ line'[args'[2].first] \in DOMAIN Table
      BY <3>3, <3>4, <3>5
    <3> QED BY <3>6 DEF CommandKnown
  <2>3. CASE n = 0
    <3>1. ~(Len(args') >= 2)
      BY <1>4, <2>3
    <3> QED BY <3>1 DEF CommandKnown
  <2>4. n >= 2 \/ n = 1 \/ n = 0
    <3> HIDE DEF n
    <3> QED BY <1>1
  <2> QED BY <2>1, <2>2, <2>3, <2>4
<1>8. Len(Descs) <= Len(Descs') /\ \A i \in 1..Len(Descs) : Descs'[i] = Descs[i]
  <2>1. Descs' = DescsOf(line, args')
    BY DescsAre DEF Descs, DescsOf, Modifier, CommandName
  <2>2. n >= 2 => line[args[2].first] \in DOMAIN Table
    BY DEF IInv, CommandKnown
  <2>3. Len(args') >= 2 => line[args'[2].first] \in DOMAIN Table
    BY <1>7 DEF CommandKnown
  <2>4. n >= 2 => Len(args') >= 2 /\ args'[2] = args[2]
    BY <1>1, <1>4, <1>6
  <2> QED BY <1>1, <1>4, <2>1, <2>2, <2>3, <2>4, DescsStay, DescsAre
<1>9. Len(Descs) \in Nat /\ n + 1 \in 1..Len(Descs)
  <2>1. Len(Descs) \in Nat
    BY <1>1, DescsFacts, DescsAre DEF IInv, CommandKnown
  <2> QED BY <1>1, <2>1
<1>10. \A i \in 1..(n + 1) : Descs'[i] = Descs[i]
  BY <1>1, <1>8, <1>9
<1>11. \A i \in 1..(n + 1) : i \in 1..n \/ i = n + 1
  BY <1>1
<1>12. at' = o.next /\ ChainAt'
  BY <1>1, <1>4 DEF ChainAt
<1>13. n > 0 => args[n].next = at
  BY <1>1 DEF IInv, ChainAt
<1>14. n = 0 => at = 1
  BY <1>1 DEF IInv, ChainAt
<1>15. Chain'
  <2>1. ASSUME NEW i \in 1..n
        PROVE  /\ args'[i].first = IF i = 1 THEN 1 ELSE args'[i - 1].next
               /\ args'[i].first <= args'[i].next
    <3>1. i # 1 => i - 1 \in 1..n
      BY <1>1
    <3> QED BY <1>4, <3>1 DEF IInv, Chain
  <2>2. /\ args'[n + 1].first = IF n + 1 = 1 THEN 1 ELSE args'[(n + 1) - 1].next
        /\ args'[n + 1].first <= args'[n + 1].next
    <3>1. n > 0 => n \in 1..n /\ args'[n] = args[n]
      BY <1>1, <1>4
    <3>2. g.first = at /\ g.next = o.next /\ at <= o.next
      BY <1>1, <1>2
    <3> QED BY <1>1, <1>4, <1>13, <1>14, <3>1, <3>2
  <2> QED BY <1>4, <1>11, <2>1, <2>2 DEF Chain
<1>16. \A E, i, j : (TakesAll(E, i, j)' <=> TakesAll(E, i, j)) /\ (Far(E, i, j)' <=> Far(E, i, j))
  BY DEF TakesAll, Far, TokenFits
<1>17. TakenFit'
  <2>1. ASSUME NEW i \in 1..n
        PROVE  TakesAll(Descs[i], args'[i].first, args'[i].next)
    BY <1>4 DEF IInv, TakenFit, Interpreted
  <2>2. TakesAll(D, args'[n + 1].first, args'[n + 1].next)
    BY <1>2, <1>4
  <2>3. \A i \in 1..(n + 1) : TakesAll(Descs[i], args'[i].first, args'[i].next)
    BY <1>11, <2>1, <2>2
  <2> QED BY <1>4, <1>10, <1>16, <2>3 DEF TakenFit
<1>18. Marked'
  <2>1. ASSUME NEW i \in 3..(n + 1), Descs[i].opt, Descs[i].type # "chat",
               args'[i].first = args'[i].next
        PROVE  args'[i].mark = "absent" \/ Descs[i].type = "string_end"
    <3>1. CASE i \in 1..n
      <4>1. i \in 3..n
        BY <3>1
      <4> QED BY <1>4, <2>1, <3>1, <4>1 DEF IInv, Marked, Interpreted
    <3>2. CASE i = n + 1
      BY <1>2, <1>4, <2>1, <3>2
    <3> QED BY <1>1, <1>11, <3>1, <3>2
  <2>2. \A i \in 3..(n + 1) : i \in 1..(n + 1)
    OBVIOUS
  <2> QED BY <1>4, <1>10, <2>1, <2>2 DEF Marked
<1>19. InTable'
  <2>1. Len(Descs') \in Nat
    <3>1. Descs' = DescsOf(line, args')
      BY DEF Descs, DescsOf, Modifier, CommandName
    <3>2. Len(args') >= 2 => line[args'[2].first] \in DOMAIN Table
      BY <1>7 DEF CommandKnown
    <3> QED BY <1>1, <1>4, <3>1, <3>2, DescsFacts
  <2> QED BY <1>1, <1>4, <1>8, <1>9, <2>1 DEF InTable
<1>20. Greedy'
  <2>1. ASSUME NEW i \in 3..(n + 1)
        PROVE  Far(Descs[i], args'[i].first, args'[i].next)
    <3>1. CASE i \in 1..n
      <4>1. i \in 3..n
        BY <3>1
      <4> QED BY <1>4, <3>1, <4>1 DEF IInv, Greedy, Interpreted
    <3>2. CASE i = n + 1
      BY <1>2, <1>4, <3>2
    <3> QED BY <1>1, <1>11, <3>1, <3>2
  <2>2. \A i \in 3..(n + 1) : i \in 1..(n + 1)
    OBVIOUS
  <2> QED BY <1>4, <1>10, <1>16, <2>1, <2>2 DEF Greedy
<1>21. WhyRefused' /\ Complete' /\ AwaitsName'
  BY DEF WhyRefused, Complete, AwaitsName
<1> QED BY <1>5, <1>7, <1>12, <1>15, <1>17, <1>18, <1>19, <1>20, <1>21 DEF IInv

(* Reading starts again: there is nothing yet that could not fit.          *)
LEMMA BeginStep ==
    ASSUME IInv, Begin, line' \in Seq(Token), known' \in [Names -> Knowledge],
           awaited' \in Names \cup {NoName}, UNCHANGED <<changes, reason>>
    PROVE  IInv'
<1>1. args' = << >> /\ args' \in Seq(Argument) /\ Len(args') = 0
  BY EmptySeq DEF Begin
<1>2. TypeOK'
  <2>1. Len(line') \in Nat
    BY LenProperties
  <2>2. at' \in 1..(Len(line') + 1)
    BY <2>1 DEF Begin
  <2> QED BY <1>1, <2>2 DEF IInv, TypeOK, Begin
<1>3. Len(Descs') = 2
  <2>1. Descs' = DescsOf(line', args')
    BY DEF Descs, DescsOf, Modifier, CommandName
  <2>2. ~(Len(args') >= 2) /\ Len(args') < 2
    BY <1>1
  <2>3. Len(DescsOf(line', args')) = 2
    BY <1>1, <2>2, DescsFacts
  <2> QED BY <2>1, <2>3
<1>4. state' = "parsing" /\ at' = 1
  BY DEF Begin
<1>5. TakenFit' /\ Marked' /\ Greedy' /\ Chain'
  BY <1>1 DEF TakenFit, Marked, Greedy, Chain
<1>6. WhyRefused' /\ Complete' /\ AwaitsName' /\ ChainAt' /\ CommandKnown' /\ InTable'
  BY <1>1, <1>3, <1>4 DEF WhyRefused, Complete, AwaitsName, ChainAt, CommandKnown, InTable
<1> QED BY <1>2, <1>5, <1>6 DEF IInv

(* Reading one more argument, or refusing the line at it, keeps the invariant. *)
LEMMA ParseArgumentStep == IInv /\ ParseArgument => IInv'
<1> SUFFICES ASSUME IInv, ParseArgument PROVE IInv'
  OBVIOUS
<1> DEFINE D == Descs[Len(args) + 1]
           o == Read(D, at)
<1>1. /\ args \in Seq(Argument) /\ Len(args) \in Nat /\ line \in Seq(Token)
      /\ at \in 1..(Len(line) + 1) /\ TypeOK
  <2>1. args \in Seq(Argument) /\ line \in Seq(Token) /\ at \in 1..(Len(line) + 1)
    BY DEF IInv, TypeOK
  <2> QED BY <2>1, LenProperties DEF IInv
<1>2. D \in Description
  <2>1. Len(args) >= 2 => line[args[2].first] \in DOMAIN Table
    BY DEF IInv, CommandKnown
  <2>2. Descs \in Seq(Description) /\ Len(Descs) \in Nat
    BY <1>1, <2>1, DescsFacts, DescsAre
  <2>3. Len(args) + 1 \in 1..Len(Descs)
    BY <1>1, <2>2 DEF ParseArgument
  <2> QED BY <2>2, <2>3, ElementOfSeq
<1>3. OneArgument(D, at, o)
  BY <1>1, <1>2, ReadFacts
<1> HIDE DEF o
<1>4. CASE /\ o.r = "ok" /\ (Len(args) = 1 => line[at] \in DOMAIN Table)
           /\ args' = Append(args, [first |-> o.first, next |-> o.next, mark |-> o.mark])
           /\ at' = o.next
           /\ UNCHANGED <<state, line, awaited, reason>>
  <2>1. UNCHANGED <<state, line, awaited, reason, known, changes>>
    BY <1>4 DEF ParseArgument
  <2>2. state = "parsing" /\ Len(args) < Len(Descs)
    BY DEF ParseArgument
  <2> QED BY <1>3, <1>4, <2>1, <2>2, ArgumentStep
<1>5. CASE Refuse("unknown")
  BY <1>5, RefuseStep DEF ParseArgument
<1>6. CASE o.r \in {"bad", "end"} /\ Refuse(o.r)
  <2>1. /\ state = "parsing" /\ Len(args) < Len(Descs) /\ Stuck(Descs[Len(args) + 1], at)
        /\ UNCHANGED <<known, changes>>
    BY <1>3, <1>6 DEF OneArgument, ParseArgument
  <2> QED BY <1>6, <2>1, RefuseStep
<1>7. CASE /\ o.r = "wait"
           /\ state' = "waiting" /\ awaited' = NameIn(line[o.first])
           /\ UNCHANGED <<line, at, args, reason>>
  <2>1. awaited' \in Names
    BY <1>3, <1>7 DEF OneArgument
  <2>2. Descs' = Descs
    BY <1>7 DEF Descs
  <2>3. TypeOK'
    BY <1>7, <2>1 DEF IInv, TypeOK, ParseArgument
  <2>4. ~Interpreted'
    BY <1>7 DEF Interpreted
  <2> QED BY <1>7, <2>1, <2>2, <2>3, <2>4
          DEF IInv, ChainAt, CommandKnown, Chain, TakenFit, Marked, Greedy, WhyRefused,
              InTable, Complete, AwaitsName
<1>8. CASE /\ o.r = "abort" /\ state' = "aborted"
           /\ UNCHANGED <<line, at, args, awaited, reason>>
  <2>1. Descs' = Descs
    BY <1>8 DEF Descs
  <2>2. TypeOK'
    BY <1>8 DEF IInv, TypeOK, ParseArgument
  <2>3. ~Interpreted'
    BY <1>8 DEF Interpreted
  <2> QED BY <1>8, <2>1, <2>2, <2>3
          DEF IInv, ChainAt, CommandKnown, Chain, TakenFit, Marked, Greedy, WhyRefused,
              InTable, Complete, AwaitsName
<1> QED BY <1>4, <1>5, <1>6, <1>7, <1>8 DEF ParseArgument, o

(* Accepting the end of the description, or refusing what is left over, keeps the invariant. *)
LEMMA ParseEndStep == IInv /\ ParseEnd => IInv'
<1> SUFFICES ASSUME IInv, ParseEnd PROVE IInv'
  OBVIOUS
<1>1. CASE Ended(at) \/ line[at] \in Empty
  <2>1. state' = "accepted" /\ UNCHANGED <<line, at, args, awaited, reason, known, changes>>
    BY <1>1 DEF ParseEnd
  <2>2. TypeOK'
    BY <2>1 DEF IInv, TypeOK
  <2>3. Descs' = Descs
    BY <2>1 DEF Descs
  <2>4. \A E, i, j : (TakesAll(E, i, j)' <=> TakesAll(E, i, j)) /\ (Far(E, i, j)' <=> Far(E, i, j))
    BY <2>1 DEF TakesAll, Far, TokenFits
  <2>5. Interpreted
    BY DEF ParseEnd, Interpreted
  <2>6. TakenFit' /\ Marked' /\ Greedy'
    BY <2>1, <2>3, <2>4, <2>5 DEF IInv, TakenFit, Marked, Greedy
  <2> QED BY <1>1, <2>1, <2>2, <2>3, <2>6
          DEF IInv, ChainAt, CommandKnown, Chain, WhyRefused, InTable, Complete,
              AwaitsName, ParseEnd, Ended
<1>2. CASE ~(Ended(at) \/ line[at] \in Empty)
  <2>1. /\ Refuse("extra") /\ UNCHANGED <<known, changes>>
        /\ state = "parsing" /\ Len(args) = Len(Descs) /\ ~Ended(at)
    BY <1>2 DEF ParseEnd
  <2> QED BY <2>1, RefuseStep
<1> QED BY <1>1, <1>2

(* What the client hears while a line waits concerns no argument: all are  *)
(* read again.                                                             *)
LEMMA HearStep == IInv /\ Hear => IInv'
<1> SUFFICES ASSUME IInv, Hear PROVE IInv'
  OBVIOUS
<1>1. UNCHANGED <<state, line, at, args, awaited, reason>> /\ state \in {"idle", "waiting"}
  BY DEF Hear, command
<1>2. TypeOK'
  <2>1. known' \in [Names -> Knowledge]
    BY DEF IInv, TypeOK, Hear
  <2>2. changes' \in 0..MaxChanges
    <3>1. MaxChanges \in Nat
      BY ArgumentsAssumption
    <3>2. changes \in 0..MaxChanges /\ changes < MaxChanges /\ changes' = changes + 1
      BY DEF IInv, TypeOK, Hear
    <3> QED BY <3>1, <3>2
  <2> QED BY <1>1, <2>1, <2>2 DEF IInv, TypeOK
<1>3. Descs' = Descs
  BY <1>1 DEF Descs
<1>4. ~Interpreted' /\ state' # "refused" /\ state' # "accepted"
  BY <1>1 DEF Interpreted
<1> QED
  BY <1>1, <1>2, <1>3, <1>4
     DEF IInv, ChainAt, CommandKnown, Chain, TakenFit, Marked, Greedy, WhyRefused,
         InTable, Complete, AwaitsName

(* Handing the arguments over and starting the next line keeps the invariant. *)
LEMMA ReturnStep == IInv /\ Return => IInv'
<1> SUFFICES ASSUME IInv, Return PROVE IInv'
  OBVIOUS
<1>1. args' = << >> /\ args' \in Seq(Argument) /\ Len(args') = 0
      /\ line' = << >> /\ line' \in Seq(Token) /\ Len(line') = 0
  BY EmptySeq DEF Return
<1>2. TypeOK'
  <2>1. at' \in 1..(Len(line') + 1)
    BY <1>1 DEF Return
  <2> QED BY <1>1, <2>1 DEF IInv, TypeOK, Return
<1>3. Len(Descs') = 2
  <2>1. Descs' = DescsOf(line', args')
    BY DEF Descs, DescsOf, Modifier, CommandName
  <2>2. ~(Len(args') >= 2) /\ Len(args') < 2
    BY <1>1
  <2>3. Len(DescsOf(line', args')) = 2
    BY <1>1, <2>2, DescsFacts
  <2> QED BY <2>1, <2>3
<1>4. state' = "idle" /\ at' = 1
  BY DEF Return
<1>5. TakenFit' /\ Marked' /\ Greedy' /\ Chain'
  BY <1>1 DEF TakenFit, Marked, Greedy, Chain
<1>6. WhyRefused' /\ Complete' /\ AwaitsName' /\ ChainAt' /\ CommandKnown' /\ InTable'
  BY <1>1, <1>3, <1>4 DEF WhyRefused, Complete, AwaitsName, ChainAt, CommandKnown, InTable
<1> QED BY <1>2, <1>5, <1>6 DEF IInv

(* The invariant is inductive. *)
LEMMA NextIInv == IInv /\ [Next]_vars => IInv'
<1> SUFFICES ASSUME IInv, [Next]_vars PROVE IInv'
  OBVIOUS
<1>1. CASE Type
  <2>1. line' \in Seq(Token)
    BY <1>1, ArgumentsAssumption DEF Type
  <2> QED BY <1>1, <2>1, BeginStep DEF Type, IInv, TypeOK
<1>2. CASE ProceedWithQuery
  <2>1. known' \in [Names -> Knowledge]
    BY <1>2 DEF ProceedWithQuery, IInv, TypeOK, Knowledge
  <2> QED BY <1>2, <2>1, BeginStep DEF ProceedWithQuery, IInv, TypeOK
<1>3. CASE StopQuery
  BY <1>3, RefuseStep DEF StopQuery
<1>4. CASE UNCHANGED vars
  <2>1. UNCHANGED <<known, changes, state, line, at, args, awaited, reason>>
    BY <1>4 DEF vars, command
  <2>2. Descs' = Descs
    BY <2>1 DEF Descs
  <2>3. \A E, i, j : (TakesAll(E, i, j)' <=> TakesAll(E, i, j)) /\ (Far(E, i, j)' <=> Far(E, i, j))
    BY <2>1 DEF TakesAll, Far, TokenFits
  <2>4. TypeOK'
    BY <2>1 DEF IInv, TypeOK
  <2>5. \A E, i : Stuck(E, i)' <=> Stuck(E, i)
    BY <2>1 DEF Stuck, TokenFits
  <2>6. Interpreted' <=> Interpreted
    BY <2>1 DEF Interpreted
  <2>7. TakenFit' /\ Marked' /\ Greedy'
    BY <2>1, <2>2, <2>3, <2>6 DEF IInv, TakenFit, Marked, Greedy
  <2>8. WhyRefused'
    BY <2>1, <2>2, <2>5 DEF IInv, WhyRefused, Ended
  <2> QED BY <2>1, <2>2, <2>4, <2>7, <2>8
          DEF IInv, ChainAt, CommandKnown, Chain, InTable, Complete, AwaitsName, Ended
<1> QED
  BY <1>1, <1>2, <1>3, <1>4, ParseArgumentStep, ParseEndStep, ReturnStep, HearStep DEF Next

(* The inductive invariant of interpreter_ex's parser holds in every state. *)
THEOREM IInvHolds == Spec => []IInv
<1>1. Init => IInv
  BY InitIInv
<1>2. IInv /\ [Next]_vars => IInv'
  BY NextIInv
<1> QED BY <1>1, <1>2, PTL DEF Spec

(* Type correctness.                                                       *)
THEOREM TypeCorrect == Spec => []TypeOK
<1>1. IInv => TypeOK
  BY DEF IInv
<1> QED BY <1>1, IInvHolds, PTL

(* Going back and forth over optional arguments neither loses a token nor  *)
(* gives it to two arguments (parse_command_line).                         *)
THEOREM TokensOnceCorrect == Spec => []TokensOnce
<1>1. IInv => TokensOnce
  <2> SUFFICES ASSUME IInv PROVE TokensOnce
    OBVIOUS
  <2>1. /\ args \in Seq(Argument) /\ line \in Seq(Token)
        /\ at \in 1..(Len(line) + 1) /\ Len(args) \in Nat
    <3>1. args \in Seq(Argument) /\ line \in Seq(Token) /\ at \in 1..(Len(line) + 1)
      BY DEF IInv, TypeOK
    <3> QED BY <3>1, LenProperties
  <2>2. ASSUME state = "accepted"
        PROVE  \E end \in {args[Len(args)].next} :
                   end = Len(line) + 1 \/ (end <= Len(line) /\ line[end] \in Empty)
    <3>1. Len(args) = Len(Descs) /\ (at > Len(line) \/ line[at] \in Empty)
      BY <2>2 DEF IInv, Complete, Ended
    <3>2. Len(args) >= 2
      <4>1. Len(args) >= 2 => line[args[2].first] \in DOMAIN Table
        BY DEF IInv, CommandKnown
      <4> QED BY <2>1, <3>1, <4>1, DescsFacts, DescsAre
    <3>3. args # << >>
      BY <3>2
    <3>4. at = args[Len(args)].next
      BY <3>3 DEF IInv, ChainAt
    <3>5. Len(line) \in Nat
      BY <2>1, LenProperties
    <3> QED BY <2>1, <3>1, <3>4, <3>5
  <2> QED BY <2>2 DEF IInv, TokensOnce, Chain
<1> QED BY <1>1, IInvHolds, PTL

(* A handler gets arguments of the types it asked for, all of them fitting *)
(* at the same moment, and can tell which were left out                    *)
(* (parse_command_line, interpreter_ex, proceed_with_query).               *)
THEOREM ArgumentsFitCorrect == Spec => []ArgumentsFit
<1>1. IInv => ArgumentsFit
  BY DEF IInv, ArgumentsFit, AbsentMarked, TakenFit, Marked, Interpreted, Complete
<1> QED BY <1>1, IInvHolds, PTL

-----------------------------------------------------------------------------
(***************************************************************************)
(* A refused line has no reading.  Any other division of the line is never *)
(* ahead of the arguments that were read, since each of them took as much  *)
(* as it could; and it is exactly there as long as all of them take one    *)
(* token.                                                                  *)
(***************************************************************************)

(* The arguments of a command follow the modifiers and its name. *)
LEMMA DescsTable ==
    ASSUME IInv, Len(args) >= 2
    PROVE  /\ line[args[2].first] \in DOMAIN Table
           /\ Table[line[args[2].first]] \in Seq(Description)
           /\ Len(Descs) = 2 + Len(Table[line[args[2].first]])
           /\ \A i \in 1..Len(Table[line[args[2].first]]) :
                Descs[i + 2] = Table[line[args[2].first]][i]
<1> DEFINE first == <<Modifier, CommandName>>
           rest == Table[line[args[2].first]]
<1>1. line[args[2].first] \in DOMAIN Table
  BY DEF IInv, CommandKnown
<1>2. rest \in Seq(Description)
  BY <1>1, TableAssumption
<1>3. args \in Seq(Argument) /\ Len(args) \in Nat
  <2>1. args \in Seq(Argument)
    BY DEF IInv, TypeOK
  <2> QED BY <2>1, LenProperties
<1>4. Descs = first \o rest
  BY <1>3 DEF Descs, Modifier, CommandName
<1>5. first \in Seq(Description) /\ Len(first) = 2
  <2>1. Modifier \in Description /\ CommandName \in Description
    BY DEF Description, Desc, Types, Modifier, CommandName
  <2> QED BY <2>1
<1> HIDE DEF first
<1>6. Len(rest) \in Nat
  BY <1>2, LenProperties
<1>7. /\ Len(first \o rest) = Len(first) + Len(rest)
      /\ \A i \in 1..(Len(first) + Len(rest)) :
           (first \o rest)[i] = IF i <= Len(first) THEN first[i] ELSE rest[i - Len(first)]
  <2> HIDE DEF rest
  <2> QED BY <1>2, <1>5, ConcatProperties
<1>8. ASSUME NEW i \in 1..Len(rest) PROVE Descs[i + 2] = rest[i]
  <2>1. i + 2 \in 1..(Len(first) + Len(rest)) /\ ~ (i + 2 <= Len(first)) /\ (i + 2) - Len(first) = i
    BY <1>5, <1>6
  <2>2. (first \o rest)[i + 2] = rest[(i + 2) - Len(first)]
    BY <1>7, <2>1
  <2> QED BY <1>4, <2>1, <2>2
<1> QED BY <1>1, <1>2, <1>4, <1>5, <1>7, <1>8

(* Only the last argument of a command repeats or takes the rest of the line. *)
LEMMA DescsShape ==
    ASSUME IInv, Len(args) >= 2, NEW i \in 3..Len(Descs)
    PROVE  /\ Descs[i] \in Description /\ Len(Descs) \in Nat
           /\ Descs[i].period \/ Descs[i].type = "string_end" => i = Len(Descs)
           /\ Descs[i].type = "string_end" /\ Descs[i].opt => OptionalFirst
<1> DEFINE c == line[args[2].first]
           T == Table[c]
<1>1. /\ c \in DOMAIN Table /\ T \in Seq(Description) /\ Len(Descs) = 2 + Len(T)
      /\ \A j \in 1..Len(T) : Descs[j + 2] = T[j]
  BY DescsTable
<1>2. /\ \A j \in 1..Len(T) : T[j].period \/ T[j].type = "string_end" => j = Len(T)
      /\ \A j \in 1..Len(T) : T[j].type = "string_end" /\ T[j].opt =>
           \E k, m \in 1..Len(T) : k < m /\ T[k].opt /\ ~T[m].opt
  BY <1>1, TableAssumption
<1> HIDE DEF c, T
<1>3. Len(T) \in Nat
  BY <1>1, LenProperties
<1>4. PICK j \in 1..Len(T) : i = j + 2
  <2>1. i - 2 \in 1..Len(T) /\ i = (i - 2) + 2
    BY <1>1, <1>3
  <2> QED BY <2>1
<1>5. Descs[i] = T[j] /\ T[j] \in Description
  BY <1>1, <1>4, ElementOfSeq
<1>6. ASSUME Descs[i].type = "string_end", Descs[i].opt PROVE OptionalFirst
  <2>1. PICK k \in 1..Len(T), m \in 1..Len(T) : k < m /\ T[k].opt /\ ~T[m].opt
    BY <1>2, <1>5, <1>6
  <2>2. /\ k + 2 \in 3..Len(Descs) /\ m + 2 \in 3..Len(Descs) /\ k + 2 < m + 2
        /\ Descs[k + 2].opt /\ ~Descs[m + 2].opt
    BY <1>1, <1>3, <2>1
  <2> QED BY <2>2 DEF OptionalFirst
<1> QED BY <1>1, <1>2, <1>3, <1>4, <1>5, <1>6

(* What starts no later ends no later than what went as far as it could. *)
LEMMA FarStep ==
    ASSUME TypeOK, NEW D \in Description, NEW i \in Nat, NEW j \in Nat, NEW g \in Nat,
           NEW x \in Nat, i <= g, i <= j, g <= x, j <= Len(line) + 1, x <= Len(line) + 1,
           TakesAll(D, i, j), Far(D, g, x)
    PROVE  j <= x
<1>0. Len(line) \in Nat
  BY LenProperties DEF TypeOK
<1>1. CASE D.type = "string_end"
  BY <1>0, <1>1 DEF Far
<1>2. CASE D.type # "string_end"
  <2>1. SUFFICES ASSUME x < j PROVE FALSE
    OBVIOUS
  <2>2. x \in i..(j - 1) /\ x <= Len(line)
    BY <1>0, <2>1
  <2>3. TokenFits(line[x], D.type)
    BY <1>2, <2>2 DEF TakesAll
  <2>4. g # x /\ ~D.period
    BY <1>2, <2>2, <2>3 DEF Far
  <2>5. ~ (j > i + 1)
    BY <1>2, <2>4 DEF TakesAll
  <2> QED BY <2>1, <2>4, <2>5
<1> QED BY <1>1, <1>2

(* A division of what follows the command's name among its arguments. *)
Divides(b) ==
    LET n == Len(Descs) - 2
        last == Len(line) + 1
    IN /\ b \in [0..n -> args[2].next..last]
       /\ b[0] = args[2].next /\ b[n] = last
       /\ \A i \in 1..n : b[i - 1] <= b[i] /\ TakesAll(Descs[i + 2], b[i - 1], b[i])

(* Where the parts of a division end. *)
LEMMA WithinLine ==
    ASSUME NEW n \in Int, NEW lo \in Nat, NEW hi \in Nat, NEW f \in [0..n -> lo..hi],
           NEW i \in 0..n
    PROVE  f[i] \in Nat /\ f[i] <= hi
OBVIOUS

(* No division is ahead of the arguments; if all of them are required and  *)
(* take one token it is where they are.                                    *)
LEMMA NeverAhead ==
    ASSUME IInv, Interpreted, Len(args) >= 2, NEW b, Divides(b),
           NEW k \in Nat, k + 2 <= Len(args)
    PROVE  /\ b[k] \in Nat /\ args[k + 2].next \in Nat
           /\ b[k] <= args[k + 2].next
           /\ (\A i \in 3..(k + 2) :
                  ~Descs[i].opt /\ ~Descs[i].period /\ Descs[i].type # "string_end")
              => b[k] = args[k + 2].next
<1>0. /\ args \in Seq(Argument) /\ Len(args) \in Nat /\ Len(line) \in Nat
      /\ Len(Descs) \in Nat /\ Len(args) <= Len(Descs) /\ TypeOK
  <2>1. args \in Seq(Argument) /\ line \in Seq(Token) /\ TypeOK /\ Len(args) <= Len(Descs)
    BY DEF IInv, TypeOK, InTable
  <2>2. Len(args) >= 2 => line[args[2].first] \in DOMAIN Table
    BY DEF IInv, CommandKnown
  <2> QED BY <2>1, <2>2, LenProperties, DescsFacts, DescsAre
<1>1. \A i \in 1..Len(args) :
        /\ args[i].first \in Nat /\ args[i].next \in Nat /\ args[i].first <= args[i].next
        /\ i > 1 => args[i].first = args[i - 1].next
  <2>1. \A i \in 1..Len(args) : args[i] \in Argument
    BY <1>0, ElementOfSeq
  <2>2. \A i \in 1..Len(args) : args[i].first \in Nat /\ args[i].next \in Nat
    BY <2>1 DEF Argument
  <2> QED BY <2>2 DEF IInv, Chain
<1>2. \A i \in 1..Len(args) : args[i].next <= Len(line) + 1
  <2> DEFINE S == {m \in Nat : m < Len(args) /\ args[Len(args) - m].next > Len(line) + 1}
  <2>1. SUFFICES ASSUME NEW i \in 1..Len(args), args[i].next > Len(line) + 1 PROVE FALSE
    BY <1>0, <1>1
  <2>2. PICK d \in Nat : d < Len(args) /\ i = Len(args) - d
    <3>1. Len(args) - i \in Nat /\ Len(args) - i < Len(args) /\ i = Len(args) - (Len(args) - i)
      BY <1>0
    <3> QED BY <3>1
  <2>3. d \in S
    BY <2>1, <2>2
  <2>4. PICK m \in S : \A p \in S : m <= p
    <3>1. S \in SUBSET Nat /\ S # {}
      BY <2>3
    <3> HIDE DEF S
    <3> QED BY <3>1, LeastNumber
  <2>5. m \in Nat /\ m < Len(args) /\ args[Len(args) - m].next > Len(line) + 1
    BY <2>4
  <2>6. CASE m = 0
    <3>1. args # << >> /\ Len(args) - m = Len(args)
      BY <1>0, <2>5, <2>6
    <3>2. at = args[Len(args)].next /\ at <= Len(line) + 1
      BY <1>0, <3>1 DEF IInv, ChainAt, TypeOK
    <3>3. at \in Nat
      BY <1>0 DEF TypeOK
    <3> QED BY <1>0, <2>5, <3>1, <3>2, <3>3
  <2>7. CASE m # 0
    <3>1. PICK p \in Nat : m = p + 1 /\ p < Len(args)
      <4>1. m - 1 \in Nat /\ m = (m - 1) + 1 /\ m - 1 < Len(args)
        BY <1>0, <2>5, <2>7
      <4> QED BY <4>1
    <3>2. p \notin S
      BY <2>4, <3>1
    <3>3. PICK q \in 1..Len(args) : q = Len(args) - p /\ q > 1 /\ q - 1 = Len(args) - m
      <4>1. /\ Len(args) - p \in 1..Len(args) /\ Len(args) - p > 1
            /\ (Len(args) - p) - 1 = Len(args) - m
        BY <1>0, <2>5, <3>1
      <4> QED BY <4>1
    <3>4. ~ (args[q].next > Len(line) + 1)
      BY <3>1, <3>2, <3>3
    <3>5. args[q].first = args[q - 1].next /\ args[q].first <= args[q].next
      BY <1>1, <3>3
    <3>6. args[q - 1].next > Len(line) + 1
      BY <2>5, <3>3
    <3>7. args[q].next \in Nat /\ args[q].first \in Nat
      BY <1>1
    <3> QED BY <1>0, <3>4, <3>5, <3>6, <3>7
  <2> QED BY <2>6, <2>7
<1>3. \A i \in 0..(Len(Descs) - 2) : b[i] \in Nat /\ b[i] <= Len(line) + 1
  <2>1. args[2].next \in Nat
    BY <1>0, <1>1
  <2>2. b \in [0..(Len(Descs) - 2) -> args[2].next..(Len(line) + 1)]
    BY DEF Divides
  <2>3. Len(Descs) - 2 \in Int /\ Len(line) + 1 \in Nat
    BY <1>0
  <2> QED BY <2>1, <2>2, <2>3, WithinLine
<1>4. b[0] = args[2].next
  BY DEF Divides
<1> DEFINE Single(m) == \A i \in 3..(m + 2) :
              ~Descs[i].opt /\ ~Descs[i].period /\ Descs[i].type # "string_end"
           Behind(m) == b[m] <= args[m + 2].next /\ (Single(m) => b[m] = args[m + 2].next)
           S == {m \in Nat : m + 2 <= Len(args) /\ ~Behind(m)}
<1>5. k \notin S
  <2>1. SUFFICES ASSUME k \in S PROVE FALSE
    OBVIOUS
  <2>2. PICK m \in S : \A p \in S : m <= p
    <3>1. S \in SUBSET Nat /\ S # {}
      BY <2>1
    <3> HIDE DEF S
    <3> QED BY <3>1, LeastNumber
  <2>3. m \in Nat /\ m + 2 <= Len(args) /\ ~Behind(m)
    BY <2>2
  <2>4. m # 0
    <3>1. SUFFICES ASSUME m = 0 PROVE FALSE
      OBVIOUS
    <3>2. args[m + 2].next \in Nat /\ b[m] = args[m + 2].next
      BY <1>0, <1>1, <1>4, <3>1
    <3> QED BY <2>3, <3>2
  <2>5. PICK p \in Nat : m = p + 1
    <3>1. m - 1 \in Nat /\ m = (m - 1) + 1
      BY <2>3, <2>4
    <3> QED BY <3>1
  <2>6. Behind(p)
    <3>1. p \notin S
      BY <2>2, <2>5
    <3> HIDE DEF Behind
    <3> QED BY <1>0, <2>3, <2>5, <3>1
  <2> DEFINE D == Descs[m + 2]
             g == args[m + 2].first
             x == args[m + 2].next
  <2>7. /\ g \in Nat /\ x \in Nat /\ g <= x /\ x <= Len(line) + 1 /\ g = args[p + 2].next
    <3>1. m + 2 \in 1..Len(args) /\ m + 2 > 1 /\ (m + 2) - 1 = p + 2
      BY <1>0, <2>3, <2>5
    <3>2. /\ args[m + 2].first \in Nat /\ args[m + 2].next \in Nat
          /\ args[m + 2].first <= args[m + 2].next
          /\ args[m + 2].first = args[(m + 2) - 1].next
      BY <1>1, <3>1
    <3> QED BY <1>2, <3>1, <3>2
  <2>8. /\ b[p] \in Nat /\ b[m] \in Nat /\ b[p] <= b[m] /\ b[m] <= Len(line) + 1
        /\ TakesAll(D, b[p], b[m])
    <3>1. m \in 1..(Len(Descs) - 2) /\ m - 1 = p /\ p \in 0..(Len(Descs) - 2)
          /\ m \in 0..(Len(Descs) - 2)
      BY <1>0, <2>3, <2>5
    <3>2. b[m - 1] <= b[m] /\ TakesAll(Descs[m + 2], b[m - 1], b[m])
      BY <3>1 DEF Divides
    <3> QED BY <1>3, <3>1, <3>2
  <2>9. TakesAll(D, g, x) /\ Far(D, g, x) /\ D \in Description
    <3>1. m + 2 \in 1..Len(args) /\ m + 2 \in 3..Len(args) /\ m + 2 \in 3..Len(Descs)
      BY <1>0, <2>3, <2>5
    <3> QED BY <3>1, DescsShape DEF IInv, TakenFit, Greedy
  <2> HIDE DEF D, g, x
  <2>10. b[p] <= g
    BY <2>6, <2>7
  <2>11. b[m] <= x
    <3>1. TypeOK /\ b[m] <= Len(line) + 1 /\ x <= Len(line) + 1 /\ g <= x
      BY <1>0, <2>7, <2>8
    <3>2. D \in Description /\ b[p] \in Nat /\ b[m] \in Nat /\ g \in Nat /\ x \in Nat
      BY <2>7, <2>8, <2>9
    <3>3. b[p] <= b[m] /\ TakesAll(D, b[p], b[m]) /\ Far(D, g, x)
      BY <2>8, <2>9
    <3> QED BY ONLY <2>10, <3>1, <3>2, <3>3, FarStep
  <2>12. ASSUME Single(m) PROVE b[m] = x
    <3>1. ~D.opt /\ ~D.period /\ D.type # "string_end"
      <4>1. m + 2 \in 3..(m + 2)
        BY <2>3, <2>5
      <4> QED BY <2>12, <4>1 DEF D
    <3>2. Single(p)
      <4>1. \A i \in 3..(p + 2) : i \in 3..(m + 2)
        BY <2>5
      <4> QED BY <2>12, <4>1
    <3>3. b[p] = g
      BY <2>6, <2>7, <3>2
    <3>4. x = g + 1
      BY <2>7, <2>9, <3>1 DEF TakesAll
    <3>5. b[m] = b[p] + 1
      BY <2>8, <3>1 DEF TakesAll
    <3> QED BY <3>3, <3>4, <3>5
  <2>13. Behind(m)
    BY <2>11, <2>12 DEF x
  <2> QED BY <2>3, <2>13
<1>6. Behind(k)
  <2> HIDE DEF Behind
  <2> QED BY <1>5
<1>7. k + 2 \in 1..Len(args) /\ k \in 0..(Len(Descs) - 2)
  BY <1>0
<1> QED BY <1>1, <1>3, <1>6, <1>7

(* Nothing divides what follows the name of a command that was refused: a  *)
(* required argument found nothing where every division has it start, or   *)
(* the last argument ends before the line although no division is ahead.   *)
LEMMA NoDivision ==
    ASSUME IInv, state = "refused", reason \in {"bad", "end", "extra"},
           Len(args) >= 2, ~OptionalFirst, NEW b, Divides(b)
    PROVE  FALSE
<1>0. /\ args \in Seq(Argument) /\ Len(args) \in Nat /\ Len(line) \in Nat
      /\ Len(Descs) \in Nat /\ Interpreted
  <2>1. args \in Seq(Argument) /\ line \in Seq(Token)
    BY DEF IInv, TypeOK
  <2>2. Len(args) >= 2 => line[args[2].first] \in DOMAIN Table
    BY DEF IInv, CommandKnown
  <2> QED BY <2>1, <2>2, LenProperties, DescsFacts, DescsAre DEF Interpreted
<1>1. PICK k \in Nat : k + 2 = Len(args)
  <2>1. Len(args) - 2 \in Nat /\ (Len(args) - 2) + 2 = Len(args)
    BY <1>0
  <2> QED BY <2>1
<1>2. at = args[k + 2].next /\ at \in Nat /\ at <= Len(line) + 1
  <2>1. args # << >>
    BY <1>0
  <2>2. at \in 1..(Len(line) + 1)
    BY DEF IInv, TypeOK
  <2> QED BY <1>0, <1>1, <2>1, <2>2 DEF IInv, ChainAt
<1>3. /\ b[k] \in Nat /\ b[k] <= at
      /\ (\A i \in 3..(k + 2) :
             ~Descs[i].opt /\ ~Descs[i].period /\ Descs[i].type # "string_end")
         => b[k] = at
  <2>1. k + 2 <= Len(args)
    BY <1>0, <1>1
  <2> QED BY <1>0, <1>2, <2>1, NeverAhead
<1>4. b[Len(Descs) - 2] = Len(line) + 1
  BY DEF Divides
<1>5. CASE reason = "extra"
  <2>1. Len(args) = Len(Descs) /\ ~ (at > Len(line))
    BY <1>5 DEF IInv, WhyRefused, Ended
  <2>2. Len(Descs) - 2 = k
    BY <1>0, <1>1, <2>1
  <2> QED BY <1>0, <1>2, <1>3, <1>4, <2>1, <2>2
<1>6. CASE reason \in {"bad", "end"}
  <2> DEFINE D == Descs[k + 3]
  <2>1. Len(args) < Len(Descs) /\ Stuck(D, at)
    <3>1. Len(args) + 1 = k + 3
      BY <1>0, <1>1
    <3> QED BY <1>6, <3>1 DEF IInv, WhyRefused
  <2>2. k + 3 \in 3..Len(Descs) /\ k + 1 \in 1..(Len(Descs) - 2) /\ (k + 1) + 2 = k + 3
        /\ (k + 1) - 1 = k
    BY <1>0, <1>1, <2>1
  <2>3. ~D.opt
    <3>1. D.type = "string_end" => ~D.opt
      BY <2>2, DescsShape
    <3> QED BY <2>1, <3>1 DEF Stuck
  <2>4. \A i \in 3..(k + 2) :
          ~Descs[i].opt /\ ~Descs[i].period /\ Descs[i].type # "string_end"
    <3>1. TAKE i \in 3..(k + 2)
    <3>2. i \in 3..Len(Descs) /\ i < k + 3 /\ i # Len(Descs)
      BY <1>0, <2>2
    <3>3. ~Descs[i].opt
      BY <2>2, <2>3, <3>2 DEF OptionalFirst
    <3> QED BY <3>2, <3>3, DescsShape
  <2>5. b[k] = at
    BY <1>3, <2>4
  <2>6. TakesAll(D, at, b[k + 1]) /\ at <= b[k + 1]
    <3>1. b[(k + 1) - 1] <= b[k + 1] /\ TakesAll(Descs[(k + 1) + 2], b[(k + 1) - 1], b[k + 1])
      BY <2>2 DEF Divides
    <3> QED BY <2>2, <2>5, <3>1
  <2>7. b[k + 1] \in Nat /\ b[k + 1] <= Len(line) + 1
    <3>1. args[2] \in Argument
      BY <1>0, ElementOfSeq
    <3>2. args[2].next \in Nat
      BY <3>1 DEF Argument
    <3>3. k + 1 \in 0..(Len(Descs) - 2)
      BY <2>2
    <3>4. b \in [0..(Len(Descs) - 2) -> args[2].next..(Len(line) + 1)]
      BY DEF Divides
    <3>5. Len(Descs) - 2 \in Int /\ Len(line) + 1 \in Nat
      BY <1>0
    <3> QED BY <3>2, <3>3, <3>4, <3>5, WithinLine
  <2>8. D.type = "string_end" => b[k + 1] = Len(line) + 1
    <3>1. SUFFICES ASSUME D.type = "string_end" PROVE b[k + 1] = Len(line) + 1
      OBVIOUS
    <3>2. k + 3 = Len(Descs)
      BY <2>2, <3>1, DescsShape
    <3>3. k + 1 = Len(Descs) - 2
      BY <1>0, <3>2
    <3> QED BY <1>4, <3>3
  <2> HIDE DEF D
  <2>9. CASE D.type = "string_end"
    <3>1. at <= Len(line) /\ (line[at] = Open \/ (line[at] \in Quoted /\ at < Len(line)))
      BY <2>1, <2>9 DEF Stuck
    <3>2. \/ at = b[k + 1]
          \/ line[at] \notin Quoted \cup {Open}
          \/ at = Len(line) /\ line[at] \in Quoted
      BY <2>6, <2>9 DEF TakesAll
    <3>3. Open \notin Quoted
      BY ArgumentsAssumption
    <3> QED BY <1>0, <1>2, <2>8, <2>9, <3>1, <3>2, <3>3
  <2>10. CASE D.type # "string_end"
    <3>1. at # b[k + 1]
      BY <2>3, <2>6, <2>10 DEF TakesAll
    <3>2. at <= Len(line) /\ at \in at..(b[k + 1] - 1)
      BY <1>0, <1>2, <2>6, <2>7, <3>1
    <3>3. TokenFits(line[at], D.type)
      BY <2>6, <2>10, <3>2 DEF TakesAll
    <3> QED BY <2>1, <2>10, <3>2, <3>3 DEF Stuck
  <2> QED BY <2>9, <2>10
<1> QED BY <1>5, <1>6

(* Why a line is refused rules out every division. *)
LEMMA RefusedStep == IInv => RefusedRight
BY NoDivision DEF RefusedRight, Divides

(* A refused line has no division that fits, unless the command has an     *)
(* optional argument before a required one: always taking the first token  *)
(* that fits loses no line, for any line and any command of the table      *)
(* (parse_command_line, the parse_argument functions).                     *)
THEOREM RefusedRightCorrect == Spec => []RefusedRight
BY RefusedStep, IInvHolds, PTL
===============================================================================
