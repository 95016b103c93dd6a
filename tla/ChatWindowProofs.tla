--------------------------- MODULE ChatWindowProofs ---------------------------
(***************************************************************************)
(* Proofs about ChatWindow: whatever is opened, sent, edited, deleted and  *)
(* asked for, the bottom of the window is a line it has, a window with     *)
(* free rows waits for a page that comes, and no message is missing.       *)
(***************************************************************************)
EXTENDS ChatWindow, FiniteSetTheorems, WellFoundedInduction, SequenceTheorems, TLAPS

-----------------------------------------------------------------------------
(***************************************************************************)
(* Numbers, messages and their ids.                                        *)
(***************************************************************************)

(* A set of numbers has a least one. *)
LEMMA LeastNumber ==
    ASSUME NEW S \in SUBSET Nat, S # {}
    PROVE  Min(S) \in S /\ \A k \in S : Min(S) <= k
<1> DEFINE R == OpToRel(<, Nat)
<1>1. IsWellFoundedOn(R, Nat)
  BY NatLessThanWellFounded
<1>2. PICK m \in S : \A k \in S : <<k, m>> \notin R
  <2> HIDE DEF R
  <2> QED BY <1>1, WFMin
<1>3. \A k \in S : ~ (k < m)
  BY <1>2 DEF OpToRel
<1>4. \E x \in S : \A y \in S : x =< y
  BY <1>3
<1> QED BY <1>4 DEF Min

(* A bounded one has a greatest one. *)
LEMMA GreatestNumber ==
    ASSUME NEW b \in Nat, NEW S \in SUBSET (0..b), S # {}
    PROVE  Max(S) \in S /\ \A k \in S : k <= Max(S)
<1> DEFINE gaps == {b - k : k \in S}
<1>1. gaps \in SUBSET Nat /\ gaps # {}
  <2>1. \A k \in S : b - k \in Nat
    OBVIOUS
  <2> QED BY <2>1
<1> HIDE DEF gaps
<1>2. Min(gaps) \in gaps /\ \A g \in gaps : Min(gaps) <= g
  BY <1>1, LeastNumber
<1>3. PICK m \in S : Min(gaps) = b - m
  BY <1>2 DEF gaps
<1>4. \A k \in S : k <= m
  <2> TAKE k \in S
  <2>1. b - m <= b - k
    BY <1>2, <1>3 DEF gaps
  <2> QED BY <2>1
<1>5. \E x \in S : \A y \in S : x >= y
  BY <1>4
<1> QED BY <1>5 DEF Max

(* The bounds are numbers. *)
LEMMA Bounds ==
    /\ MaxId \in Nat \ {0} /\ MaxLines \in Nat \ {0} /\ Height \in Nat /\ Page \in Nat \ {0}
    /\ End \in Nat /\ Last \in Nat /\ End = MaxId + 1 /\ Last = MaxLines + 1
    /\ End \notin Id /\ \A i \in Id : i \in Nat /\ i # 0 /\ i < End /\ i \in 0..End /\ i \in 1..End
<1>1. MaxId \in Nat \ {0} /\ MaxLines \in Nat \ {0} /\ Height \in Nat /\ Page \in Nat \ {0}
  BY ChatWindowAssumption
<1> QED BY <1>1 DEF End, Last, Id

(* Messages are functions from ids to lines. *)
LEMMA ContentsAre ==
    ASSUME NEW m
    PROVE  m \in Contents <=> m = [i \in DOMAIN m |-> m[i]] /\ DOMAIN m \subseteq Id
                              /\ \A i \in DOMAIN m : m[i] \in 1..MaxLines
BY DEF Contents

(* Storing a message in a window's message set: only that message changes. *)
LEMMA WithFacts ==
    ASSUME NEW m \in Contents, NEW id \in Id, NEW n \in 1..MaxLines
    PROVE  /\ With(m, id, n) \in Contents /\ DOMAIN With(m, id, n) = DOMAIN m \cup {id}
           /\ With(m, id, n)[id] = n
           /\ \A i \in DOMAIN m : i # id => With(m, id, n)[i] = m[i]
<1>1. DOMAIN m \subseteq Id /\ \A i \in DOMAIN m : m[i] \in 1..MaxLines
  BY ContentsAre
<1>2. /\ DOMAIN With(m, id, n) = DOMAIN m \cup {id} /\ With(m, id, n)[id] = n
      /\ \A i \in DOMAIN m : i # id => With(m, id, n)[i] = m[i]
  BY DEF With
<1>3. \A i \in DOMAIN m \cup {id} : (IF i = id THEN n ELSE m[i]) \in 1..MaxLines
  BY <1>1
<1>4. With(m, id, n) \in [DOMAIN m \cup {id} -> 1..MaxLines]
  BY <1>3 DEF With
<1>5. DOMAIN m \cup {id} \in SUBSET Id
  BY <1>1
<1> QED BY <1>2, <1>4, <1>5 DEF Contents

(* WithFacts, for the identifiers alone. *)
LEMMA WithDomain ==
    ASSUME NEW m \in Contents, NEW id \in Id, NEW n \in 1..MaxLines
    PROVE  DOMAIN With(m, id, n) = DOMAIN m \cup {id}
BY WithFacts

(* WithFacts, for the message stored. *)
LEMMA WithThere ==
    ASSUME NEW m \in Contents, NEW id \in Id, NEW n \in 1..MaxLines
    PROVE  With(m, id, n)[id] = n
BY WithFacts

(* WithFacts, for the messages that were there. *)
LEMMA WithOther ==
    ASSUME NEW m \in Contents, NEW id \in Id, NEW n \in 1..MaxLines, NEW i \in DOMAIN m, i # id
    PROVE  With(m, id, n)[i] = m[i]
BY WithFacts, Zenon

(* Keeping some messages of a set leaves each of them as it was. *)
LEMMA RestrictFacts ==
    ASSUME NEW m \in Contents, NEW S \in SUBSET DOMAIN m
    PROVE  /\ Restrict(m, S) \in Contents /\ DOMAIN Restrict(m, S) = S
           /\ \A i \in S : Restrict(m, S)[i] = m[i]
BY DEF Restrict, Contents

(* Removing a message leaves the others as they were. *)
LEMMA WithoutFacts ==
    ASSUME NEW m \in Contents, NEW id
    PROVE  /\ Without(m, id) \in Contents /\ DOMAIN Without(m, id) = DOMAIN m \ {id}
           /\ \A i \in DOMAIN m : i # id => Without(m, id)[i] = m[i]
BY RestrictFacts DEF Without

(* A window holds the newest of the page over what it had. *)
Merged(m, f) == [i \in DOMAIN m \cup DOMAIN f |-> IF i \in DOMAIN f THEN f[i] ELSE m[i]]

(* Storing a page: its messages replace those of the same identifiers. *)
LEMMA MergedFacts ==
    ASSUME NEW m \in Contents, NEW f \in Contents
    PROVE  /\ Merged(m, f) \in Contents /\ DOMAIN Merged(m, f) = DOMAIN m \cup DOMAIN f
           /\ \A i \in DOMAIN f : Merged(m, f)[i] = f[i]
           /\ \A i \in DOMAIN m : i \notin DOMAIN f => Merged(m, f)[i] = m[i]
<1>1. /\ DOMAIN m \subseteq Id /\ \A i \in DOMAIN m : m[i] \in 1..MaxLines
      /\ DOMAIN f \subseteq Id /\ \A i \in DOMAIN f : f[i] \in 1..MaxLines
  BY ContentsAre
<1>2. /\ DOMAIN Merged(m, f) = DOMAIN m \cup DOMAIN f
      /\ \A i \in DOMAIN f : Merged(m, f)[i] = f[i]
      /\ \A i \in DOMAIN m : i \notin DOMAIN f => Merged(m, f)[i] = m[i]
  BY DEF Merged
<1>3. \A i \in DOMAIN m \cup DOMAIN f : (IF i \in DOMAIN f THEN f[i] ELSE m[i]) \in 1..MaxLines
  BY <1>1
<1>4. Merged(m, f) \in [DOMAIN m \cup DOMAIN f -> 1..MaxLines]
  BY <1>3 DEF Merged
<1>5. DOMAIN m \cup DOMAIN f \in SUBSET Id
  BY <1>1
<1> QED BY <1>2, <1>4, <1>5 DEF Contents

-----------------------------------------------------------------------------
(***************************************************************************)
(* redraw.                                                                 *)
(***************************************************************************)

(* What may be drawn: text is there only at the end of the chat. *)
Sketch(w) == w \in Windows /\ (w.text => w.bottom = End)
View(w) ==
    /\ Sketch(w)
    /\ \/ w.bottom = End
       \/ w.bottom \in DOMAIN w.msgs /\ w.line < w.msgs[w.bottom]

(* Drawing brings the bottom to a line there is, and changes nothing else  *)
(* but that a page is waited for.                                          *)
LEMMA SettledFacts ==
    ASSUME NEW w, Sketch(w)
    PROVE  /\ View(Settled(w))
           /\ Settled(w).chat = w.chat /\ Settled(w).first = w.first
           /\ Settled(w).msgs = w.msgs /\ Settled(w).running = w.running
<1>1. w \in Windows /\ (w.text => w.bottom = End)
  BY DEF Sketch
<1>2. w.msgs \in Contents /\ w.line \in 0..Last /\ w.bottom \in 0..End
  BY <1>1 DEF Windows
<1>3. CASE w.bottom \notin DOMAIN w.msgs
  <2>1. Settled(w) = [w EXCEPT !.bottom = End, !.line = Last]
    BY <1>3 DEF Settled
  <2>2. End \in 0..End /\ Last \in 0..Last
    BY Bounds
  <2>3. Settled(w) \in Windows
    BY <1>1, <2>1, <2>2 DEF Windows
  <2> QED BY <1>1, <2>1, <2>3 DEF View, Sketch, Windows
<1>4. CASE w.bottom \in DOMAIN w.msgs
  <2> DEFINE l == IF w.msgs[w.bottom] <= w.line THEN w.msgs[w.bottom] - 1 ELSE w.line
  <2>1. Settled(w) = [w EXCEPT !.line = l]
    BY <1>4 DEF Settled
  <2>2. w.msgs[w.bottom] \in 1..MaxLines
    BY <1>2, <1>4, ContentsAre
  <2>3. l \in 0..Last /\ l < w.msgs[w.bottom]
    BY <1>2, <2>2, Bounds
  <2> HIDE DEF l
  <2>4. Settled(w) \in Windows
    BY <1>1, <2>1, <2>3 DEF Windows
  <2> QED BY <1>1, <1>4, <2>1, <2>3, <2>4 DEF View, Sketch, Windows
<1> QED BY <1>3, <1>4

(* A redraw keeps the chat, the messages and first, ends in a view, and asks for older
   messages exactly when rows are free and some may be left. *)
LEMMA RedrawnFacts ==
    ASSUME NEW w, Sketch(w)
    PROVE  LET r == Redrawn(w) IN
           /\ View(r)
           /\ r.chat = w.chat /\ r.first = w.first /\ r.msgs = w.msgs
           /\ r.running <=> w.running \/ (RowsFree(r) /\ r.first > 0)
<1> DEFINE s == Settled(w)
           ask == RowsFree(s) /\ s.first > 0
           r == Redrawn(w)
<1>1. /\ View(s) /\ s \in Windows
      /\ s.chat = w.chat /\ s.first = w.first /\ s.msgs = w.msgs /\ s.running = w.running
  BY SettledFacts DEF View, Sketch
<1>2. r = [s EXCEPT !.running = s.running \/ ask]
  BY DEF Redrawn
<1>3. (s.running \/ ask) \in BOOLEAN
  OBVIOUS
<1> HIDE DEF s, ask, r
<1>4. /\ r \in Windows /\ r.chat = s.chat /\ r.first = s.first /\ r.msgs = s.msgs
      /\ r.bottom = s.bottom /\ r.line = s.line /\ r.text = s.text
      /\ r.running = (s.running \/ ask)
  BY <1>1, <1>2, <1>3 DEF Windows
<1>5. RowsFree(r) <=> RowsFree(s)
  BY <1>4 DEF RowsFree
<1>6. View(r)
  BY <1>1, <1>4 DEF View, Sketch
<1> QED BY <1>1, <1>4, <1>5, <1>6 DEF ask, r

(* A drawn window with room for older messages waits for them. *)
Full(w) == View(w) /\ (RowsFree(w) /\ w.first > 0 => w.running)

(* The window w, drawn as r: a page of the same history is waited for, or  *)
(* one that there may be.                                                  *)
Grows(w, r) ==
    /\ Full(r) /\ r.chat = w.chat /\ r.first = w.first
    /\ w.running => r.running
    /\ r.running /\ ~w.running => r.first > 0

(* The requests when w has become r. *)
Asked(w, r) == IF r.running /\ ~w.running
               THEN Append(pending, [chat |-> r.chat, from |-> r.first])
               ELSE pending

(* Drawing keeps the messages and makes the window full. *)
LEMMA RedrawnGrows ==
    ASSUME NEW w, Sketch(w)
    PROVE  Grows(w, Redrawn(w)) /\ Redrawn(w).msgs = w.msgs
<1> DEFINE r == Redrawn(w)
<1>1. /\ View(r) /\ r.chat = w.chat /\ r.first = w.first /\ r.msgs = w.msgs
      /\ r.running <=> w.running \/ (RowsFree(r) /\ r.first > 0)
  BY RedrawnFacts
<1> HIDE DEF r
<1>2. Grows(w, r) /\ r.msgs = w.msgs
  BY <1>1 DEF Grows, Full
<1> QED BY <1>2 DEF r

(* A window that stays as it is, is drawn already. *)
LEMMA StillGrows ==
    ASSUME NEW w, Full(w)
    PROVE  Grows(w, w) /\ Asked(w, w) = pending
BY DEF Grows, Asked

(* Two steps that only extend a window make one. *)
LEMMA GrowsAgain ==
    ASSUME NEW w, NEW d, NEW r, Grows(w, d), Grows(d, r)
    PROVE  Grows(w, r)
BY DEF Grows

(* add_message puts the message into the window and leaves the rest. *)
LEMMA AddedFacts ==
    ASSUME NEW w, Full(w), NEW id \in Id, NEW n \in 1..MaxLines
    PROVE  LET a == Added(w, id, n) IN
           /\ Sketch(a) /\ a.chat = w.chat /\ a.first = w.first /\ a.running = w.running
           /\ a.msgs = With(w.msgs, id, n)
<1>1. w \in Windows /\ (w.text => w.bottom = End)
  BY DEF Full, View, Sketch
<1>2. With(w.msgs, id, n) \in Contents
  BY <1>1, WithFacts DEF Windows
<1>3. Added(w, id, n) = [w EXCEPT !.msgs = With(w.msgs, id, n)]
  BY DEF Added
<1> QED BY <1>1, <1>2, <1>3 DEF Sketch, Windows

(* A message stored and drawn extends the window by that message. *)
LEMMA AddedGrows ==
    ASSUME NEW w, Full(w), NEW id \in Id, NEW n \in 1..MaxLines
    PROVE  /\ Grows(w, Redrawn(Added(w, id, n)))
           /\ Redrawn(Added(w, id, n)).msgs = With(w.msgs, id, n)
<1> DEFINE a == Added(w, id, n)
<1>1. /\ Sketch(a) /\ a.chat = w.chat /\ a.first = w.first /\ a.running = w.running
      /\ a.msgs = With(w.msgs, id, n)
  BY AddedFacts
<1> HIDE DEF a
<1>2. Grows(a, Redrawn(a)) /\ Redrawn(a).msgs = a.msgs
  BY <1>1, RedrawnGrows
<1>3. Grows(w, Redrawn(a)) /\ Redrawn(a).msgs = With(w.msgs, id, n)
  BY <1>1, <1>2 DEF Grows
<1> QED BY <1>3 DEF a

(* delete_message takes the message out of the window and leaves the rest. *)
LEMMA DeletedGrows ==
    ASSUME NEW w, Full(w), NEW id \in Id
    PROVE  LET d == Deleted(w, id) IN
           /\ Grows(w, d) /\ d.msgs \in Contents /\ DOMAIN d.msgs = DOMAIN w.msgs \ {id}
           /\ \A i \in DOMAIN w.msgs : i # id => d.msgs[i] = w.msgs[i]
<1>1. w \in Windows /\ w.msgs \in Contents /\ (w.text => w.bottom = End)
  BY DEF Full, View, Sketch, Windows
<1>2. CASE id \notin DOMAIN w.msgs
  BY <1>1, <1>2, StillGrows DEF Deleted
<1>3. CASE id \in DOMAIN w.msgs
  <2> DEFINE b == IF w.bottom = id THEN 0 ELSE w.bottom
             s == [w EXCEPT !.msgs = Without(w.msgs, id), !.bottom = b]
             m == Without(w.msgs, id)
  <2>1. Deleted(w, id) = Redrawn(s)
    BY <1>3 DEF Deleted
  <2>2. /\ m \in Contents /\ DOMAIN m = DOMAIN w.msgs \ {id}
        /\ \A i \in DOMAIN w.msgs : i # id => m[i] = w.msgs[i]
    BY <1>1, WithoutFacts
  <2>3. b \in 0..End /\ (w.text => b = End)
    BY <1>1, Bounds DEF Windows
  <2>4. /\ Sketch(s) /\ s.chat = w.chat /\ s.first = w.first /\ s.running = w.running
        /\ s.msgs = m
    <3> HIDE DEF b
    <3> QED BY <1>1, <2>2, <2>3 DEF Sketch, Windows
  <2> HIDE DEF s, m, b
  <2>5. Grows(s, Redrawn(s)) /\ Redrawn(s).msgs = s.msgs
    BY <2>4, RedrawnGrows
  <2>6. Grows(w, Redrawn(s)) /\ Redrawn(s).msgs = m
    BY <2>4, <2>5 DEF Grows
  <2> QED BY <2>1, <2>2, <2>6
<1> QED BY <1>2, <1>3

(* A sketch that differs from a window only in the place it ends at.       *)
LEMMA MovedGrows ==
    ASSUME NEW w, Full(w), NEW s, Sketch(s), s.chat = w.chat, s.first = w.first,
           s.running = w.running, s.msgs = w.msgs
    PROVE  Grows(w, Redrawn(s)) /\ Redrawn(s).msgs = w.msgs
<1>1. Grows(s, Redrawn(s)) /\ Redrawn(s).msgs = s.msgs
  BY RedrawnGrows
<1> QED BY <1>1 DEF Grows

-----------------------------------------------------------------------------
(***************************************************************************)
(* What is on its way, and the types.                                      *)
(***************************************************************************)
Requests == [chat : Chat, from : 1..End]

Said ==
    [of : {"new", "edit"}, chat : Chat, id : Id, lines : 1..MaxLines]
    \cup [of : {"sent"}, chat : Chat, old : Id, id : Id, lines : 1..MaxLines]
    \cup [of : {"delete"}, chat : Chat, id : Id]
    \cup [of : {"page"}, query : Requests, msgs : Contents]
    \cup [of : {"failed"}, query : Requests]

TdOK == msgs \in [Chat -> Contents] /\ nextId \in 1..End
QueueOK == pending \in Seq(Requests) /\ inbox \in Seq(Said)
BudgetOK == budget \in [changes : 0..MaxChanges, failures : 0..MaxFailures, opens : 0..MaxOpens]
WindowOK == win # NoWindow => Full(win)

TypeInv == TdOK /\ QueueOK /\ BudgetOK /\ WindowOK

(* What is said has the fields of its kind. *)
LEMMA SaidFields ==
    ASSUME NEW m \in Said
    PROVE  /\ m.of \in {"new", "edit", "sent", "delete", "page", "failed"}
           /\ m.of \in {"new", "edit", "sent"} =>
                m.chat \in Chat /\ m.id \in Id /\ m.lines \in 1..MaxLines
           /\ m.of = "sent" => m.old \in Id
           /\ m.of = "delete" => m.chat \in Chat /\ m.id \in Id
           /\ m.of \in {"page", "failed"} => m.query \in Requests
           /\ m.of = "page" => m.msgs \in Contents
BY DEF Said

(* A request that is sent is one. *)
LEMMA AskedRequests ==
    ASSUME NEW w, NEW r, r \in Windows, pending \in Seq(Requests),
           r.running /\ ~w.running => r.first > 0
    PROVE  Asked(w, r) \in Seq(Requests)
<1>1. CASE r.running /\ ~w.running
  <2>1. r.first \in 1..End /\ r.chat \in Chat
    BY <1>1, Bounds DEF Windows
  <2>2. [chat |-> r.chat, from |-> r.first] \in Requests
    BY <2>1 DEF Requests
  <2> QED BY <1>1, <2>2, AppendProperties DEF Asked
<1>2. CASE ~ (r.running /\ ~w.running)
  BY <1>2 DEF Asked
<1> QED BY <1>1, <1>2

-----------------------------------------------------------------------------
(***************************************************************************)
(* What the client makes of what it hears.                                 *)
(***************************************************************************)

(* A message m of the inbox tells that the chat ch has a message i from    *)
(* now on, that i has m.lines lines, or that i is gone.                    *)
Creates(m, ch, i) == m.of \in {"new", "sent"} /\ m.chat = ch /\ m.id = i
Writes(m, ch, i) == m.of \in {"new", "sent", "edit"} /\ m.chat = ch /\ m.id = i
Removes(m, ch, i) ==
    \/ m.of = "delete" /\ m.chat = ch /\ m.id = i
    \/ m.of = "sent" /\ m.chat = ch /\ m.old = i

(* The window w has become r, and has taken in what the update m says.     *)
Takes(w, m, r) ==
    /\ Grows(w, r)
    /\ \A i \in DOMAIN r.msgs :
         \/ Writes(m, w.chat, i) /\ r.msgs[i] = m.lines
         \/ /\ ~Writes(m, w.chat, i) /\ ~Removes(m, w.chat, i)
            /\ i \in DOMAIN w.msgs /\ r.msgs[i] = w.msgs[i]
    /\ \A i \in DOMAIN w.msgs : ~Removes(m, w.chat, i) => i \in DOMAIN r.msgs
    /\ \A i \in Id : Creates(m, w.chat, i) => i \in DOMAIN r.msgs

(* A notice about another chat, or an edit of a message not held, is rightly dropped. *)
LEMMA TakesNothing ==
    ASSUME NEW w, Full(w), NEW m \in Said, m.of \in {"new", "edit", "sent", "delete"},
           m.chat # w.chat \/ (m.of = "edit" /\ m.id \notin DOMAIN w.msgs)
    PROVE  Takes(w, m, w)
BY StillGrows DEF Takes, Writes, Removes, Creates

(* A new or edited message of the chat is rightly taken by storing it. *)
LEMMA TakesContent ==
    ASSUME NEW w, Full(w), NEW m \in Said, m.of \in {"new", "edit"}, m.chat = w.chat
    PROVE  Takes(w, m, Redrawn(Added(w, m.id, m.lines)))
<1>1. w.msgs \in Contents
  BY DEF Full, View, Sketch, Windows
<1>2. PICK id \in Id, n \in 1..MaxLines : id = m.id /\ n = m.lines
  BY SaidFields
<1> DEFINE r == Redrawn(Added(w, id, n))
<1>3. Grows(w, r) /\ r.msgs = With(w.msgs, id, n)
  BY AddedGrows
<1> HIDE DEF r
<1>4. /\ DOMAIN r.msgs = DOMAIN w.msgs \cup {id} /\ r.msgs[id] = n
      /\ \A i \in DOMAIN w.msgs : i # id => r.msgs[i] = w.msgs[i]
  <2>1. DOMAIN r.msgs = DOMAIN w.msgs \cup {id}
    BY <1>1, <1>3, WithDomain
  <2>2. r.msgs[id] = n
    BY <1>1, <1>3, WithThere
  <2>3. ASSUME NEW i \in DOMAIN w.msgs, i # id PROVE r.msgs[i] = w.msgs[i]
    BY <1>1, <1>3, <2>3, WithOther
  <2> QED BY <2>1, <2>2, <2>3
<1>5. Takes(w, m, r)
  BY <1>2, <1>3, <1>4 DEF Takes, Writes, Removes, Creates
<1> QED BY <1>2, <1>5 DEF r

(* A deletion in the chat is rightly taken by removing the message. *)
LEMMA TakesDeletion ==
    ASSUME NEW w, Full(w), NEW m \in Said, m.of = "delete", m.chat = w.chat
    PROVE  Takes(w, m, Deleted(w, m.id))
<1> DEFINE r == Deleted(w, m.id)
<1>1. m.id \in Id
  BY SaidFields
<1>2. /\ Grows(w, r) /\ DOMAIN r.msgs = DOMAIN w.msgs \ {m.id}
      /\ \A i \in DOMAIN w.msgs : i # m.id => r.msgs[i] = w.msgs[i]
  BY <1>1, DeletedGrows
<1> HIDE DEF r
<1>3. Takes(w, m, r)
  BY <1>2 DEF Takes, Writes, Removes, Creates
<1> QED BY <1>3 DEF r

(* A sent message is rightly taken by removing the provisional one and storing the final one. *)
LEMMA TakesSending ==
    ASSUME NEW w, Full(w), NEW m \in Said, m.of = "sent", m.chat = w.chat
    PROVE  Takes(w, m, Redrawn(Added(Deleted(w, m.old), m.id, m.lines)))
<1>1. PICK old \in Id, id \in Id, n \in 1..MaxLines : old = m.old /\ id = m.id /\ n = m.lines
  BY SaidFields
<1> DEFINE d == Deleted(w, old)
           r == Redrawn(Added(d, id, n))
<1>2. /\ Grows(w, d) /\ d.msgs \in Contents /\ DOMAIN d.msgs = DOMAIN w.msgs \ {old}
      /\ \A i \in DOMAIN w.msgs : i # old => d.msgs[i] = w.msgs[i]
  BY DeletedGrows
<1> HIDE DEF d
<1>3. Grows(d, r) /\ r.msgs = With(d.msgs, id, n)
  BY <1>2, AddedGrows DEF Grows
<1> HIDE DEF r
<1>4. /\ DOMAIN r.msgs = DOMAIN d.msgs \cup {id} /\ r.msgs[id] = n
      /\ \A i \in DOMAIN d.msgs : i # id => r.msgs[i] = d.msgs[i]
  <2>0. d.msgs \in Contents /\ r.msgs = With(d.msgs, id, n)
    BY <1>2, <1>3
  <2>1. DOMAIN r.msgs = DOMAIN d.msgs \cup {id}
    BY <2>0, WithDomain
  <2>2. r.msgs[id] = n
    BY <1>2, <1>3, WithThere
  <2>3. ASSUME NEW i \in DOMAIN d.msgs, i # id PROVE r.msgs[i] = d.msgs[i]
    BY <1>2, <1>3, <2>3, WithOther
  <2> QED BY <2>1, <2>2, <2>3
<1>5. Grows(w, r)
  BY <1>2, <1>3, GrowsAgain
<1>6. Takes(w, m, r)
  BY <1>1, <1>2, <1>4, <1>5 DEF Takes, Writes, Removes, Creates
<1> QED BY <1>1, <1>6 DEF r, d

(* What is shown is drawn. *)
LEMMA ShowIs ==
    ASSUME NEW d, Show(d)
    PROVE  win' = Redrawn(d) /\ pending' = Asked(d, Redrawn(d))
BY DEF Show, Become, Asked

Update == \/ updateNewMessage \/ updateMessageSendSucceeded
          \/ updateDeleteMessages \/ updateMessageContent

(* An update is taken into the window there is. *)
LEMMA UpdateHeard ==
    ASSUME TypeInv, Update
    PROVE  /\ inbox # <<>> /\ inbox' = Tail(inbox)
           /\ Head(inbox).of \in {"new", "edit", "sent", "delete"}
           /\ UNCHANGED <<msgs, nextId, budget>>
           /\ win = NoWindow => win' = win /\ pending' = pending
           /\ win # NoWindow => Takes(win, Head(inbox), win') /\ pending' = Asked(win, win')
<1> DEFINE m == Head(inbox)
<1>1. /\ inbox # <<>> /\ inbox' = Tail(inbox) /\ m.of \in {"new", "edit", "sent", "delete"}
      /\ UNCHANGED <<msgs, nextId, budget>>
  BY DEF Update, updateNewMessage, updateMessageSendSucceeded, updateDeleteMessages,
         updateMessageContent, Hear, tdVars
<1>2. m \in Said
  BY <1>1, HeadTailProperties DEF TypeInv, QueueOK
<1>3. CASE win = NoWindow
  BY <1>1, <1>3 DEF Update, updateNewMessage, updateMessageSendSucceeded, updateDeleteMessages,
         updateMessageContent, Mine, Ignored
<1>4. CASE win # NoWindow
  <2>1. Full(win)
    BY <1>4 DEF TypeInv, WindowOK
  <2>2. CASE Ignored /\ (m.chat # win.chat \/ (m.of = "edit" /\ m.id \notin DOMAIN win.msgs))
    BY <1>1, <1>2, <1>4, <2>1, <2>2, TakesNothing, StillGrows DEF Ignored
  <2>3. CASE m.of \in {"new", "edit"} /\ m.chat = win.chat /\ Show(Added(win, m.id, m.lines))
    <3> DEFINE a == Added(win, m.id, m.lines)
    <3>1. Takes(win, m, Redrawn(a))
      BY <1>2, <2>1, <2>3, TakesContent
    <3>2. win' = Redrawn(a) /\ pending' = Asked(a, Redrawn(a))
      BY <2>3, ShowIs
    <3>3. a.running = win.running
      <4>1. m.id \in Id /\ m.lines \in 1..MaxLines
        BY <1>2, <2>3, SaidFields
      <4> QED BY <2>1, <4>1, AddedFacts
    <3> HIDE DEF a
    <3>4. pending' = Asked(win, win')
      BY <3>2, <3>3 DEF Asked
    <3> QED BY <1>1, <1>4, <3>1, <3>2, <3>4
  <2>4. CASE m.of = "delete" /\ m.chat = win.chat /\ Become(win, Deleted(win, m.id))
    BY <1>1, <1>2, <1>4, <2>1, <2>4, TakesDeletion DEF Become, Asked
  <2>5. CASE /\ m.of = "sent" /\ m.chat = win.chat
             /\ Become(win, Redrawn(Added(Deleted(win, m.old), m.id, m.lines)))
    BY <1>1, <1>2, <1>4, <2>1, <2>5, TakesSending DEF Become, Asked
  <2>6. CASE updateNewMessage
    BY <1>4, <2>2, <2>3, <2>6 DEF updateNewMessage, Hear, Mine
  <2>7. CASE updateMessageContent
    BY <1>4, <2>2, <2>3, <2>7 DEF updateMessageContent, Hear, Mine
  <2>8. CASE updateDeleteMessages
    BY <1>4, <2>2, <2>4, <2>8 DEF updateDeleteMessages, Hear, Mine
  <2>9. CASE updateMessageSendSucceeded
    BY <1>4, <2>2, <2>5, <2>9 DEF updateMessageSendSucceeded, Hear, Mine
  <2> QED BY <2>6, <2>7, <2>8, <2>9 DEF Update
<1> QED BY <1>3, <1>4

(* The requests when the window r has just been drawn, and w, which it was *)
(* before, waited for nothing.                                             *)
LEMMA AskedAnew ==
    ASSUME NEW w, NEW r, w.running = FALSE, Grows(w, r)
    PROVE  /\ Asked(w, r) = IF r.running THEN Append(pending, [chat |-> r.chat, from |-> r.first])
                            ELSE pending
           /\ r.running => r.first > 0
BY DEF Asked, Grows

(* A page that is taken is put over what there is, and ends the waiting.   *)
Paged(w, f, first) == [w EXCEPT !.msgs = Merged(w.msgs, f), !.first = first, !.running = FALSE]

(* A page only adds its messages, sets first and ends the wait. *)
LEMMA PageTaken ==
    ASSUME NEW w, Full(w), NEW f \in Contents, NEW first \in 0..End
    PROVE  /\ Sketch(Paged(w, f, first)) /\ Paged(w, f, first).chat = w.chat
           /\ Paged(w, f, first).first = first /\ Paged(w, f, first).running = FALSE
           /\ Paged(w, f, first).msgs = Merged(w.msgs, f)
<1>1. w \in Windows /\ (w.text => w.bottom = End) /\ w.msgs \in Contents
  BY DEF Full, View, Sketch, Windows
<1>2. Merged(w.msgs, f) \in Contents
  BY <1>1, MergedFacts
<1> QED BY <1>1, <1>2 DEF Paged, Sketch, Windows

(* first stays a message identifier, or zero. *)
LEMMA NextFirstIs ==
    ASSUME NEW first \in 0..End, NEW S \in SUBSET Id
    PROVE  NextFirst(first, S) \in 0..End
<1>1. CASE S = {}
  BY <1>1, Bounds DEF NextFirst
<1>2. CASE S # {}
  <2>1. S \subseteq Nat
    BY Bounds
  <2>2. Min(S) \in S
    BY <1>2, <2>1, LeastNumber
  <2> QED BY <1>2, <2>2, Bounds DEF NextFirst
<1> QED BY <1>1, <1>2

(* The whole effect of a page of history: nothing unless the window waits for it, otherwise
   its messages, the new first and perhaps the next request. *)
LEMMA PageHeard ==
    ASSUME TypeInv, add_history
    PROVE  LET m == Head(inbox) IN
           /\ inbox # <<>> /\ inbox' = Tail(inbox) /\ m.of = "page"
           /\ UNCHANGED <<msgs, nextId, budget>>
           /\ ~Waits(m.query) => win' = win /\ pending' = pending
           /\ Waits(m.query) =>
                /\ Full(win') /\ win'.chat = win.chat /\ win'.msgs = Merged(win.msgs, m.msgs)
                /\ win'.first = NextFirst(win.first, DOMAIN m.msgs)
                /\ pending' = IF win'.running
                              THEN Append(pending, [chat |-> win'.chat, from |-> win'.first])
                              ELSE pending
                /\ win'.running => win'.first > 0
<1> DEFINE m == Head(inbox)
<1>1. /\ inbox # <<>> /\ inbox' = Tail(inbox) /\ m.of = "page"
      /\ UNCHANGED <<msgs, nextId, budget>>
  BY DEF add_history, Hear, tdVars
<1>2. CASE ~Waits(m.query)
  BY <1>1, <1>2 DEF add_history, Ignored
<1>3. CASE Waits(m.query)
  <2>1. m \in Said
    BY <1>1, HeadTailProperties DEF TypeInv, QueueOK
  <2>2. PICK f \in Contents : f = m.msgs
    BY <1>1, <2>1, SaidFields
  <2>3. Full(win) /\ win.first \in 0..End
    BY <1>3 DEF TypeInv, WindowOK, Waits, Mine, Full, View, Sketch, Windows
  <2>4. PICK first \in 0..End : first = NextFirst(win.first, DOMAIN m.msgs)
    BY <2>2, <2>3, NextFirstIs, ContentsAre
  <2> DEFINE s == Paged(win, f, first)
  <2>5. Show(s)
    BY <1>3, <2>2, <2>4 DEF add_history, Merged, Paged
  <2>6. /\ Sketch(s) /\ s.chat = win.chat /\ s.first = first /\ s.running = FALSE
        /\ s.msgs = Merged(win.msgs, f)
    BY <2>3, PageTaken
  <2> HIDE DEF s, m
  <2>7. win' = Redrawn(s) /\ pending' = Asked(s, Redrawn(s))
    BY <2>5, ShowIs
  <2>8. Grows(s, win') /\ win'.msgs = s.msgs
    BY <2>6, <2>7, RedrawnGrows
  <2>9. /\ Full(win') /\ win'.chat = win.chat /\ win'.first = first
        /\ win'.msgs = Merged(win.msgs, m.msgs)
    BY <2>2, <2>6, <2>8 DEF Grows
  <2>10. /\ pending' = IF win'.running
                       THEN Append(pending, [chat |-> win'.chat, from |-> win'.first])
                       ELSE pending
         /\ win'.running => win'.first > 0
    BY <2>6, <2>7, <2>8, AskedAnew
  <2> QED BY <1>1, <1>3, <2>4, <2>9, <2>10 DEF m
<1> QED BY <1>2, <1>3

(* The whole effect of a failed request: nothing unless the window waits for it, otherwise
   the end of the wait and perhaps the same request again. *)
LEMMA FailureHeard ==
    ASSUME TypeInv, get_history_failed
    PROVE  LET m == Head(inbox) IN
           /\ inbox # <<>> /\ inbox' = Tail(inbox) /\ m.of = "failed"
           /\ UNCHANGED <<msgs, nextId, budget>>
           /\ ~Waits(m.query) => win' = win /\ pending' = pending
           /\ Waits(m.query) =>
                /\ Full(win') /\ win'.chat = win.chat /\ win'.msgs = win.msgs
                /\ win'.first = win.first
                /\ pending' = IF win'.running
                              THEN Append(pending, [chat |-> win'.chat, from |-> win'.first])
                              ELSE pending
                /\ win'.running => win'.first > 0
<1> DEFINE m == Head(inbox)
<1>1. /\ inbox # <<>> /\ inbox' = Tail(inbox) /\ m.of = "failed"
      /\ UNCHANGED <<msgs, nextId, budget>>
  BY DEF get_history_failed, Hear, tdVars
<1>2. CASE ~Waits(m.query)
  BY <1>1, <1>2 DEF get_history_failed, Ignored
<1>3. CASE Waits(m.query)
  <2> DEFINE s == [win EXCEPT !.running = FALSE]
  <2>1. Full(win)
    BY <1>3 DEF TypeInv, WindowOK, Waits, Mine
  <2>2. Show(s)
    BY <1>3 DEF get_history_failed
  <2>3. /\ Sketch(s) /\ s.chat = win.chat /\ s.first = win.first /\ s.running = FALSE
        /\ s.msgs = win.msgs
    BY <2>1 DEF Full, View, Sketch, Windows
  <2> HIDE DEF s, m
  <2>4. win' = Redrawn(s) /\ pending' = Asked(s, Redrawn(s))
    BY <2>2, ShowIs
  <2>5. Grows(s, win') /\ win'.msgs = s.msgs
    BY <2>3, <2>4, RedrawnGrows
  <2>6. Full(win') /\ win'.chat = win.chat /\ win'.first = win.first /\ win'.msgs = win.msgs
    BY <2>3, <2>5 DEF Grows
  <2>7. /\ pending' = IF win'.running
                      THEN Append(pending, [chat |-> win'.chat, from |-> win'.first])
                      ELSE pending
        /\ win'.running => win'.first > 0
    BY <2>3, <2>4, <2>5, AskedAnew
  <2> QED BY <1>1, <1>3, <2>6, <2>7 DEF m
<1> QED BY <1>2, <1>3

-----------------------------------------------------------------------------
(***************************************************************************)
(* Keys.                                                                   *)
(***************************************************************************)

(* A place of the window without text: a message or not, and a line. *)
LEMMA PlaceSketch ==
    ASSUME NEW w, Full(w), ~w.text, NEW b \in 0..End, NEW l \in 0..Last
    PROVE  LET s == [w EXCEPT !.bottom = b, !.line = l] IN
           /\ Sketch(s) /\ s.chat = w.chat /\ s.first = w.first /\ s.running = w.running
           /\ s.msgs = w.msgs
BY DEF Full, View, Sketch, Windows

(* The window w with another place. *)
Placed(w, s) == \E b \in 0..End, n \in 0..Last : s = [w EXCEPT !.bottom = b, !.line = n]

(* One message up, or one line. *)
LEMMA UpPlace ==
    ASSUME NEW w, Full(w), NEW id \in DOMAIN w.msgs, NEW l \in 0..Last
    PROVE  Placed(w, UpFrom(w, id, l))
<1> DEFINE older == Older(w.msgs, id)
           to == IF l = 0 /\ older # {} THEN Max(older) ELSE id
           n == IF l # 0 THEN l - 1 ELSE IF older # {} THEN Last - 1 ELSE 0
           at == IF n >= w.msgs[to] THEN w.msgs[to] - 1 ELSE n
<1>1. w.msgs \in Contents
  BY DEF Full, View, Sketch, Windows
<1>2. DOMAIN w.msgs \subseteq Id /\ w.msgs[id] \in 1..MaxLines
  BY <1>1, ContentsAre
<1>3. older \in SUBSET (0..End) /\ End \in Nat
  BY <1>2, Bounds DEF Older
<1>4. to \in DOMAIN w.msgs /\ to \in 0..End
  <2>1. older # {} => Max(older) \in older
    <3> HIDE DEF older
    <3> QED BY <1>3, GreatestNumber
  <2>2. id \in 0..End
    BY <1>2, Bounds
  <2>3. older \subseteq DOMAIN w.msgs
    BY DEF Older
  <2> HIDE DEF older
  <2> QED BY <1>3, <2>1, <2>2, <2>3
<1>5. n \in 0..Last
  <2> HIDE DEF older
  <2> QED BY Bounds
<1>6. at \in 0..Last
  <2>1. w.msgs[to] \in 1..MaxLines
    <3> HIDE DEF to
    <3> QED BY <1>1, <1>4, ContentsAre
  <2> HIDE DEF n, to
  <2> QED BY <2>1, <1>5, Bounds
<1>7. UpFrom(w, id, l) = [w EXCEPT !.bottom = to, !.line = at]
  BY DEF UpFrom
<1> HIDE DEF to, at
<1> QED BY <1>4, <1>6, <1>7 DEF Placed

(* One message down, or one line. *)
LEMMA DownPlace ==
    ASSUME NEW w, Full(w), NEW id \in DOMAIN w.msgs
    PROVE  Placed(w, DownFrom(w, id))
<1>1. w \in Windows /\ w.msgs \in Contents /\ w.line \in 0..Last /\ w.bottom \in 0..End
  BY DEF Full, View, Sketch, Windows
<1>2. DOMAIN w.msgs \subseteq Id /\ w.msgs[id] \in 1..MaxLines
  BY <1>1, ContentsAre
<1>3. CASE w.line < w.msgs[id] - 1
  <2>1. w.line + 1 \in 0..Last
    BY <1>1, <1>2, <1>3, Bounds
  <2>2. DownFrom(w, id) = [w EXCEPT !.line = w.line + 1]
    BY <1>3 DEF DownFrom
  <2>3. DownFrom(w, id) = [w EXCEPT !.bottom = w.bottom, !.line = w.line + 1]
    BY <1>1, <2>2 DEF Windows
  <2> QED BY <1>1, <2>1, <2>3 DEF Placed
<1>4. CASE ~(w.line < w.msgs[id] - 1) /\ Newer(w.msgs, id) = {}
  <2>1. DownFrom(w, id) = [w EXCEPT !.bottom = End, !.line = Last]
    BY <1>4 DEF DownFrom
  <2>2. End \in 0..End /\ Last \in 0..Last
    BY Bounds
  <2> QED BY <2>1, <2>2 DEF Placed
<1>5. CASE ~(w.line < w.msgs[id] - 1) /\ Newer(w.msgs, id) # {}
  <2> DEFINE newer == Newer(w.msgs, id)
  <2>1. newer \subseteq Id /\ newer \subseteq Nat
    BY <1>2, Bounds DEF Newer
  <2>2. DownFrom(w, id) = [w EXCEPT !.bottom = Min(newer), !.line = 0]
    BY <1>5 DEF DownFrom
  <2>3. newer # {}
    BY <1>5
  <2> HIDE DEF newer
  <2>4. Min(newer) \in newer
    BY <2>1, <2>3, LeastNumber
  <2>5. PICK k \in Id : k = Min(newer)
    BY <2>1, <2>4
  <2>6. k \in 0..End /\ 0 \in 0..Last
    BY Bounds
  <2> QED BY <2>2, <2>5, <2>6 DEF Placed
<1> QED BY <1>3, <1>4, <1>5

(* An empty window is one that may be drawn. *)
Fresh(c) == [chat |-> c, first |-> End, running |-> FALSE, msgs |-> <<>>,
             bottom |-> 0, line |-> 0, text |-> FALSE]

(* A window just opened is empty and has all of the history to ask for. *)
LEMMA FreshSketch ==
    ASSUME NEW c \in Chat
    PROVE  Sketch(Fresh(c)) /\ Fresh(c).first = End /\ Fresh(c).chat = c
           /\ Fresh(c).running = FALSE /\ DOMAIN Fresh(c).msgs = {}
<1>1. <<>> \in Contents
  <2>1. DOMAIN <<>> = {} /\ <<>> = [i \in {} |-> 1]
    OBVIOUS
  <2>2. [i \in {} |-> 1] \in [{} -> 1..MaxLines]
    OBVIOUS
  <2> QED BY <2>1, <2>2 DEF Contents
<1>2. DOMAIN <<>> = {}
  OBVIOUS
<1>3. 0 \in 0..End /\ End \in 0..End /\ 0 \in 0..Last
  BY Bounds
<1> QED BY <1>1, <1>2, <1>3 DEF Fresh, Sketch, Windows

(* A key opens a window, closes it, or moves in it. *)
LEMMA UserCases ==
    ASSUME TypeInv, User
    PROVE  /\ UNCHANGED <<msgs, nextId, inbox>> /\ BudgetOK'
           /\ \/ /\ win = NoWindow /\ Full(win') /\ win'.chat \in Chat /\ win'.first = End
                 /\ DOMAIN win'.msgs = {}
                 /\ pending' = IF win'.running
                               THEN Append(pending, [chat |-> win'.chat, from |-> win'.first])
                               ELSE pending
                 /\ win'.running => win'.first > 0
              \/ win' = NoWindow /\ pending' = pending
              \/ /\ win # NoWindow /\ Grows(win, win') /\ win'.msgs = win.msgs
                 /\ pending' = Asked(win, win')
<1>1. CASE \E c \in Chat : Open(c)
  <2>1. PICK c \in Chat : Open(c)
    BY <1>1
  <2>2. win = NoWindow /\ UNCHANGED <<msgs, nextId, inbox>> /\ Show(Fresh(c)) /\ Spend("opens")
    BY <2>1 DEF Open, tdVars, Fresh
  <2>3. BudgetOK'
    BY <2>2, ChatWindowAssumption DEF Spend, TypeInv, BudgetOK
  <2> DEFINE s == Fresh(c)
  <2>4. /\ Sketch(s) /\ s.first = End /\ s.chat = c /\ s.running = FALSE
        /\ DOMAIN s.msgs = {}
    BY FreshSketch
  <2> HIDE DEF s
  <2>5. win' = Redrawn(s) /\ pending' = Asked(s, Redrawn(s))
    BY <2>2, ShowIs DEF s
  <2>6. Grows(s, win') /\ win'.msgs = s.msgs
    BY <2>4, <2>5, RedrawnGrows
  <2>7. Full(win') /\ win'.chat \in Chat /\ win'.first = End /\ DOMAIN win'.msgs = {}
    BY <2>4, <2>6 DEF Grows
  <2>8. /\ pending' = IF win'.running
                      THEN Append(pending, [chat |-> win'.chat, from |-> win'.first])
                      ELSE pending
        /\ win'.running => win'.first > 0
    BY <2>4, <2>5, <2>6, AskedAnew
  <2> QED BY <2>2, <2>3, <2>7, <2>8
<1>2. CASE Escape
  BY <1>2 DEF Escape, Key, tdVars, TypeInv, BudgetOK
<1>3. CASE Type \/ Clear \/ Up \/ Down \/ ToEnd
  <2>1. win # NoWindow /\ UNCHANGED <<msgs, nextId, inbox>> /\ BudgetOK'
    BY <1>3 DEF Type, Clear, Up, Down, ToEnd, Scroll, Key, tdVars, TypeInv, BudgetOK
  <2>2. Full(win) /\ win \in Windows /\ win.msgs \in Contents /\ DOMAIN win.msgs \subseteq Id
    BY <2>1, ContentsAre DEF TypeInv, WindowOK, Full, View, Sketch, Windows
  <2>3. ASSUME NEW s, Sketch(s), s.chat = win.chat, s.first = win.first,
               s.running = win.running, s.msgs = win.msgs, Show(s)
        PROVE  Grows(win, win') /\ win'.msgs = win.msgs /\ pending' = Asked(win, win')
    <3>1. win' = Redrawn(s) /\ pending' = Asked(s, Redrawn(s))
      BY <2>3, ShowIs
    <3>2. Grows(win, win') /\ win'.msgs = win.msgs
      BY <2>2, <2>3, <3>1, MovedGrows
    <3> QED BY <2>3, <3>1, <3>2 DEF Asked
  <2>4. ASSUME NEW b \in 0..End, NEW l \in 0..Last, ~win.text,
               Show([win EXCEPT !.bottom = b, !.line = l])
        PROVE  Grows(win, win') /\ win'.msgs = win.msgs /\ pending' = Asked(win, win')
    <3> DEFINE s == [win EXCEPT !.bottom = b, !.line = l]
    <3>1. /\ Sketch(s) /\ s.chat = win.chat /\ s.first = win.first /\ s.running = win.running
          /\ s.msgs = win.msgs
      BY <2>2, <2>4, PlaceSketch
    <3> HIDE DEF s
    <3> QED BY <2>3, <2>4, <3>1 DEF s
  <2>5. End \in 0..End /\ Last \in 0..Last
    BY Bounds
  <2>6. CASE Type
    <3> DEFINE s == [win EXCEPT !.text = TRUE]
    <3>1. /\ Sketch(s) /\ s.chat = win.chat /\ s.first = win.first /\ s.running = win.running
          /\ s.msgs = win.msgs /\ Show(s)
      BY <2>2, <2>6 DEF Type, Sketch, Windows
    <3> HIDE DEF s
    <3> QED BY <2>1, <2>3, <3>1
  <2>7. CASE Clear
    <3> DEFINE s == [win EXCEPT !.text = FALSE]
    <3>1. /\ Sketch(s) /\ s.chat = win.chat /\ s.first = win.first /\ s.running = win.running
          /\ s.msgs = win.msgs /\ Show(s)
      BY <2>2, <2>7 DEF Clear, Sketch, Windows
    <3> HIDE DEF s
    <3> QED BY <2>1, <2>3, <3>1
  <2>8. CASE ToEnd
    BY <2>1, <2>4, <2>5, <2>8 DEF ToEnd, Scroll
  <2>9. CASE Down
    <3>1. CASE win.bottom \in DOMAIN win.msgs
      <4>1. ~win.text /\ Show(DownFrom(win, win.bottom))
        BY <2>9, <3>1 DEF Down, Scroll
      <4>2. Placed(win, DownFrom(win, win.bottom))
        BY <2>2, <3>1, DownPlace
      <4> QED BY <2>1, <2>4, <4>1, <4>2 DEF Placed
    <3>2. CASE win.bottom \notin DOMAIN win.msgs
      BY <2>1, <2>4, <2>5, <2>9, <3>2 DEF Down, Scroll
    <3> QED BY <3>1, <3>2
  <2>10. CASE Up
    <3>1. ASSUME NEW id \in DOMAIN win.msgs, NEW k \in 0..Last, Up, Show(UpFrom(win, id, k))
          PROVE  Grows(win, win') /\ win'.msgs = win.msgs /\ pending' = Asked(win, win')
      <4>1. Placed(win, UpFrom(win, id, k))
        BY <2>2, <3>1, UpPlace
      <4>2. ~win.text
        BY <3>1 DEF Up, Scroll
      <4> QED BY <2>4, <3>1, <4>1, <4>2 DEF Placed
    <3>2. CASE win.bottom \in DOMAIN win.msgs
      <4>1. win.line \in 0..Last
        BY <2>2 DEF Windows
      <4> QED BY <2>1, <2>10, <3>1, <3>2, <4>1 DEF Up, Scroll
    <3>3. CASE win.bottom \notin DOMAIN win.msgs /\ DOMAIN win.msgs = {}
      BY <2>1, <2>4, <2>5, <2>10, <3>3 DEF Up, Scroll
    <3>4. CASE win.bottom \notin DOMAIN win.msgs /\ DOMAIN win.msgs # {}
      <4> DEFINE ids == DOMAIN win.msgs
      <4>1. ids \in SUBSET (0..End) /\ ids # {} /\ End \in Nat
        BY <2>2, <3>4, Bounds
      <4>2. Show(UpFrom(win, Max(ids), Last))
        BY <2>10, <3>4 DEF Up, Scroll
      <4> HIDE DEF ids
      <4>3. Max(ids) \in ids
        BY <4>1, GreatestNumber
      <4> QED BY <2>1, <2>5, <2>10, <3>1, <4>2, <4>3 DEF ids
    <3> QED BY <3>2, <3>3, <3>4
  <2> QED BY <1>3, <2>1, <2>6, <2>7, <2>8, <2>9, <2>10
<1> QED BY <1>1, <1>2, <1>3 DEF User

-----------------------------------------------------------------------------
(***************************************************************************)
(* What tdlib does, and says.                                              *)
(***************************************************************************)

(* The messages b have become a, and m says so. *)
Changed(b, a, m) ==
    \A ch \in Chat, i \in Id :
      /\ i \in DOMAIN a[ch] <=> \/ Creates(m, ch, i)
                                \/ i \in DOMAIN b[ch] /\ ~Removes(m, ch, i)
      /\ Writes(m, ch, i) => i \in DOMAIN a[ch] /\ a[ch][i] = m.lines
      /\ i \in DOMAIN a[ch] /\ ~Writes(m, ch, i) => a[ch][i] = b[ch][i]
      /\ Removes(m, ch, i) => i \in DOMAIN b[ch]

(* It is enough that m says so of the one chat that changes. *)
LEMMA ChangedHere ==
    ASSUME NEW b \in [Chat -> Contents], NEW c \in Chat, NEW f \in Contents,
           NEW m, m.chat = c,
           \A i \in Id : i \in DOMAIN f <=> \/ Creates(m, c, i)
                                            \/ i \in DOMAIN b[c] /\ ~Removes(m, c, i),
           \A i \in Id : Writes(m, c, i) => i \in DOMAIN f /\ f[i] = m.lines,
           \A i \in Id : i \in DOMAIN f /\ ~Writes(m, c, i) => f[i] = b[c][i],
           \A i \in Id : Removes(m, c, i) => i \in DOMAIN b[c]
    PROVE  [b EXCEPT ![c] = f] \in [Chat -> Contents] /\ Changed(b, [b EXCEPT ![c] = f], m)
<1> DEFINE a == [b EXCEPT ![c] = f]
<1>1. a \in [Chat -> Contents] /\ a[c] = f /\ \A ch \in Chat : ch # c => a[ch] = b[ch]
  OBVIOUS
<1> HIDE DEF a
<1>2. ASSUME NEW ch \in Chat, NEW i \in Id
      PROVE  /\ i \in DOMAIN a[ch] <=> \/ Creates(m, ch, i)
                                       \/ i \in DOMAIN b[ch] /\ ~Removes(m, ch, i)
             /\ Writes(m, ch, i) => i \in DOMAIN a[ch] /\ a[ch][i] = m.lines
             /\ i \in DOMAIN a[ch] /\ ~Writes(m, ch, i) => a[ch][i] = b[ch][i]
             /\ Removes(m, ch, i) => i \in DOMAIN b[ch]
  <2>1. CASE ch = c
    BY <1>1, <2>1
  <2>2. CASE ch # c
    <3>1. ~Creates(m, ch, i) /\ ~Writes(m, ch, i) /\ ~Removes(m, ch, i)
      BY <2>2 DEF Creates, Writes, Removes
    <3> QED BY <1>1, <2>2, <3>1
  <2> QED BY <2>1, <2>2
<1>3. Changed(b, a, m)
  BY <1>2 DEF Changed
<1> QED BY <1>1, <1>3 DEF a

Change ==
    \E c \in Chat : \/ \E n \in 1..MaxLines : NewMessage(c, n)
                    \/ \E id \in DOMAIN msgs[c] :
                         \/ SendSucceeded(c, id) \/ Delete(c, id)
                         \/ \E n \in 1..MaxLines : Edit(c, id, n)

(* Spending keeps the bounds of the model typed. *)
LEMMA SpentBudget ==
    ASSUME BudgetOK, NEW k, Spend(k), k \in {"changes", "failures", "opens"}
    PROVE  BudgetOK'
BY ChatWindowAssumption DEF BudgetOK, Spend

(* Whatever happens to messages is said. *)
LEMMA ChangeSaid ==
    ASSUME TypeInv, Change
    PROVE  /\ pending' = pending /\ win' = win /\ TdOK' /\ BudgetOK'
           /\ \E m \in Said :
                /\ inbox' = Append(inbox, m) /\ m.of \notin {"page", "failed"}
                /\ Changed(msgs, msgs', m)
                /\ \/ nextId' = nextId /\ m.of \in {"edit", "delete"}
                   \/ nextId' = nextId + 1 /\ m.of \in {"new", "sent"} /\ m.id = nextId
                /\ m.of \in {"edit", "delete"} => m.id \in DOMAIN msgs[m.chat]
                /\ m.of = "sent" => m.old \in DOMAIN msgs[m.chat]
<1>1. msgs \in [Chat -> Contents] /\ nextId \in 1..End /\ BudgetOK
  BY DEF TypeInv, TdOK
<1>2. PICK c \in Chat : \/ \E n \in 1..MaxLines : NewMessage(c, n)
                        \/ \E id \in DOMAIN msgs[c] :
                             \/ SendSucceeded(c, id) \/ Delete(c, id)
                             \/ \E n \in 1..MaxLines : Edit(c, id, n)
  BY DEF Change
<1>3. PICK b \in Contents : b = msgs[c]
  BY <1>1
<1>4. nextId \in Id => nextId + 1 \in 1..End
  BY Bounds DEF Id
<1>5. DOMAIN b \subseteq Id /\ \A i \in DOMAIN b : b[i] \in 1..MaxLines
  BY ContentsAre
<1>6. ASSUME NEW n \in 1..MaxLines, NewMessage(c, n)
      PROVE  /\ pending' = pending /\ win' = win /\ TdOK' /\ BudgetOK'
             /\ \E m \in Said :
                  /\ inbox' = Append(inbox, m) /\ m.of \notin {"page", "failed"}
                  /\ Changed(msgs, msgs', m)
                  /\ nextId' = nextId + 1 /\ m.of \in {"new", "sent"} /\ m.id = nextId
                  /\ m.of # "sent"
  <2> DEFINE m == [of |-> "new", chat |-> c, id |-> nextId, lines |-> n]
  <2>1. /\ nextId \in Id /\ msgs' = [msgs EXCEPT ![c] = With(b, nextId, n)]
        /\ nextId' = nextId + 1 /\ inbox' = Append(inbox, m) /\ pending' = pending /\ win' = win
        /\ Spend("changes")
    BY <1>3, <1>6 DEF NewMessage, Say
  <2>2. m \in Said /\ m.of = "new" /\ m.chat = c /\ m.id = nextId /\ m.lines = n
    BY <2>1 DEF Said
  <2>3. PICK f \in Contents : f = With(b, nextId, n)
    BY <2>1, WithFacts
  <2>4. DOMAIN f = DOMAIN b \cup {nextId}
    BY <2>1, <2>3, WithDomain
  <2>5. f[nextId] = n
    BY <2>1, <2>3, WithThere
  <2>6. ASSUME NEW i \in DOMAIN b, i # nextId PROVE f[i] = b[i]
    BY <2>1, <2>3, <2>6, WithOther
  <2> HIDE DEF m
  <2>7. msgs' \in [Chat -> Contents] /\ Changed(msgs, msgs', m)
    <3>1. \A i \in Id : i \in DOMAIN f <=> \/ Creates(m, c, i)
                                           \/ i \in DOMAIN msgs[c] /\ ~Removes(m, c, i)
      BY <1>3, <2>2, <2>4 DEF Creates, Removes
    <3>2. \A i \in Id : Writes(m, c, i) => i \in DOMAIN f /\ f[i] = m.lines
      BY <2>2, <2>4, <2>5 DEF Writes
    <3>3. \A i \in Id : i \in DOMAIN f /\ ~Writes(m, c, i) => f[i] = msgs[c][i]
      BY <1>3, <2>2, <2>4, <2>6 DEF Writes
    <3>4. \A i \in Id : Removes(m, c, i) => i \in DOMAIN msgs[c]
      BY <2>2 DEF Removes
    <3> QED BY <1>1, <2>1, <2>2, <2>3, <3>1, <3>2, <3>3, <3>4, ChangedHere
  <2>8. TdOK' /\ BudgetOK'
    BY <1>1, <1>4, <2>1, <2>7, SpentBudget DEF TdOK
  <2> QED BY <2>1, <2>2, <2>7, <2>8
<1>7. ASSUME NEW id \in DOMAIN b, SendSucceeded(c, id)
      PROVE  /\ pending' = pending /\ win' = win /\ TdOK' /\ BudgetOK'
             /\ \E m \in Said :
                  /\ inbox' = Append(inbox, m) /\ m.of \notin {"page", "failed"}
                  /\ Changed(msgs, msgs', m)
                  /\ nextId' = nextId + 1 /\ m.of \in {"new", "sent"} /\ m.id = nextId
                  /\ m.of = "sent" => m.old \in DOMAIN msgs[m.chat]
  <2> DEFINE m == [of |-> "sent", chat |-> c, old |-> id, id |-> nextId, lines |-> b[id]]
  <2>1. /\ nextId \in Id /\ msgs' = [msgs EXCEPT ![c] = With(Without(b, id), nextId, b[id])]
        /\ nextId' = nextId + 1 /\ inbox' = Append(inbox, m) /\ pending' = pending /\ win' = win
        /\ Spend("changes")
    BY <1>3, <1>7 DEF SendSucceeded, Say
  <2>2. PICK n \in 1..MaxLines : n = b[id]
    BY <1>5
  <2>3. m \in Said /\ m.of = "sent" /\ m.chat = c /\ m.old = id /\ m.id = nextId /\ m.lines = n
    BY <1>5, <2>1, <2>2 DEF Said
  <2>4. PICK g \in Contents : g = Without(b, id)
    BY WithoutFacts
  <2>5. DOMAIN g = DOMAIN b \ {id} /\ \A i \in DOMAIN b : i # id => g[i] = b[i]
    BY <2>4, WithoutFacts
  <2>6. PICK f \in Contents : f = With(g, nextId, n)
    BY <2>1, WithFacts
  <2>7. DOMAIN f = DOMAIN g \cup {nextId}
    BY <2>1, <2>6, WithDomain
  <2>8. f[nextId] = n
    BY <2>1, <2>6, WithThere
  <2>9. ASSUME NEW i \in DOMAIN g, i # nextId PROVE f[i] = g[i]
    BY <2>1, <2>6, <2>9, WithOther
  <2> HIDE DEF m
  <2>10. msgs' \in [Chat -> Contents] /\ Changed(msgs, msgs', m)
    <3>1. \A i \in Id : i \in DOMAIN f <=> \/ Creates(m, c, i)
                                           \/ i \in DOMAIN msgs[c] /\ ~Removes(m, c, i)
      BY <1>3, <2>3, <2>5, <2>7 DEF Creates, Removes
    <3>2. \A i \in Id : Writes(m, c, i) => i \in DOMAIN f /\ f[i] = m.lines
      BY <2>3, <2>7, <2>8 DEF Writes
    <3>3. \A i \in Id : i \in DOMAIN f /\ ~Writes(m, c, i) => f[i] = msgs[c][i]
      BY <1>3, <2>3, <2>5, <2>7, <2>9 DEF Writes
    <3>4. \A i \in Id : Removes(m, c, i) => i \in DOMAIN msgs[c]
      BY <1>3, <2>3 DEF Removes
    <3>5. msgs' = [msgs EXCEPT ![c] = f]
      BY <2>1, <2>2, <2>4, <2>6
    <3> QED BY <1>1, <2>3, <3>1, <3>2, <3>3, <3>4, <3>5, ChangedHere
  <2>11. TdOK' /\ BudgetOK'
    BY <1>1, <1>4, <2>1, <2>10, SpentBudget DEF TdOK
  <2> QED BY <1>3, <2>1, <2>3, <2>10, <2>11
<1>8. ASSUME NEW id \in DOMAIN b, Delete(c, id)
      PROVE  /\ pending' = pending /\ win' = win /\ TdOK' /\ BudgetOK'
             /\ \E m \in Said :
                  /\ inbox' = Append(inbox, m) /\ m.of \notin {"page", "failed"}
                  /\ Changed(msgs, msgs', m)
                  /\ nextId' = nextId /\ m.of \in {"edit", "delete"}
                  /\ m.id \in DOMAIN msgs[m.chat]
  <2> DEFINE m == [of |-> "delete", chat |-> c, id |-> id]
  <2>1. /\ msgs' = [msgs EXCEPT ![c] = Without(b, id)]
        /\ nextId' = nextId /\ inbox' = Append(inbox, m) /\ pending' = pending /\ win' = win
        /\ Spend("changes")
    BY <1>3, <1>8 DEF Delete, Say
  <2>2. m \in Said /\ m.of = "delete" /\ m.chat = c /\ m.id = id
    BY <1>5 DEF Said
  <2>3. PICK f \in Contents : f = Without(b, id)
    BY WithoutFacts
  <2>4. DOMAIN f = DOMAIN b \ {id} /\ \A i \in DOMAIN b : i # id => f[i] = b[i]
    BY <2>3, WithoutFacts
  <2> HIDE DEF m
  <2>5. msgs' \in [Chat -> Contents] /\ Changed(msgs, msgs', m)
    <3>1. \A i \in Id : i \in DOMAIN f <=> \/ Creates(m, c, i)
                                           \/ i \in DOMAIN msgs[c] /\ ~Removes(m, c, i)
      BY <1>3, <2>2, <2>4 DEF Creates, Removes
    <3>2. \A i \in Id : Writes(m, c, i) => i \in DOMAIN f /\ f[i] = m.lines
      BY <2>2 DEF Writes
    <3>3. \A i \in Id : i \in DOMAIN f /\ ~Writes(m, c, i) => f[i] = msgs[c][i]
      BY <1>3, <2>4
    <3>4. \A i \in Id : Removes(m, c, i) => i \in DOMAIN msgs[c]
      BY <1>3, <2>2 DEF Removes
    <3> QED BY <1>1, <2>1, <2>2, <2>3, <3>1, <3>2, <3>3, <3>4, ChangedHere
  <2>6. TdOK' /\ BudgetOK'
    BY <1>1, <2>1, <2>5, SpentBudget DEF TdOK
  <2> QED BY <1>3, <2>1, <2>2, <2>5, <2>6
<1>9. ASSUME NEW id \in DOMAIN b, NEW n \in 1..MaxLines, Edit(c, id, n)
      PROVE  /\ pending' = pending /\ win' = win /\ TdOK' /\ BudgetOK'
             /\ \E m \in Said :
                  /\ inbox' = Append(inbox, m) /\ m.of \notin {"page", "failed"}
                  /\ Changed(msgs, msgs', m)
                  /\ nextId' = nextId /\ m.of \in {"edit", "delete"}
                  /\ m.id \in DOMAIN msgs[m.chat]
  <2> DEFINE m == [of |-> "edit", chat |-> c, id |-> id, lines |-> n]
             f == [b EXCEPT ![id] = n]
  <2>1. /\ msgs' = [msgs EXCEPT ![c] = f]
        /\ nextId' = nextId /\ inbox' = Append(inbox, m) /\ pending' = pending /\ win' = win
        /\ Spend("changes")
    BY <1>1, <1>3, <1>9 DEF Edit, Say
  <2>2. m \in Said /\ m.of = "edit" /\ m.chat = c /\ m.id = id /\ m.lines = n
    BY <1>5 DEF Said
  <2>3. f \in Contents /\ DOMAIN f = DOMAIN b
    <3>1. b \in [DOMAIN b -> 1..MaxLines]
      BY DEF Contents
    <3>2. f \in [DOMAIN b -> 1..MaxLines]
      BY <3>1
    <3> QED BY <1>5, <3>2 DEF Contents
  <2>4. f[id] = n /\ \A i \in DOMAIN b : i # id => f[i] = b[i]
    BY DEF Contents
  <2> HIDE DEF m, f
  <2>5. msgs' \in [Chat -> Contents] /\ Changed(msgs, msgs', m)
    <3>1. \A i \in Id : i \in DOMAIN f <=> \/ Creates(m, c, i)
                                           \/ i \in DOMAIN msgs[c] /\ ~Removes(m, c, i)
      BY <1>3, <2>2, <2>3 DEF Creates, Removes
    <3>2. \A i \in Id : Writes(m, c, i) => i \in DOMAIN f /\ f[i] = m.lines
      BY <2>2, <2>3, <2>4 DEF Writes
    <3>3. \A i \in Id : i \in DOMAIN f /\ ~Writes(m, c, i) => f[i] = msgs[c][i]
      BY <1>3, <2>2, <2>3, <2>4 DEF Writes
    <3>4. \A i \in Id : Removes(m, c, i) => i \in DOMAIN msgs[c]
      BY <2>2 DEF Removes
    <3> QED BY <1>1, <2>1, <2>2, <2>3, <3>1, <3>2, <3>3, <3>4, ChangedHere
  <2>6. TdOK' /\ BudgetOK'
    BY <1>1, <2>1, <2>5, SpentBudget DEF TdOK
  <2> QED BY <1>3, <2>1, <2>2, <2>5, <2>6
<1> QED
  <2>1. CASE \E n \in 1..MaxLines : NewMessage(c, n)
    <3>1. PICK n \in 1..MaxLines : NewMessage(c, n)
      BY <2>1
    <3>2. PICK m \in Said :
            /\ inbox' = Append(inbox, m) /\ m.of \notin {"page", "failed"}
            /\ Changed(msgs, msgs', m)
            /\ nextId' = nextId + 1 /\ m.of \in {"new", "sent"} /\ m.id = nextId
            /\ m.of # "sent"
      BY <1>6, <3>1
    <3> QED BY <1>6, <3>1, <3>2
  <2>2. CASE \E id \in DOMAIN b : SendSucceeded(c, id)
    <3>1. PICK id \in DOMAIN b : SendSucceeded(c, id)
      BY <2>2
    <3>2. PICK m \in Said :
            /\ inbox' = Append(inbox, m) /\ m.of \notin {"page", "failed"}
            /\ Changed(msgs, msgs', m)
            /\ nextId' = nextId + 1 /\ m.of \in {"new", "sent"} /\ m.id = nextId
            /\ m.of = "sent" => m.old \in DOMAIN msgs[m.chat]
      BY <1>7, <3>1
    <3> QED BY <1>7, <3>1, <3>2
  <2>3. CASE \E id \in DOMAIN b : Delete(c, id) \/ \E n \in 1..MaxLines : Edit(c, id, n)
    <3>1. PICK id \in DOMAIN b : Delete(c, id) \/ \E n \in 1..MaxLines : Edit(c, id, n)
      BY <2>3
    <3>2. PICK m \in Said :
            /\ inbox' = Append(inbox, m) /\ m.of \notin {"page", "failed"}
            /\ Changed(msgs, msgs', m)
            /\ nextId' = nextId /\ m.of \in {"edit", "delete"}
            /\ m.id \in DOMAIN msgs[m.chat]
      BY <1>8, <1>9, <3>1
    <3> QED BY <1>8, <1>9, <3>1, <3>2
  <2> QED BY <1>2, <1>3, <2>1, <2>2, <2>3

(* A request that is answered is no longer pending; the others are. *)
LEMMA DroppedFacts ==
    ASSUME NEW S, NEW s \in Seq(S), NEW i \in DOMAIN s
    PROVE  /\ Dropped(s, i) \in Seq(S)
           /\ \A j \in DOMAIN s : j # i =>
                \E k \in DOMAIN Dropped(s, i) : Dropped(s, i)[k] = s[j]
<1> DEFINE t == SubSeq(s, 1, i - 1)
           u == SubSeq(s, i + 1, Len(s))
<1>1. Len(s) \in Nat /\ DOMAIN s = 1..Len(s) /\ i \in 1..Len(s)
  BY LenProperties
<1>2. /\ t \in Seq(S) /\ Len(t) = i - 1
      /\ \A j \in 1..(i - 1) : t[j] = s[j]
  BY <1>1, SubSeqProperties
<1>3. /\ u \in Seq(S) /\ Len(u) = Len(s) - i
      /\ \A j \in 1..(Len(s) - i) : u[j] = s[i + j]
  <2>1. CASE i + 1 <= Len(s)
    <3>1. i + 1 \in 1..Len(s)
      BY <1>1, <2>1
    <3>2. u \in Seq(S) /\ Len(u) = Len(s) - (i + 1) + 1
          /\ \A j \in 1..(Len(s) - (i + 1) + 1) : u[j] = s[(i + 1) + j - 1]
      BY <1>1, <3>1, SubSeqProperties
    <3> HIDE DEF u
    <3> QED BY <1>1, <3>2
  <2>2. CASE i + 1 > Len(s)
    <3>1. i = Len(s)
      BY <1>1, <2>2
    <3>2. u = <<>>
      BY <1>1, <3>1, SubSeqProperties
    <3> HIDE DEF u
    <3> QED BY <1>1, <3>1, <3>2
  <2> QED BY <1>1, <2>1, <2>2
<1> HIDE DEF t, u
<1> DEFINE v == t \o u
<1>4. /\ v \in Seq(S) /\ Len(v) = Len(t) + Len(u)
      /\ \A k \in 1..(Len(t) + Len(u)) : v[k] = IF k <= Len(t) THEN t[k] ELSE u[k - Len(t)]
  BY <1>2, <1>3, ConcatProperties
<1> HIDE DEF v
<1>5. Len(t) + Len(u) = Len(s) - 1 /\ Len(v) = Len(s) - 1
  BY <1>1, <1>2, <1>3, <1>4
<1>6. DOMAIN v = 1..(Len(s) - 1)
  BY <1>4, <1>5, LenProperties
<1>7. \A k \in 1..(Len(s) - 1) : v[k] = IF k <= i - 1 THEN t[k] ELSE u[k - (i - 1)]
  BY <1>2, <1>4, <1>5
<1>8. ASSUME NEW j \in DOMAIN s, j # i
      PROVE  \E k \in DOMAIN v : v[k] = s[j]
  <2>1. CASE j < i
    <3>1. j \in 1..(i - 1) /\ j \in 1..(Len(s) - 1) /\ j <= i - 1
      BY <1>1, <1>8, <2>1
    <3>2. v[j] = t[j]
      BY <1>7, <3>1
    <3> QED BY <1>2, <1>6, <3>1, <3>2
  <2>2. CASE j > i
    <3>1. (j - 1) \in 1..(Len(s) - 1) /\ (j - i) \in 1..(Len(s) - i) /\ ~(j - 1 <= i - 1)
      BY <1>1, <1>8, <2>2
    <3>2. v[j - 1] = u[(j - 1) - (i - 1)]
      BY <1>7, <3>1
    <3>3. (j - 1) - (i - 1) = j - i /\ i + (j - i) = j
      BY <1>1, <1>8
    <3>4. v[j - 1] = s[j]
      BY <1>3, <3>1, <3>2, <3>3
    <3> QED BY <1>6, <3>1, <3>4
  <2> QED BY <1>1, <1>8, <2>1, <2>2
<1> QED BY <1>4, <1>8 DEF Dropped, t, u, v

(* A page holds messages that the chat has. *)
PageIds(m, from) ==
    {i \in Older(m, from) : Cardinality({j \in Older(m, from) : j > i}) < Page}

(* A page holds messages of the chat as they are when it is answered. *)
LEMMA PageIsContents ==
    ASSUME msgs \in [Chat -> Contents], NEW q \in Requests
    PROVE  /\ PageOf(q) \in Contents /\ DOMAIN PageOf(q) = PageIds(msgs[q.chat], q.from)
           /\ \A i \in DOMAIN PageOf(q) : i \in DOMAIN msgs[q.chat] /\ PageOf(q)[i] = msgs[q.chat][i]
<1>1. PICK m \in Contents : m = msgs[q.chat]
  BY DEF Requests
<1>2. PICK S \in SUBSET DOMAIN m : S = PageIds(m, q.from)
  BY DEF PageIds, Older
<1>3. PageOf(q) = Restrict(m, S)
  BY <1>1, <1>2 DEF PageOf, PageIds
<1>4. /\ Restrict(m, S) \in Contents /\ DOMAIN Restrict(m, S) = S
      /\ \A i \in S : Restrict(m, S)[i] = m[i]
  BY RestrictFacts
<1> QED BY <1>1, <1>2, <1>3, <1>4

(* A request is answered with a page or refused. *)
LEMMA AnswerSaid ==
    ASSUME TypeInv, Answer \/ Refuse
    PROVE  /\ UNCHANGED <<msgs, nextId, win>> /\ BudgetOK'
           /\ \E m \in Said, i \in DOMAIN pending :
                /\ inbox' = Append(inbox, m) /\ pending' = Dropped(pending, i)
                /\ m.of \in {"page", "failed"} /\ m.query = pending[i]
                /\ m.of = "page" => m.msgs = PageOf(m.query)
<1>1. \A i \in DOMAIN pending : pending[i] \in Requests
  BY ElementOfSeq, LenProperties DEF TypeInv, QueueOK
<1>2. CASE Answer
  <2>1. PICK i \in DOMAIN pending :
          /\ Say([of |-> "page", query |-> pending[i], msgs |-> PageOf(pending[i])])
          /\ pending' = Dropped(pending, i)
    BY <1>2 DEF Answer
  <2>2. PICK q \in Requests : q = pending[i]
    BY <1>1
  <2>3. PICK f \in Contents : f = PageOf(q)
    BY PageIsContents DEF TypeInv, TdOK
  <2> DEFINE m == [of |-> "page", query |-> q, msgs |-> f]
  <2>4. m \in Said /\ m.of = "page" /\ m.query = q /\ m.msgs = f
    BY DEF Said
  <2>5. inbox' = Append(inbox, m)
    BY <2>1, <2>2, <2>3 DEF Say
  <2>6. UNCHANGED <<msgs, nextId, win>> /\ BudgetOK'
    BY <1>2 DEF Answer, tdVars, TypeInv, BudgetOK
  <2> HIDE DEF m
  <2> QED BY <2>1, <2>2, <2>3, <2>4, <2>5, <2>6
<1>3. CASE Refuse
  <2>1. PICK i \in DOMAIN pending :
          /\ Say([of |-> "failed", query |-> pending[i]])
          /\ pending' = Dropped(pending, i)
    BY <1>3 DEF Refuse
  <2>2. PICK q \in Requests : q = pending[i]
    BY <1>1
  <2> DEFINE m == [of |-> "failed", query |-> q]
  <2>3. m \in Said /\ m.of = "failed" /\ m.query = q
    BY DEF Said
  <2>4. inbox' = Append(inbox, m)
    BY <2>1, <2>2 DEF Say
  <2>5. UNCHANGED <<msgs, nextId, win>> /\ Spend("failures")
    BY <1>3 DEF Refuse, tdVars
  <2>6. BudgetOK'
    BY <2>5, SpentBudget DEF TypeInv
  <2> HIDE DEF m
  <2> QED BY <2>1, <2>2, <2>3, <2>4, <2>5, <2>6
<1> QED BY <1>2, <1>3

(* The steps, gathered by who takes them. *)
LEMMA NextCases == Next <=> Change \/ Answer \/ Refuse \/ Update \/ add_history
                            \/ get_history_failed \/ User
BY DEF Next, Change, Client, Update

-----------------------------------------------------------------------------
(***************************************************************************)
(* The types, the view, and the page that is waited for.                   *)
(***************************************************************************)

(* A request that is sent is one of the requests. *)
LEMMA AppendRequest ==
    ASSUME NEW r \in Windows, pending \in Seq(Requests), r.running => r.first > 0
    PROVE  (IF r.running THEN Append(pending, [chat |-> r.chat, from |-> r.first])
            ELSE pending) \in Seq(Requests)
<1>1. CASE r.running
  <2>1. r.first \in 1..End /\ r.chat \in Chat
    BY <1>1, Bounds DEF Windows
  <2>2. [chat |-> r.chat, from |-> r.first] \in Requests
    BY <2>1 DEF Requests
  <2> QED BY <1>1, <2>2, AppendProperties
<1>2. CASE ~r.running
  BY <1>2
<1> QED BY <1>1, <1>2

(* Every step keeps the types, and the link between free rows and a running request. *)
LEMMA TypeStep ==
    ASSUME TypeInv, [Next]_vars
    PROVE  TypeInv'
<1>1. /\ msgs \in [Chat -> Contents] /\ nextId \in 1..End /\ pending \in Seq(Requests)
      /\ inbox \in Seq(Said) /\ BudgetOK
  BY DEF TypeInv, TdOK, QueueOK
<1>2. inbox # <<>> => Tail(inbox) \in Seq(Said) /\ Head(inbox) \in Said
  BY <1>1, HeadTailProperties
<1>3. \A m \in Said : Append(inbox, m) \in Seq(Said)
  BY <1>1, AppendProperties
<1>4. CASE Change
  BY <1>1, <1>3, <1>4, ChangeSaid DEF TypeInv, QueueOK, WindowOK
<1>5. CASE Answer \/ Refuse
  <2>1. UNCHANGED <<msgs, nextId, win>> /\ BudgetOK'
    BY <1>5, AnswerSaid
  <2>2. PICK m \in Said, i \in DOMAIN pending :
           inbox' = Append(inbox, m) /\ pending' = Dropped(pending, i)
    BY <1>5, AnswerSaid
  <2>3. pending' \in Seq(Requests)
    BY <1>1, <2>2, DroppedFacts
  <2> QED BY <1>1, <1>3, <2>1, <2>2, <2>3 DEF TypeInv, TdOK, QueueOK, WindowOK
<1>6. CASE Update
  <2>1. /\ inbox # <<>> /\ inbox' = Tail(inbox) /\ UNCHANGED <<msgs, nextId, budget>>
        /\ win = NoWindow => win' = win /\ pending' = pending
        /\ win # NoWindow => Grows(win, win') /\ pending' = Asked(win, win')
    BY <1>6, UpdateHeard DEF Takes
  <2>2. WindowOK' /\ pending' \in Seq(Requests)
    <3>1. CASE win = NoWindow
      BY <1>1, <2>1, <3>1 DEF WindowOK
    <3>2. CASE win # NoWindow
      <4>1. Full(win') /\ win' \in Windows /\ (win'.running /\ ~win.running => win'.first > 0)
        BY <2>1, <3>2 DEF Grows, Full, View, Sketch
      <4> QED BY <1>1, <2>1, <3>2, <4>1, AskedRequests DEF WindowOK
    <3> QED BY <3>1, <3>2
  <2> QED BY <1>1, <1>2, <2>1, <2>2 DEF TypeInv, TdOK, QueueOK, BudgetOK
<1>7. ASSUME inbox # <<>>, inbox' = Tail(inbox), UNCHANGED <<msgs, nextId, budget>>,
             \/ win' = win /\ pending' = pending
             \/ /\ Full(win') /\ (win'.running => win'.first > 0)
                /\ pending' = IF win'.running
                              THEN Append(pending, [chat |-> win'.chat, from |-> win'.first])
                              ELSE pending
      PROVE  TypeInv'
  <2>1. WindowOK' /\ pending' \in Seq(Requests)
    <3>1. CASE win' = win /\ pending' = pending
      BY <1>1, <3>1 DEF TypeInv, WindowOK
    <3>2. CASE /\ Full(win') /\ (win'.running => win'.first > 0)
               /\ pending' = IF win'.running
                             THEN Append(pending, [chat |-> win'.chat, from |-> win'.first])
                             ELSE pending
      <4>1. win' \in Windows
        BY <3>2 DEF Full, View, Sketch
      <4> QED BY <1>1, <3>2, <4>1, AppendRequest DEF WindowOK
    <3> QED BY <1>7, <3>1, <3>2
  <2> QED BY <1>1, <1>2, <1>7, <2>1 DEF TypeInv, TdOK, QueueOK, BudgetOK
<1>8. CASE add_history
  BY <1>7, <1>8, PageHeard
<1>9. CASE get_history_failed
  BY <1>7, <1>9, FailureHeard
<1>10. CASE User
  <2>1. UNCHANGED <<msgs, nextId, inbox>> /\ BudgetOK'
    BY <1>10, UserCases
  <2>2. WindowOK' /\ pending' \in Seq(Requests)
    <3>1. CASE /\ Full(win') /\ (win'.running => win'.first > 0)
               /\ pending' = IF win'.running
                             THEN Append(pending, [chat |-> win'.chat, from |-> win'.first])
                             ELSE pending
      <4>1. win' \in Windows
        BY <3>1 DEF Full, View, Sketch
      <4> QED BY <1>1, <3>1, <4>1, AppendRequest DEF WindowOK
    <3>2. CASE win' = NoWindow /\ pending' = pending
      BY <1>1, <3>2 DEF WindowOK
    <3>3. CASE Grows(win, win') /\ pending' = Asked(win, win')
      <4>1. Full(win') /\ win' \in Windows /\ (win'.running /\ ~win.running => win'.first > 0)
        BY <3>3 DEF Grows, Full, View, Sketch
      <4> QED BY <1>1, <3>3, <4>1, AskedRequests DEF WindowOK
    <3> QED BY <1>10, <3>1, <3>2, <3>3, UserCases
  <2> QED BY <1>1, <2>1, <2>2 DEF TypeInv, TdOK, QueueOK
<1>11. CASE UNCHANGED vars
  BY <1>11 DEF vars, tdVars, TypeInv, TdOK, QueueOK, BudgetOK, WindowOK
<1> QED BY <1>4, <1>5, <1>6, <1>8, <1>9, <1>10, <1>11, NextCases

(* TypeInv at the start. *)
LEMMA TypeInit ==
    ASSUME Init
    PROVE  TypeInv
<1>1. PICK n \in Lengths : /\ nextId = 1 + Max({n[c] : c \in Chat})
                           /\ msgs = [c \in Chat |-> [i \in 1..n[c] |-> 1]]
  BY DEF Init
<1>2. n \in [Chat -> 0..(MaxId - 1)] /\ Chat # {}
  BY ChatWindowAssumption
<1>3. MaxId - 1 \in Nat /\ 1 \in 1..MaxLines
  BY Bounds
<1> DEFINE lengths == {n[c] : c \in Chat}
<1>4. lengths \in SUBSET (0..(MaxId - 1)) /\ lengths # {}
  BY <1>2
<1> HIDE DEF lengths
<1>5. Max(lengths) \in 0..(MaxId - 1)
  BY <1>3, <1>4, GreatestNumber
<1>6. nextId \in 1..End
  BY <1>1, <1>5, Bounds DEF lengths
<1>7. ASSUME NEW c \in Chat PROVE [i \in 1..n[c] |-> 1] \in Contents
  <2>1. n[c] \in 0..(MaxId - 1)
    BY <1>2
  <2>2. 1..n[c] \in SUBSET Id
    BY <2>1, Bounds DEF Id
  <2>3. [i \in 1..n[c] |-> 1] \in [1..n[c] -> 1..MaxLines]
    BY <1>3
  <2> QED BY <2>2, <2>3 DEF Contents
<1>8. msgs \in [Chat -> Contents]
  BY <1>1, <1>7
<1>9. QueueOK /\ WindowOK
  BY DEF Init, QueueOK, WindowOK
<1>10. BudgetOK
  BY ChatWindowAssumption DEF Init, BudgetOK
<1> QED BY <1>6, <1>8, <1>9, <1>10 DEF TypeInv, TdOK

(* The bottom of the window is a line there is. *)
LEMMA TypeSays ==
    ASSUME TypeInv
    PROVE  ViewSound
<1>1. win \in Windows \cup {NoWindow}
  BY DEF TypeInv, WindowOK, Full, View, Sketch
<1>2. \A i \in DOMAIN pending : pending[i] \in [chat : Chat, from : 1..End]
  BY ElementOfSeq, LenProperties DEF TypeInv, QueueOK, Requests
<1>3. TypeOK
  BY <1>1, <1>2 DEF TypeOK, TypeInv, TdOK, BudgetOK
<1> QED BY <1>3 DEF ViewSound, TypeInv, WindowOK, Full, View, Sketch

(* The page of the chat c that ends at f is asked for, or answered.        *)
OnItsWay(c, f, pend, inb) ==
    \/ \E i \in DOMAIN pend : pend[i].chat = c /\ pend[i].from = f
    \/ \E i \in DOMAIN inb : /\ inb[i].of \in {"page", "failed"}
                             /\ inb[i].query.chat = c /\ inb[i].query.from = f

(* What a window waits for is on its way. *)
Promised == win # NoWindow /\ win.running => OnItsWay(win.chat, win.first, pending, inbox)

(* A request just sent is on its way. *)
LEMMA ComesAsked ==
    ASSUME NEW c, NEW f, NEW pend \in Seq(Requests), NEW inb,
           [chat |-> c, from |-> f] \in Requests
    PROVE  OnItsWay(c, f, Append(pend, [chat |-> c, from |-> f]), inb)
<1> DEFINE r == [chat |-> c, from |-> f]
           p == Append(pend, r)
<1>1. Len(pend) \in Nat
  BY LenProperties
<1>2. p \in Seq(Requests) /\ Len(p) = Len(pend) + 1 /\ p[Len(p)] = r
  BY AppendProperties
<1> HIDE DEF p
<1>3. Len(p) \in DOMAIN p
  BY <1>1, <1>2, LenProperties
<1> QED BY <1>2, <1>3 DEF OnItsWay, p

(* It stays on its way when another request is sent, *)
LEMMA ComesLater ==
    ASSUME NEW c, NEW f, NEW pend \in Seq(Requests), NEW inb, NEW r \in Requests,
           OnItsWay(c, f, pend, inb)
    PROVE  OnItsWay(c, f, Append(pend, r), inb)
<1> DEFINE p == Append(pend, r)
<1>1. Len(pend) \in Nat /\ DOMAIN pend = 1..Len(pend)
  BY LenProperties
<1>2. p \in Seq(Requests) /\ Len(p) = Len(pend) + 1 /\ \A i \in 1..Len(pend) : p[i] = pend[i]
  BY AppendProperties
<1> HIDE DEF p
<1>3. DOMAIN p = 1..(Len(pend) + 1)
  BY <1>2, LenProperties
<1>4. \A i \in DOMAIN pend : i \in DOMAIN p /\ p[i] = pend[i]
  BY <1>1, <1>2, <1>3
<1>5. OnItsWay(c, f, p, inb)
  BY <1>4 DEF OnItsWay
<1> QED BY <1>5 DEF p

(* when something else is said, *)
LEMMA ComesAfter ==
    ASSUME NEW c, NEW f, NEW pend, NEW inb \in Seq(Said), NEW m \in Said,
           OnItsWay(c, f, pend, inb)
    PROVE  OnItsWay(c, f, pend, Append(inb, m))
<1> DEFINE n == Append(inb, m)
<1>1. Len(inb) \in Nat /\ DOMAIN inb = 1..Len(inb)
  BY LenProperties
<1>2. n \in Seq(Said) /\ Len(n) = Len(inb) + 1 /\ \A i \in 1..Len(inb) : n[i] = inb[i]
  BY AppendProperties
<1> HIDE DEF n
<1>3. DOMAIN n = 1..(Len(inb) + 1)
  BY <1>2, LenProperties
<1>4. \A i \in DOMAIN inb : i \in DOMAIN n /\ n[i] = inb[i]
  BY <1>1, <1>2, <1>3
<1>5. OnItsWay(c, f, pend, n)
  BY <1>4 DEF OnItsWay
<1> QED BY <1>5 DEF n

(* when a request, perhaps this one, is answered, *)
LEMMA ComesSaid ==
    ASSUME NEW c, NEW f, NEW pend \in Seq(Requests), NEW inb \in Seq(Said),
           NEW k \in DOMAIN pend, NEW m \in Said,
           m.of \in {"page", "failed"}, m.query = pend[k], OnItsWay(c, f, pend, inb)
    PROVE  OnItsWay(c, f, Dropped(pend, k), Append(inb, m))
<1>1. CASE pend[k].chat = c /\ pend[k].from = f
  <2> DEFINE n == Append(inb, m)
  <2>1. Len(inb) \in Nat
    BY LenProperties
  <2>2. n \in Seq(Said) /\ Len(n) = Len(inb) + 1 /\ n[Len(n)] = m
    BY AppendProperties
  <2> HIDE DEF n
  <2>3. Len(n) \in DOMAIN n
    BY <2>1, <2>2, LenProperties
  <2> QED BY <1>1, <2>2, <2>3 DEF OnItsWay, n
<1>2. CASE ~(pend[k].chat = c /\ pend[k].from = f)
  <2>1. OnItsWay(c, f, Dropped(pend, k), inb)
    <3> DEFINE p == Dropped(pend, k)
    <3>1. \A j \in DOMAIN pend : j # k => \E i \in DOMAIN p : p[i] = pend[j]
      BY DroppedFacts
    <3> HIDE DEF p
    <3>2. OnItsWay(c, f, p, inb)
      BY <1>2, <3>1 DEF OnItsWay
    <3> QED BY <3>2 DEF p
  <2> QED BY <2>1, ComesAfter
<1> QED BY <1>1, <1>2

(* and when something that does not answer it is heard. *)
LEMMA ComesStill ==
    ASSUME NEW c, NEW f, NEW pend, NEW inb \in Seq(Said), inb # <<>>,
           OnItsWay(c, f, pend, inb),
           ~ /\ Head(inb).of \in {"page", "failed"}
             /\ Head(inb).query.chat = c /\ Head(inb).query.from = f
    PROVE  OnItsWay(c, f, pend, Tail(inb))
<1> DEFINE t == Tail(inb)
<1>1. Len(inb) \in Nat \ {0} /\ DOMAIN inb = 1..Len(inb) /\ Head(inb) = inb[1]
  BY LenProperties, EmptySeq, HeadTailProperties
<1>2. t \in Seq(Said) /\ Len(t) = Len(inb) - 1 /\ \A i \in 1..Len(t) : t[i] = inb[i + 1]
  BY HeadTailProperties
<1> HIDE DEF t
<1>3. DOMAIN t = 1..(Len(inb) - 1)
  BY <1>2, LenProperties
<1>4. \A i \in DOMAIN inb : i # 1 => i - 1 \in DOMAIN t /\ t[i - 1] = inb[i]
  <2> TAKE i \in DOMAIN inb
  <2> HAVE i # 1
  <2>1. i - 1 \in 1..(Len(inb) - 1) /\ (i - 1) + 1 = i
    BY <1>1
  <2> QED BY <1>2, <1>3, <2>1
<1>5. OnItsWay(c, f, pend, t)
  BY <1>1, <1>4 DEF OnItsWay
<1> QED BY <1>5 DEF t

(* A window that waits keeps waiting for something that comes. *)
LEMMA PromisedStep ==
    ASSUME TypeInv, Promised, [Next]_vars
    PROVE  Promised'
<1>1. pending \in Seq(Requests) /\ inbox \in Seq(Said)
  BY DEF TypeInv, QueueOK
<1>2. TypeInv'
  BY TypeStep
<1>3. SUFFICES ASSUME win' # NoWindow, win'.running
               PROVE  OnItsWay(win'.chat, win'.first, pending', inbox')
  BY DEF Promised
<1>4. Full(win') /\ win' \in Windows /\ win'.chat \in Chat /\ win'.first \in 0..End
  BY <1>2, <1>3 DEF TypeInv, WindowOK, Full, View, Sketch, Windows
<1>5. ASSUME win'.first > 0,
             pending' = Append(pending, [chat |-> win'.chat, from |-> win'.first])
      PROVE  OnItsWay(win'.chat, win'.first, pending', inbox')
  <2>1. PICK c \in Chat, f \in 1..End : c = win'.chat /\ f = win'.first
    BY <1>4, <1>5, Bounds
  <2>2. [chat |-> c, from |-> f] \in Requests
    BY DEF Requests
  <2> QED BY <1>1, <1>5, <2>1, <2>2, ComesAsked
<1>6. ASSUME win # NoWindow, Grows(win, win'), pending' = Asked(win, win'), inbox' = inbox
      PROVE  OnItsWay(win'.chat, win'.first, pending', inbox')
  <2>1. CASE win.running
    BY <1>6, <2>1 DEF Grows, Asked, Promised
  <2>2. CASE ~win.running
    BY <1>3, <1>5, <1>6, <2>2 DEF Grows, Asked
  <2> QED BY <2>1, <2>2
<1>7. CASE Change
  <2>1. PICK m \in Said : inbox' = Append(inbox, m)
    BY <1>7, ChangeSaid
  <2>2. pending' = pending /\ win' = win
    BY <1>7, ChangeSaid
  <2> QED BY <1>1, <1>3, <2>1, <2>2, ComesAfter DEF Promised
<1>8. CASE Answer \/ Refuse
  <2>1. PICK m \in Said, i \in DOMAIN pending :
          /\ inbox' = Append(inbox, m) /\ pending' = Dropped(pending, i)
          /\ m.of \in {"page", "failed"} /\ m.query = pending[i]
    BY <1>8, AnswerSaid
  <2>2. win' = win
    BY <1>8, AnswerSaid
  <2> QED BY <1>1, <1>3, <2>1, <2>2, ComesSaid DEF Promised
<1>9. CASE Update
  <2>1. /\ inbox # <<>> /\ inbox' = Tail(inbox) /\ Head(inbox).of \in {"new", "edit", "sent", "delete"}
        /\ win # NoWindow /\ Grows(win, win') /\ pending' = Asked(win, win')
    BY <1>3, <1>9, UpdateHeard DEF Takes
  <2>2. CASE win.running
    <3>1. OnItsWay(win.chat, win.first, pending, inbox)
      BY <2>1, <2>2 DEF Promised
    <3>2. OnItsWay(win.chat, win.first, pending, Tail(inbox))
      BY <1>1, <2>1, <3>1, ComesStill
    <3> QED BY <2>1, <2>2, <3>2 DEF Grows, Asked
  <2>3. CASE ~win.running
    BY <1>3, <1>5, <2>1, <2>3 DEF Grows, Asked
  <2> QED BY <2>2, <2>3
<1>10. ASSUME inbox # <<>>, inbox' = Tail(inbox), ~Waits(Head(inbox).query),
              win' = win, pending' = pending
       PROVE  OnItsWay(win'.chat, win'.first, pending', inbox')
  <2>1. OnItsWay(win.chat, win.first, pending, inbox)
    BY <1>3, <1>10 DEF Promised
  <2>2. ~(Head(inbox).query.chat = win.chat /\ Head(inbox).query.from = win.first)
    BY <1>3, <1>10 DEF Waits, Mine
  <2> QED BY <1>1, <1>10, <2>1, <2>2, ComesStill
<1>11. CASE add_history
  BY <1>3, <1>5, <1>10, <1>11, PageHeard
<1>12. CASE get_history_failed
  BY <1>3, <1>5, <1>10, <1>12, FailureHeard
<1>13. CASE User
  <2>1. inbox' = inbox
    BY <1>13, UserCases
  <2> QED BY <1>3, <1>5, <1>6, <1>13, <2>1, UserCases
<1>14. CASE UNCHANGED vars
  BY <1>3, <1>14 DEF vars, Promised
<1> QED BY <1>7, <1>8, <1>9, <1>11, <1>12, <1>13, <1>14, NextCases

(* With TypeInv, Promised is the property HistoryAsked. *)
LEMMA PromisedSays ==
    ASSUME TypeInv, Promised
    PROVE  HistoryAsked
BY DEF HistoryAsked, TypeInv, WindowOK, Full, Promised, OnItsWay, Waits, Mine

(* The types, and what is waited for, hold of every state.                 *)
LEMMA WaitingHolds == Spec => [](TypeInv /\ Promised)
<1>1. Init => TypeInv /\ Promised
  BY TypeInit DEF Init, Promised
<1>2. TypeInv /\ Promised /\ [Next]_vars => (TypeInv /\ Promised)'
  BY TypeStep, PromisedStep
<1> QED BY <1>1, <1>2, PTL DEF Spec

(* The window always ends with a line that its bottom message has, and     *)
(* while there is text it is at the end of the chat, whatever is opened,   *)
(* scrolled, deleted and edited in whatever order (redraw, delete_message, *)
(* key_pressed, sym_key_pressed).                                          *)
THEOREM ViewSoundCorrect == Spec => []ViewSound
<1>1. TypeInv /\ Promised => ViewSound
  BY TypeSays
<1> QED BY <1>1, WaitingHolds, PTL

(* A window with room for older messages waits for a page, and the request *)
(* or its answer is on its way, however many windows of the chat were      *)
(* opened, closed and refused before (redraw, TdMessagesCallback).         *)
THEOREM HistoryAskedCorrect == Spec => []HistoryAsked
<1>1. TypeInv /\ Promised => HistoryAsked
  BY PromisedSays
<1> QED BY <1>1, WaitingHolds, PTL

-----------------------------------------------------------------------------
(***************************************************************************)
(* No message is missing: whatever is not as tdlib has it is set right by  *)
(* a message that is still on its way.                                     *)
(***************************************************************************)

(* Behind the k-th message of the inbox one tells of i. *)
Created(inb, k, ch, i) == \E j \in 1..Len(inb) : j > k /\ Creates(inb[j], ch, i)
Written(inb, k, ch, i) == \E j \in 1..Len(inb) : j > k /\ Writes(inb[j], ch, i)
Removed(inb, k, ch, i) == \E j \in 1..Len(inb) : j > k /\ Removes(inb[j], ch, i)

(* One message more. *)
LEMMA SaidLast ==
    ASSUME NEW inb \in Seq(Said), NEW m \in Said, NEW k \in Nat, NEW ch, NEW i
    PROVE  LET n == Append(inb, m) IN
           /\ Created(n, k, ch, i) <=> \/ Created(inb, k, ch, i)
                                       \/ k <= Len(inb) /\ Creates(m, ch, i)
           /\ Written(n, k, ch, i) <=> \/ Written(inb, k, ch, i)
                                       \/ k <= Len(inb) /\ Writes(m, ch, i)
           /\ Removed(n, k, ch, i) <=> \/ Removed(inb, k, ch, i)
                                       \/ k <= Len(inb) /\ Removes(m, ch, i)
<1> DEFINE n == Append(inb, m)
           l == Len(inb)
<1>1. l \in Nat
  BY LenProperties
<1>2. Len(n) = l + 1 /\ n[l + 1] = m /\ \A j \in 1..l : n[j] = inb[j]
  BY AppendProperties
<1> HIDE DEF n, l
<1>3. /\ \A j \in 1..l : j \in 1..(l + 1)
      /\ l + 1 \in 1..(l + 1) /\ (l + 1 > k <=> k <= l)
      /\ \A j \in 1..(l + 1) : j \in 1..l \/ j = l + 1
  BY <1>1
<1>4. Created(n, k, ch, i) <=> \/ \E j \in 1..l : j > k /\ Creates(inb[j], ch, i)
                               \/ k <= l /\ Creates(m, ch, i)
  BY <1>2, <1>3 DEF Created
<1>5. Written(n, k, ch, i) <=> \/ \E j \in 1..l : j > k /\ Writes(inb[j], ch, i)
                               \/ k <= l /\ Writes(m, ch, i)
  BY <1>2, <1>3 DEF Written
<1>6. Removed(n, k, ch, i) <=> \/ \E j \in 1..l : j > k /\ Removes(inb[j], ch, i)
                               \/ k <= l /\ Removes(m, ch, i)
  BY <1>2, <1>3 DEF Removed
<1> QED BY <1>4, <1>5, <1>6 DEF n, l, Created, Written, Removed

(* One message less: what was behind the next one is behind this. *)
LEMMA HeardFirst ==
    ASSUME NEW inb \in Seq(Said), inb # <<>>, NEW k \in Nat, NEW ch, NEW i
    PROVE  /\ Created(Tail(inb), k, ch, i) <=> Created(inb, k + 1, ch, i)
           /\ Written(Tail(inb), k, ch, i) <=> Written(inb, k + 1, ch, i)
           /\ Removed(Tail(inb), k, ch, i) <=> Removed(inb, k + 1, ch, i)
<1> DEFINE t == Tail(inb)
           l == Len(inb)
<1>1. l \in Nat \ {0}
  BY LenProperties, EmptySeq
<1>2. Len(t) = l - 1 /\ \A j \in 1..(l - 1) : t[j] = inb[j + 1]
  BY HeadTailProperties
<1> HIDE DEF t, l
<1>3. /\ \A j \in 1..(l - 1) : j + 1 \in 1..l /\ (j > k <=> j + 1 > k + 1)
      /\ \A j \in 1..l : j > k + 1 => j - 1 \in 1..(l - 1) /\ j - 1 > k /\ (j - 1) + 1 = j
  BY <1>1
<1>4. Created(t, k, ch, i) <=> \E j \in 1..l : j > k + 1 /\ Creates(inb[j], ch, i)
  BY <1>2, <1>3 DEF Created
<1>5. Written(t, k, ch, i) <=> \E j \in 1..l : j > k + 1 /\ Writes(inb[j], ch, i)
  BY <1>2, <1>3 DEF Written
<1>6. Removed(t, k, ch, i) <=> \E j \in 1..l : j > k + 1 /\ Removes(inb[j], ch, i)
  BY <1>2, <1>3 DEF Removed
<1> QED BY <1>4, <1>5, <1>6 DEF t, l, Created, Written, Removed

(* The first message, and those behind it. *)
LEMMA FirstOfAll ==
    ASSUME NEW inb \in Seq(Said), inb # <<>>, NEW ch, NEW i
    PROVE  /\ Created(inb, 0, ch, i) <=> Creates(Head(inb), ch, i) \/ Created(inb, 1, ch, i)
           /\ Written(inb, 0, ch, i) <=> Writes(Head(inb), ch, i) \/ Written(inb, 1, ch, i)
           /\ Removed(inb, 0, ch, i) <=> Removes(Head(inb), ch, i) \/ Removed(inb, 1, ch, i)
<1>1. Len(inb) \in Nat \ {0} /\ Head(inb) = inb[1]
  BY LenProperties, EmptySeq, HeadTailProperties
<1>2. /\ 1 \in 1..Len(inb) /\ 1 > 0
      /\ \A j \in 1..Len(inb) : j > 0 /\ (j = 1 \/ j > 1)
  BY <1>1
<1>3. Created(inb, 0, ch, i) <=> Creates(Head(inb), ch, i) \/ Created(inb, 1, ch, i)
  BY <1>1, <1>2 DEF Created
<1>4. Written(inb, 0, ch, i) <=> Writes(Head(inb), ch, i) \/ Written(inb, 1, ch, i)
  BY <1>1, <1>2 DEF Written
<1>5. Removed(inb, 0, ch, i) <=> Removes(Head(inb), ch, i) \/ Removed(inb, 1, ch, i)
  BY <1>1, <1>2 DEF Removed
<1> QED BY <1>3, <1>4, <1>5

(* Somebody who has heard the first k messages may take i to have n lines: *)
(* it has them, or a message that follows changes i, or it is gone and one *)
(* that follows says so.                                                   *)
Entry(i, n, ch, k, M, inb) ==
    IF i \in DOMAIN M[ch] THEN Written(inb, k, ch, i) \/ n = M[ch][i]
    ELSE Removed(inb, k, ch, i)
Fits(f, ch, k, M, inb) == \A i \in DOMAIN f : Entry(i, f[i], ch, k, M, inb)

(* He knows of each message from from up to to, but those that follow. *)
Covers(S, ch, k, from, to, M, inb) ==
    \A i \in DOMAIN M[ch] :
      from <= i /\ i < to /\ ~Created(inb, k, ch, i) => i \in S

(* The messages M and what is said of them. *)
PageDated(p, k, M, inb) ==
    /\ Fits(p.msgs, p.query.chat, k, M, inb)
    /\ Covers(DOMAIN p.msgs, p.query.chat, k, NextFirst(p.query.from, DOMAIN p.msgs),
              p.query.from, M, inb)
Dated(M, next, inb) ==
    /\ \A ch \in Chat : \A i \in DOMAIN M[ch] : i < next
    /\ \A k \in 1..Len(inb), ch \in Chat, i \in Id :
         /\ Writes(inb[k], ch, i) => Entry(i, inb[k].lines, ch, k, M, inb)
         /\ Removes(inb[k], ch, i) => i \notin DOMAIN M[ch] /\ i < next
    /\ \A k \in 1..Len(inb) : inb[k].of = "page" => PageDated(inb[k], k, M, inb)

(* The window w and what is still said of its messages. *)
Shown(w, M, inb) ==
    /\ Fits(w.msgs, w.chat, 0, M, inb)
    /\ Covers(DOMAIN w.msgs, w.chat, 0, w.first, End, M, inb)

(* What one takes a message for stays right when a change is said. *)
LEMMA EntrySaid ==
    ASSUME NEW M, NEW M2, NEW inb \in Seq(Said), NEW m \in Said, Changed(M, M2, m),
           NEW ch \in Chat, NEW i \in Id, NEW n, NEW k \in 0..Len(inb),
           Entry(i, n, ch, k, M, inb), Creates(m, ch, i) => ~Removed(inb, k, ch, i)
    PROVE  Entry(i, n, ch, k, M2, Append(inb, m))
<1>1. Len(inb) \in Nat
  BY LenProperties
<1>2. k \in Nat /\ k <= Len(inb)
  BY <1>1
<1>3. /\ Written(Append(inb, m), k, ch, i) <=> Written(inb, k, ch, i) \/ Writes(m, ch, i)
      /\ Removed(Append(inb, m), k, ch, i) <=> Removed(inb, k, ch, i) \/ Removes(m, ch, i)
  BY <1>2, SaidLast
<1>4. /\ i \in DOMAIN M2[ch] <=> \/ Creates(m, ch, i)
                                 \/ i \in DOMAIN M[ch] /\ ~Removes(m, ch, i)
      /\ Writes(m, ch, i) => M2[ch][i] = m.lines
      /\ i \in DOMAIN M2[ch] /\ ~Writes(m, ch, i) => M2[ch][i] = M[ch][i]
      /\ Creates(m, ch, i) => Writes(m, ch, i)
  BY DEF Changed, Creates, Writes
<1>5. CASE i \in DOMAIN M2[ch] /\ Writes(m, ch, i)
  BY <1>3, <1>5 DEF Entry
<1>6. CASE i \in DOMAIN M2[ch] /\ ~Writes(m, ch, i)
  BY <1>3, <1>4, <1>6 DEF Entry
<1>7. CASE i \notin DOMAIN M2[ch]
  BY <1>3, <1>4, <1>7 DEF Entry
<1> QED BY <1>5, <1>6, <1>7

(* What a message's entry must be one place later in the queue is what it must be once the
   head is heard. *)
LEMMA EntryHeard ==
    ASSUME NEW M, NEW inb \in Seq(Said), inb # <<>>, NEW ch, NEW i, NEW n, NEW k \in Nat,
           Entry(i, n, ch, k + 1, M, inb)
    PROVE  Entry(i, n, ch, k, M, Tail(inb))
BY HeardFirst DEF Entry

(* Who knows of all messages still does when a change is said. *)
LEMMA CoversSaid ==
    ASSUME NEW M, NEW M2, NEW inb \in Seq(Said), NEW m \in Said, Changed(M, M2, m),
           M2 \in [Chat -> Contents], NEW ch \in Chat, NEW S, NEW k \in 0..Len(inb),
           NEW from, NEW to, Covers(S, ch, k, from, to, M, inb)
    PROVE  Covers(S, ch, k, from, to, M2, Append(inb, m))
<1>1. Len(inb) \in Nat
  BY LenProperties
<1>2. k \in Nat /\ k <= Len(inb)
  BY <1>1
<1>3. SUFFICES ASSUME NEW i \in DOMAIN M2[ch], from <= i, i < to,
                      ~Created(Append(inb, m), k, ch, i)
               PROVE  i \in S
  BY DEF Covers
<1>4. i \in Id
  BY ContentsAre
<1>5. ~Created(inb, k, ch, i) /\ ~Creates(m, ch, i)
  BY <1>2, <1>3, SaidLast
<1>6. i \in DOMAIN M[ch]
  BY <1>4, <1>5 DEF Changed
<1> QED BY <1>3, <1>5, <1>6 DEF Covers

(* The same of a stretch of the history. *)
LEMMA CoversHeard ==
    ASSUME NEW M, NEW inb \in Seq(Said), inb # <<>>, NEW ch, NEW S, NEW k \in Nat,
           NEW from, NEW to, Covers(S, ch, k + 1, from, to, M, inb)
    PROVE  Covers(S, ch, k, from, to, M, Tail(inb))
BY HeardFirst DEF Covers

(* Nothing that is changed is what a page or a refusal says. *)
LEMMA NothingChanged ==
    ASSUME NEW M, NEW m, m.of \in {"page", "failed"}
    PROVE  Changed(M, M, m)
BY DEF Changed, Creates, Writes, Removes

(* A page has every message between the oldest of it and where it ends;    *)
(* an empty page ends at the first message of the chat.                    *)
LEMMA PageCovers ==
    ASSUME NEW m \in Contents, NEW from \in 1..End, NEW i \in DOMAIN m,
           NextFirst(from, PageIds(m, from)) <= i, i < from
    PROVE  i \in PageIds(m, from)
<1> DEFINE older == Older(m, from)
           S == PageIds(m, from)
           newer(k) == {j \in older : j > k}
<1>1. DOMAIN m \subseteq Id
  BY ContentsAre
<1>2. older \subseteq Id /\ older \in SUBSET (0..End) /\ older \subseteq Nat /\ i \in older /\ End \in Nat
  BY <1>1, Bounds DEF Older
<1>3. S \subseteq older
  BY DEF PageIds
<1>4. \A k \in older : k \in S <=> Cardinality(newer(k)) < Page
  BY DEF PageIds
<1>5. IsFiniteSet(older)
  <2>1. IsFiniteSet(0..End)
    BY <1>2, FS_Interval
  <2> HIDE DEF older
  <2> QED BY <1>2, <2>1, FS_Subset
<1>6. CASE S = {}
  <2>1. PICK k \in older : \A j \in older : j <= k
    <3>1. older # {}
      BY <1>2
    <3> HIDE DEF older
    <3> QED BY <1>2, <3>1, GreatestNumber
  <2>2. newer(k) = {}
    <3> HIDE DEF older
    <3>1. \A j \in older : ~(j > k)
      <4> TAKE j \in older
      <4>1. j \in Nat /\ k \in Nat /\ j <= k
        BY <1>2, <2>1
      <4> QED BY <4>1
    <3> QED BY <3>1
  <2>3. Cardinality(newer(k)) = 0
    BY <2>2, FS_EmptySet
  <2>4. 0 < Page
    BY Bounds
  <2> QED BY <1>4, <1>6, <2>1, <2>3, <2>4
<1>7. CASE S # {}
  <2> DEFINE l == Min(S)
  <2>1. l \in S
    <3>1. S \subseteq Nat
      BY <1>2, <1>3
    <3> HIDE DEF S
    <3> QED BY <1>7, <3>1, LeastNumber
  <2>2. l <= i
    BY <1>7 DEF NextFirst
  <2> HIDE DEF l, S
  <2>3. l \in older /\ l \in Nat /\ i \in Nat
    BY <1>2, <1>3, <2>1
  <2> HIDE DEF older
  <2>4. newer(i) \subseteq newer(l) /\ newer(l) \subseteq older
    <3>1. \A j \in older : j > i => j > l
      <4> TAKE j \in older
      <4>1. j \in Nat
        BY <1>2
      <4> QED BY <2>2, <2>3, <4>1
    <3> QED BY <3>1
  <2>5. IsFiniteSet(newer(l))
    BY <1>5, <2>4, FS_Subset
  <2>6. IsFiniteSet(newer(i)) /\ Cardinality(newer(i)) <= Cardinality(newer(l))
    BY <2>4, <2>5, FS_Subset
  <2>7. Cardinality(newer(l)) < Page
    BY <1>4, <2>1, <2>3
  <2>8. Cardinality(newer(i)) \in Nat /\ Cardinality(newer(l)) \in Nat /\ Page \in Nat
    BY <2>5, <2>6, FS_CardinalityType, Bounds
  <2>9. Cardinality(newer(i)) < Page
    <3> HIDE DEF newer
    <3> QED BY <2>6, <2>7, <2>8
  <2>10. i \in S
    BY <1>2, <1>4, <2>9
  <2> QED BY <2>10 DEF S
<1> QED BY <1>6, <1>7 DEF S

(* What has been said stays dated when more is said: a change, or a page. *)
LEMMA DatedSaid ==
    ASSUME NEW M \in [Chat -> Contents], NEW M2 \in [Chat -> Contents], NEW inb \in Seq(Said),
           NEW m \in Said, NEW next \in Nat, NEW next2 \in Nat,
           Dated(M, next, inb), Changed(M, M2, m), next <= next2,
           \A ch \in Chat, i \in Id : Creates(m, ch, i) => i = next /\ next < next2,
           m.of = "page" => PageDated(m, Len(inb) + 1, M2, Append(inb, m))
    PROVE  Dated(M2, next2, Append(inb, m))
<1> DEFINE n == Append(inb, m)
           l == Len(inb)
<1>1. l \in Nat
  BY LenProperties
<1>2. Len(n) = l + 1 /\ n[l + 1] = m /\ \A j \in 1..l : n[j] = inb[j] /\ inb[j] \in Said
  BY AppendProperties, ElementOfSeq
<1>3. \A ch \in Chat : DOMAIN M[ch] \subseteq Id /\ DOMAIN M2[ch] \subseteq Id
  BY ContentsAre
<1>4. \A i \in Id : i \in Nat
  BY Bounds
<1>5. \A j \in 1..(l + 1) : j \in 1..l \/ j = l + 1
  BY <1>1
<1> HIDE DEF n, l
<1>6. ASSUME NEW ch \in Chat, NEW i \in Id, Removes(m, ch, i)
      PROVE  i \in DOMAIN M[ch] /\ i < next /\ i \notin DOMAIN M2[ch]
  <2>1. i \in DOMAIN M[ch]
    BY <1>6 DEF Changed
  <2>2. i < next
    BY <2>1 DEF Dated
  <2>3. ~Creates(m, ch, i)
    BY <1>4, <2>2
  <2> QED BY <1>6, <2>1, <2>2, <2>3 DEF Changed
<1>7. ASSUME NEW ch \in Chat, NEW i \in DOMAIN M2[ch] PROVE i < next2
  <2>1. i \in Id /\ i \in Nat
    BY <1>3, <1>4
  <2>2. CASE Creates(m, ch, i)
    BY <2>1, <2>2
  <2>3. CASE ~Creates(m, ch, i)
    <3>1. i \in DOMAIN M[ch]
      BY <2>1, <2>3 DEF Changed
    <3>2. i < next
      BY <3>1 DEF Dated
    <3> QED BY <2>1, <3>2
  <2> QED BY <2>2, <2>3
<1>8. ASSUME NEW ch \in Chat, NEW i \in Id, NEW k, Creates(m, ch, i) PROVE ~Removed(inb, k, ch, i)
  <2>1. i = next
    BY <1>8
  <2>2. ASSUME NEW j \in 1..Len(inb), Removes(inb[j], ch, i) PROVE FALSE
    <3>1. i < next
      BY <2>2 DEF Dated
    <3> QED BY <2>1, <3>1
  <2> QED BY <2>2 DEF Removed
<1>9. ASSUME NEW ch \in Chat, NEW i \in Id, NEW x, NEW k \in 1..l, Entry(i, x, ch, k, M, inb)
      PROVE  Entry(i, x, ch, k, M2, n)
  <2>1. k \in 0..Len(inb)
    BY <1>1 DEF l
  <2> QED BY <1>8, <1>9, <2>1, EntrySaid DEF n
<1>10. ASSUME NEW k \in 1..(l + 1), NEW ch \in Chat, NEW i \in Id
       PROVE  /\ Writes(n[k], ch, i) => Entry(i, n[k].lines, ch, k, M2, n)
              /\ Removes(n[k], ch, i) => i \notin DOMAIN M2[ch] /\ i < next2
  <2>1. CASE k = l + 1
    <3>1. n[k] = m
      BY <1>2, <2>1
    <3>2. Writes(m, ch, i) => i \in DOMAIN M2[ch] /\ M2[ch][i] = m.lines
      BY DEF Changed
    <3>3. Writes(m, ch, i) => Entry(i, m.lines, ch, k, M2, n)
      BY <3>2 DEF Entry
    <3>4. Removes(m, ch, i) => i \notin DOMAIN M2[ch] /\ i < next2
      BY <1>4, <1>6
    <3> QED BY <3>1, <3>3, <3>4
  <2>2. CASE k \in 1..l
    <3>1. n[k] = inb[k] /\ k \in 1..Len(inb)
      BY <1>2, <2>2 DEF l
    <3>2. Writes(inb[k], ch, i) => Entry(i, inb[k].lines, ch, k, M, inb)
      BY <3>1 DEF Dated
    <3>3. Removes(inb[k], ch, i) => i \notin DOMAIN M[ch] /\ i < next
      BY <3>1 DEF Dated
    <3>4. Removes(inb[k], ch, i) => i \notin DOMAIN M2[ch] /\ i < next2
      <4> HAVE Removes(inb[k], ch, i)
      <4>1. ~Creates(m, ch, i)
        BY <1>4, <3>3
      <4> QED BY <1>4, <3>3, <4>1 DEF Changed
    <3> QED BY <1>9, <2>2, <3>1, <3>2, <3>4
  <2> QED BY <1>5, <2>1, <2>2
<1>11. ASSUME NEW k \in 1..(l + 1), n[k].of = "page" PROVE PageDated(n[k], k, M2, n)
  <2>1. CASE k = l + 1
    BY <1>2, <1>11, <2>1 DEF n, l
  <2>2. CASE k \in 1..l
    <3>1. n[k] = inb[k] /\ k \in 1..Len(inb) /\ inb[k] \in Said
      BY <1>2, <2>2 DEF l
    <3>2. PageDated(inb[k], k, M, inb) /\ inb[k].of = "page"
      BY <1>11, <3>1 DEF Dated
    <3>3. PICK ch \in Chat : ch = inb[k].query.chat
      BY <3>1, <3>2, SaidFields DEF Requests
    <3>4. PICK f \in Contents : f = inb[k].msgs
      BY <3>1, <3>2, SaidFields
    <3>5. Fits(f, ch, k, M2, n)
      <4>1. DOMAIN f \subseteq Id
        BY ContentsAre
      <4> QED BY <1>9, <2>2, <3>2, <3>3, <3>4, <4>1 DEF PageDated, Fits
    <3>6. k \in 0..Len(inb)
      BY <1>1, <2>2 DEF l
    <3>7. ASSUME NEW from, NEW to, Covers(DOMAIN f, ch, k, from, to, M, inb)
          PROVE  Covers(DOMAIN f, ch, k, from, to, M2, n)
      BY <3>6, <3>7, CoversSaid DEF n
    <3> QED BY <3>1, <3>2, <3>3, <3>4, <3>5, <3>7 DEF PageDated
  <2> QED BY <1>5, <2>1, <2>2
<1>12. Dated(M2, next2, n)
  BY <1>2, <1>7, <1>10, <1>11 DEF Dated
<1> QED BY <1>12 DEF n

(* What is still to be heard is dated from there. *)
LEMMA DatedHeard ==
    ASSUME NEW M, NEW inb \in Seq(Said), inb # <<>>, NEW next, Dated(M, next, inb)
    PROVE  Dated(M, next, Tail(inb))
<1> DEFINE t == Tail(inb)
<1>1. Len(inb) \in Nat \ {0}
  BY LenProperties, EmptySeq
<1>2. Len(t) = Len(inb) - 1 /\ \A k \in 1..Len(t) : t[k] = inb[k + 1]
  BY HeadTailProperties
<1> HIDE DEF t
<1>3. \A k \in 1..Len(t) : k + 1 \in 1..Len(inb) /\ k \in Nat
  BY <1>1, <1>2
<1>4. ASSUME NEW ch, NEW i, NEW x, NEW k \in Nat, Entry(i, x, ch, k + 1, M, inb)
      PROVE  Entry(i, x, ch, k, M, t)
  BY <1>4, EntryHeard DEF t
<1>5. ASSUME NEW k \in 1..Len(t), NEW ch \in Chat, NEW i \in Id
      PROVE  /\ Writes(t[k], ch, i) => Entry(i, t[k].lines, ch, k, M, t)
             /\ Removes(t[k], ch, i) => i \notin DOMAIN M[ch] /\ i < next
  <2>1. k + 1 \in 1..Len(inb) /\ k \in Nat /\ t[k] = inb[k + 1]
    BY <1>2, <1>3
  <2>2. /\ Writes(t[k], ch, i) => Entry(i, t[k].lines, ch, k + 1, M, inb)
        /\ Removes(t[k], ch, i) => i \notin DOMAIN M[ch] /\ i < next
    BY <2>1 DEF Dated
  <2> QED BY <1>4, <2>1, <2>2
<1>6. ASSUME NEW k \in 1..Len(t), t[k].of = "page" PROVE PageDated(t[k], k, M, t)
  <2>1. k + 1 \in 1..Len(inb) /\ k \in Nat /\ t[k] = inb[k + 1]
    BY <1>2, <1>3
  <2>2. PageDated(t[k], k + 1, M, inb)
    BY <1>6, <2>1 DEF Dated
  <2>3. ASSUME NEW S, NEW ch, NEW from, NEW to, Covers(S, ch, k + 1, from, to, M, inb)
        PROVE  Covers(S, ch, k, from, to, M, t)
    BY <2>1, <2>3, CoversHeard DEF t
  <2> QED BY <1>4, <2>1, <2>2, <2>3 DEF PageDated, Fits
<1>7. Dated(M, next, t)
  BY <1>5, <1>6 DEF Dated
<1> QED BY <1>7 DEF t

(* What the first message says of i holds behind it. *)
LEMMA FirstDated ==
    ASSUME NEW M, NEW inb \in Seq(Said), inb # <<>>, NEW next, Dated(M, next, inb),
           NEW ch \in Chat, NEW i \in Id
    PROVE  /\ Writes(Head(inb), ch, i) => Entry(i, Head(inb).lines, ch, 1, M, inb)
           /\ Removes(Head(inb), ch, i) => i \notin DOMAIN M[ch]
           /\ Head(inb).of = "page" => PageDated(Head(inb), 1, M, inb)
<1>1. 1 \in 1..Len(inb) /\ Head(inb) = inb[1]
  BY LenProperties, EmptySeq, HeadTailProperties
<1> QED BY <1>1 DEF Dated

(* What a window shows stays right, up to the notices behind it, when TDLib says one more
   thing. *)
LEMMA ShownSaid ==
    ASSUME NEW w, Full(w), NEW M, NEW M2 \in [Chat -> Contents], NEW inb \in Seq(Said),
           NEW m \in Said, NEW next, Dated(M, next, inb), Changed(M, M2, m),
           \A ch \in Chat, i \in Id : Creates(m, ch, i) => ~(i < next),
           Shown(w, M, inb)
    PROVE  Shown(w, M2, Append(inb, m))
<1>1. PICK ch \in Chat : ch = w.chat
  BY DEF Full, View, Sketch, Windows
<1>2. PICK f \in Contents : f = w.msgs
  BY DEF Full, View, Sketch, Windows
<1>3. 0 \in 0..Len(inb)
  BY LenProperties
<1>4. DOMAIN f \subseteq Id
  BY ContentsAre
<1>5. ASSUME NEW i \in Id, Creates(m, ch, i) PROVE ~Removed(inb, 0, ch, i)
  <2>1. ASSUME NEW j \in 1..Len(inb), Removes(inb[j], ch, i) PROVE FALSE
    <3>1. i < next
      BY <2>1 DEF Dated
    <3> QED BY <1>5, <3>1
  <2> QED BY <2>1 DEF Removed
<1>6. ASSUME NEW i \in DOMAIN f PROVE Entry(i, f[i], ch, 0, M2, Append(inb, m))
  <2>1. Entry(i, f[i], ch, 0, M, inb) /\ i \in Id
    BY <1>1, <1>2, <1>4 DEF Shown, Fits
  <2> QED BY <1>3, <1>5, <2>1, EntrySaid
<1>7. Covers(DOMAIN f, ch, 0, w.first, End, M2, Append(inb, m))
  BY <1>1, <1>2, <1>3, CoversSaid DEF Shown
<1> QED BY <1>1, <1>2, <1>6, <1>7 DEF Shown, Fits

(* A window that takes in the first message shows what it says. *)
LEMMA ShownTakes ==
    ASSUME NEW w, Full(w), NEW r, NEW M \in [Chat -> Contents], NEW inb \in Seq(Said), inb # <<>>,
           NEW next, Dated(M, next, inb), Takes(w, Head(inb), r), Shown(w, M, inb)
    PROVE  Shown(r, M, Tail(inb))
<1> DEFINE m == Head(inb)
<1>1. PICK ch \in Chat : ch = w.chat
  BY DEF Full, View, Sketch, Windows
<1>2. PICK g \in Contents : g = r.msgs
  BY DEF Takes, Grows, Full, View, Sketch, Windows
<1>3. r.chat = ch /\ r.first = w.first
  BY <1>1 DEF Takes, Grows
<1>4. PICK f \in Contents : f = w.msgs
  BY DEF Full, View, Sketch, Windows
<1>5. DOMAIN g \subseteq Id /\ DOMAIN M[ch] \subseteq Id
  BY ContentsAre
<1>6. /\ \A i \in DOMAIN g :
           \/ Writes(m, ch, i) /\ g[i] = m.lines
           \/ ~Writes(m, ch, i) /\ ~Removes(m, ch, i) /\ i \in DOMAIN f /\ g[i] = f[i]
      /\ \A i \in DOMAIN f : ~Removes(m, ch, i) => i \in DOMAIN g
      /\ \A i \in Id : Creates(m, ch, i) => i \in DOMAIN g
  BY <1>1, <1>2, <1>4 DEF Takes
<1> HIDE DEF m
<1>7. ASSUME NEW i \in DOMAIN g PROVE Entry(i, g[i], ch, 0, M, Tail(inb))
  <2>1. i \in Id
    BY <1>5
  <2>2. Entry(i, g[i], ch, 1, M, inb)
    <3>1. CASE Writes(m, ch, i) /\ g[i] = m.lines
      BY <2>1, <3>1, FirstDated DEF m
    <3>2. CASE ~Writes(m, ch, i) /\ ~Removes(m, ch, i) /\ i \in DOMAIN f /\ g[i] = f[i]
      <4>1. Entry(i, g[i], ch, 0, M, inb)
        BY <1>1, <1>4, <3>2 DEF Shown, Fits
      <4> QED BY <3>2, <4>1, FirstOfAll DEF Entry, m
    <3> QED BY <1>6, <3>1, <3>2
  <2>3. 0 + 1 = 1 /\ 0 \in Nat
    OBVIOUS
  <2> QED BY <2>2, <2>3, EntryHeard
<1>8. ASSUME NEW i \in DOMAIN M[ch], w.first <= i, i < End, ~Created(Tail(inb), 0, ch, i)
      PROVE  i \in DOMAIN g
  <2>1. i \in Id
    BY <1>5
  <2>2. ~Created(inb, 1, ch, i)
    <3>1. 0 + 1 = 1 /\ 0 \in Nat
      OBVIOUS
    <3> QED BY <1>8, <3>1, HeardFirst
  <2>3. CASE Creates(m, ch, i)
    BY <1>6, <2>1, <2>3
  <2>4. CASE ~Creates(m, ch, i)
    <3>1. ~Created(inb, 0, ch, i)
      BY <2>2, <2>4, FirstOfAll DEF m
    <3>2. i \in DOMAIN f
      BY <1>1, <1>4, <1>8, <3>1 DEF Shown, Covers
    <3>3. ~Removes(m, ch, i)
      BY <1>8, <2>1, FirstDated DEF m
    <3> QED BY <1>6, <3>2, <3>3
  <2> QED BY <2>3, <2>4
<1>9. Fits(g, ch, 0, M, Tail(inb)) /\ Covers(DOMAIN g, ch, 0, w.first, End, M, Tail(inb))
  BY <1>7, <1>8 DEF Fits, Covers
<1> QED BY <1>2, <1>3, <1>9 DEF Shown

(* A window of which the first message says nothing. *)
LEMMA ShownBeside ==
    ASSUME NEW w, Full(w), NEW M, NEW inb \in Seq(Said), inb # <<>>,
           Head(inb).of \in {"page", "failed"}, Shown(w, M, inb)
    PROVE  Shown(w, M, Tail(inb))
<1> DEFINE m == Head(inb)
<1>1. \A ch, i : ~Creates(m, ch, i) /\ ~Writes(m, ch, i) /\ ~Removes(m, ch, i)
  BY DEF Creates, Writes, Removes
<1>2. \A ch, i : /\ Created(inb, 0, ch, i) <=> Created(Tail(inb), 0, ch, i)
                 /\ Written(inb, 0, ch, i) <=> Written(Tail(inb), 0, ch, i)
                 /\ Removed(inb, 0, ch, i) <=> Removed(Tail(inb), 0, ch, i)
  <2> TAKE ch, i
  <2>1. 0 + 1 = 1 /\ 0 \in Nat
    OBVIOUS
  <2> QED BY <1>1, <2>1, FirstOfAll, HeardFirst
<1> QED BY <1>2 DEF Shown, Fits, Covers, Entry

(* A window that takes the page it waits for. *)
LEMMA ShownPaged ==
    ASSUME NEW w, Full(w), NEW r, NEW M \in [Chat -> Contents], NEW inb \in Seq(Said), inb # <<>>,
           NEW next, Dated(M, next, inb), Head(inb).of = "page",
           Head(inb).query.chat = w.chat, Head(inb).query.from = w.first,
           r.chat = w.chat, r.msgs = Merged(w.msgs, Head(inb).msgs),
           r.first = NextFirst(w.first, DOMAIN Head(inb).msgs), Shown(w, M, inb)
    PROVE  Shown(r, M, Tail(inb))
<1> DEFINE m == Head(inb)
           t == Tail(inb)
<1>1. PICK ch \in Chat : ch = w.chat
  BY DEF Full, View, Sketch, Windows
<1>2. PICK f \in Contents : f = w.msgs
  BY DEF Full, View, Sketch, Windows
<1>3. m \in Said
  BY HeadTailProperties
<1>4. PICK p \in Contents : p = m.msgs
  BY <1>3, SaidFields
<1>5. PICK g \in Contents : g = Merged(f, p)
  BY MergedFacts
<1>6. DOMAIN g = DOMAIN f \cup DOMAIN p
  BY <1>5, MergedFacts
<1>7. /\ \A i \in DOMAIN p : g[i] = p[i]
      /\ \A i \in DOMAIN f : i \notin DOMAIN p => g[i] = f[i]
  BY <1>5 DEF Merged
<1>8. PageDated(m, 1, M, inb)
  <2>1. 1 \in Id
    BY Bounds DEF Id
  <2> QED BY <1>1, <2>1, FirstDated
<1>9. Fits(p, ch, 1, M, inb) /\ Covers(DOMAIN p, ch, 1, NextFirst(w.first, DOMAIN p), w.first, M, inb)
  BY <1>1, <1>4, <1>8 DEF PageDated
<1>10. Shown(w, M, t)
  BY ShownBeside
<1>11. Fits(f, ch, 0, M, t) /\ Covers(DOMAIN f, ch, 0, w.first, End, M, t)
  BY <1>1, <1>2, <1>10 DEF Shown
<1>12. 0 + 1 = 1 /\ 0 \in Nat
  OBVIOUS
<1>13. Covers(DOMAIN p, ch, 0, NextFirst(w.first, DOMAIN p), w.first, M, t)
  BY <1>9, <1>12, CoversHeard
<1>14. \A i \in DOMAIN p : Entry(i, p[i], ch, 0, M, t)
  BY <1>9, <1>12, EntryHeard DEF Fits
<1> HIDE DEF m, t
<1>15. Fits(g, ch, 0, M, t)
  <2>1. ASSUME NEW i \in DOMAIN g PROVE Entry(i, g[i], ch, 0, M, t)
    <3>1. CASE i \in DOMAIN p
      BY <1>7, <1>14, <3>1
    <3>2. CASE i \notin DOMAIN p
      BY <1>6, <1>7, <1>11, <3>2 DEF Fits
    <3> QED BY <3>1, <3>2
  <2> QED BY <2>1 DEF Fits
<1>16. Covers(DOMAIN g, ch, 0, NextFirst(w.first, DOMAIN p), End, M, t)
  <2>1. SUFFICES ASSUME NEW i \in DOMAIN M[ch], NextFirst(w.first, DOMAIN p) <= i, i < End,
                        ~Created(t, 0, ch, i)
                 PROVE  i \in DOMAIN g
    BY DEF Covers
  <2>2. i \in Nat /\ w.first \in Nat
    <3>1. i \in Id
      BY ContentsAre
    <3> QED BY <3>1, Bounds DEF Full, View, Sketch, Windows
  <2>3. CASE w.first <= i
    BY <1>6, <1>11, <2>1, <2>3 DEF Covers
  <2>4. CASE i < w.first
    BY <1>6, <1>13, <2>1, <2>4 DEF Covers
  <2> QED BY <2>2, <2>3, <2>4
<1> QED BY <1>1, <1>2, <1>4, <1>5, <1>15, <1>16 DEF Shown, m, t

(* What is said is dated, and so is what the window shows. *)
AllDated ==
    /\ Dated(msgs, nextId, inbox)
    /\ win # NoWindow => Shown(win, msgs, inbox)

(* A window that is opened, moved or drawn keeps what it shows. *)
LEMMA ShownGrown ==
    ASSUME NEW w, NEW r, NEW M, NEW inb, Shown(w, M, inb),
           r.chat = w.chat, r.first = w.first, r.msgs = w.msgs
    PROVE  Shown(r, M, inb)
BY DEF Shown

(* An empty window, with all its history still to come, shows nothing wrong. *)
LEMMA ShownFresh ==
    ASSUME NEW r, NEW M \in [Chat -> Contents], NEW inb, DOMAIN r.msgs = {}, r.first = End,
           r.chat \in Chat
    PROVE  Shown(r, M, inb)
<1>1. \A i \in DOMAIN M[r.chat] : ~(End <= i /\ i < End)
  <2> TAKE i \in DOMAIN M[r.chat]
  <2>1. i \in Id
    BY ContentsAre
  <2> QED BY <2>1, Bounds
<1> QED BY <1>1 DEF Shown, Fits, Covers

(* Every step keeps the queue and the window right up to the notices still to be heard. *)
LEMMA DatedStep ==
    ASSUME TypeInv, AllDated, [Next]_vars
    PROVE  AllDated'
<1>1. /\ msgs \in [Chat -> Contents] /\ nextId \in 1..End /\ pending \in Seq(Requests)
      /\ inbox \in Seq(Said) /\ (win # NoWindow => Full(win)) /\ nextId \in Nat
  BY Bounds DEF TypeInv, TdOK, QueueOK, WindowOK
<1>2. TypeInv'
  BY TypeStep
<1>3. msgs' \in [Chat -> Contents] /\ nextId' \in 1..End /\ nextId' \in Nat
  BY <1>2, Bounds DEF TypeInv, TdOK
<1>4. Dated(msgs, nextId, inbox) /\ (win # NoWindow => Shown(win, msgs, inbox))
  BY DEF AllDated
<1>5. ASSUME NEW m \in Said, inbox' = Append(inbox, m), Changed(msgs, msgs', m), win' = win,
             nextId <= nextId',
             \A ch \in Chat, i \in Id : Creates(m, ch, i) => i = nextId /\ nextId < nextId',
             m.of = "page" => PageDated(m, Len(inbox) + 1, msgs', Append(inbox, m))
      PROVE  AllDated'
  <2>1. Dated(msgs', nextId', inbox')
    BY <1>1, <1>3, <1>4, <1>5, DatedSaid
  <2>2. \A ch \in Chat, i \in Id : Creates(m, ch, i) => ~(i < nextId)
    BY <1>1, <1>5
  <2>3. win # NoWindow => Shown(win, msgs', inbox')
    BY <1>1, <1>3, <1>4, <1>5, <2>2, ShownSaid
  <2> QED BY <1>5, <2>1, <2>3 DEF AllDated
<1>6. CASE Change
  <2>1. PICK m \in Said :
          /\ inbox' = Append(inbox, m) /\ m.of \notin {"page", "failed"}
          /\ Changed(msgs, msgs', m)
          /\ \/ nextId' = nextId /\ m.of \in {"edit", "delete"}
             \/ nextId' = nextId + 1 /\ m.of \in {"new", "sent"} /\ m.id = nextId
    BY <1>6, ChangeSaid
  <2>2. win' = win
    BY <1>6, ChangeSaid
  <2>3. nextId <= nextId'
    BY <1>1, <2>1
  <2>4. \A ch \in Chat, i \in Id : Creates(m, ch, i) => i = nextId /\ nextId < nextId'
    BY <1>1, <2>1 DEF Creates
  <2> QED BY <1>5, <2>1, <2>2, <2>3, <2>4
<1>7. CASE Answer \/ Refuse
  <2>1. UNCHANGED <<msgs, nextId, win>>
    BY <1>7, AnswerSaid
  <2>2. PICK m \in Said, i \in DOMAIN pending :
          /\ inbox' = Append(inbox, m) /\ m.of \in {"page", "failed"}
          /\ m.of = "page" => m.msgs = PageOf(m.query)
    BY <1>7, AnswerSaid
  <2>3. Changed(msgs, msgs', m)
    BY <2>1, <2>2, NothingChanged
  <2>4. nextId <= nextId'
    BY <1>1, <2>1
  <2>5. \A ch, j : ~Creates(m, ch, j)
    BY <2>2 DEF Creates
  <2>6. ASSUME m.of = "page" PROVE PageDated(m, Len(inbox) + 1, msgs, Append(inbox, m))
    <3>1. PICK q \in Requests : q = m.query
      BY <2>6, SaidFields
    <3>2. PICK ch \in Chat, from \in 1..End : ch = q.chat /\ from = q.from
      BY DEF Requests
    <3>3. PICK f \in Contents : f = m.msgs
      BY <2>6, SaidFields
    <3>4. PICK M \in Contents : M = msgs[ch]
      BY <1>1
    <3>5. /\ DOMAIN f = PageIds(M, from)
          /\ \A j \in DOMAIN f : j \in DOMAIN M /\ f[j] = M[j]
      BY <1>1, <2>2, <2>6, <3>1, <3>2, <3>3, <3>4, PageIsContents
    <3>6. Fits(f, ch, Len(inbox) + 1, msgs, Append(inbox, m))
      BY <3>4, <3>5 DEF Fits, Entry
    <3>7. \A j \in DOMAIN M : NextFirst(from, DOMAIN f) <= j /\ j < from => j \in DOMAIN f
      BY <3>5, PageCovers
    <3>8. Covers(DOMAIN f, ch, Len(inbox) + 1, NextFirst(from, DOMAIN f), from, msgs,
                 Append(inbox, m))
      BY <3>4, <3>7 DEF Covers
    <3> QED BY <3>1, <3>2, <3>3, <3>6, <3>8 DEF PageDated
  <2> QED BY <1>5, <2>1, <2>2, <2>3, <2>4, <2>5, <2>6
<1>8. CASE Update
  <2>1. /\ inbox # <<>> /\ inbox' = Tail(inbox) /\ UNCHANGED <<msgs, nextId>>
        /\ win = NoWindow => win' = win
        /\ win # NoWindow => Takes(win, Head(inbox), win')
    BY <1>8, UpdateHeard
  <2>2. Dated(msgs, nextId, Tail(inbox))
    BY <1>1, <1>4, <2>1, DatedHeard
  <2>3. win # NoWindow => Shown(win', msgs, Tail(inbox))
    BY <1>1, <1>4, <2>1, ShownTakes
  <2> QED BY <2>1, <2>2, <2>3 DEF AllDated
<1>9. ASSUME inbox # <<>>, inbox' = Tail(inbox), Head(inbox).of \in {"page", "failed"},
             UNCHANGED <<msgs, nextId>>,
             \/ win' = win
             \/ /\ win # NoWindow /\ win'.chat = win.chat /\ win'.first = win.first
                /\ win'.msgs = win.msgs
             \/ win # NoWindow /\ Shown(win', msgs, Tail(inbox))
      PROVE  AllDated'
  <2>1. Dated(msgs, nextId, Tail(inbox))
    BY <1>1, <1>4, <1>9, DatedHeard
  <2>2. win # NoWindow => Shown(win, msgs, Tail(inbox))
    BY <1>1, <1>4, <1>9, ShownBeside
  <2>3. win' # NoWindow => Shown(win', msgs, Tail(inbox))
    BY <1>9, <2>2, ShownGrown
  <2> QED BY <1>9, <2>1, <2>3 DEF AllDated
<1>10. CASE add_history
  <2>1. /\ inbox # <<>> /\ inbox' = Tail(inbox) /\ Head(inbox).of = "page"
        /\ UNCHANGED <<msgs, nextId>>
    BY <1>10, PageHeard
  <2>2. CASE ~Waits(Head(inbox).query)
    BY <1>9, <1>10, <2>1, <2>2, PageHeard
  <2>3. CASE Waits(Head(inbox).query)
    <3>1. /\ win'.chat = win.chat /\ win'.msgs = Merged(win.msgs, Head(inbox).msgs)
          /\ win'.first = NextFirst(win.first, DOMAIN Head(inbox).msgs)
      BY <1>10, <2>3, PageHeard
    <3>2. /\ win # NoWindow /\ Head(inbox).query.chat = win.chat
          /\ Head(inbox).query.from = win.first
      BY <2>3 DEF Waits, Mine
    <3>3. Full(win) /\ Shown(win, msgs, inbox)
      BY <1>1, <1>4, <3>2
    <3>4. Shown(win', msgs, Tail(inbox))
      BY <1>1, <1>4, <2>1, <3>1, <3>2, <3>3, ShownPaged
    <3> QED BY <1>9, <2>1, <3>2, <3>4
  <2> QED BY <2>2, <2>3
<1>11. CASE get_history_failed
  BY <1>9, <1>11, FailureHeard DEF Waits, Mine
<1>12. CASE User
  <2>1. UNCHANGED <<msgs, nextId, inbox>>
    BY <1>12, UserCases
  <2>2. win' # NoWindow => Shown(win', msgs, inbox)
    <3>1. CASE win'.chat \in Chat /\ win'.first = End /\ DOMAIN win'.msgs = {}
      BY <1>1, <3>1, ShownFresh
    <3>2. CASE win # NoWindow /\ Grows(win, win') /\ win'.msgs = win.msgs
      BY <1>4, <3>2, ShownGrown DEF Grows
    <3> QED BY <1>12, <3>1, <3>2, UserCases
  <2> QED BY <1>4, <2>1, <2>2 DEF AllDated
<1>13. CASE UNCHANGED vars
  BY <1>13 DEF vars, tdVars, AllDated
<1> QED BY <1>6, <1>7, <1>8, <1>10, <1>11, <1>12, <1>13, NextCases

(* AllDated at the start. *)
LEMMA DatedInit ==
    ASSUME Init
    PROVE  AllDated
<1>1. PICK n \in Lengths : /\ nextId = 1 + Max({n[c] : c \in Chat})
                           /\ msgs = [c \in Chat |-> [i \in 1..n[c] |-> 1]]
  BY DEF Init
<1>2. n \in [Chat -> 0..(MaxId - 1)] /\ Chat # {} /\ MaxId - 1 \in Nat
  BY ChatWindowAssumption, Bounds
<1> DEFINE lengths == {n[c] : c \in Chat}
<1>3. lengths \in SUBSET (0..(MaxId - 1)) /\ lengths # {}
  BY <1>2
<1>4. \A c \in Chat : n[c] \in lengths
  OBVIOUS
<1> HIDE DEF lengths
<1>5. Max(lengths) \in lengths /\ \A k \in lengths : k <= Max(lengths)
  BY <1>2, <1>3, GreatestNumber
<1>6. ASSUME NEW c \in Chat, NEW i \in DOMAIN msgs[c] PROVE i < nextId
  <2>1. i \in 1..n[c] /\ n[c] \in 0..(MaxId - 1) /\ Max(lengths) \in 0..(MaxId - 1)
    BY <1>1, <1>2, <1>3, <1>5
  <2>2. n[c] <= Max(lengths)
    BY <1>4, <1>5
  <2>3. nextId = 1 + Max(lengths)
    BY <1>1 DEF lengths
  <2> QED BY <2>1, <2>2, <2>3
<1>7. inbox = <<>> /\ win = NoWindow
  BY DEF Init
<1> QED BY <1>6, <1>7 DEF AllDated, Dated

(* With an empty queue, a window right up to the notices behind it has no gap: NoGap. *)
LEMMA DatedSays ==
    ASSUME TypeInv, AllDated
    PROVE  NoGap
<1>1. SUFFICES ASSUME win # NoWindow, inbox = <<>>
               PROVE  /\ \A i \in DOMAIN win.msgs : i \in DOMAIN msgs[win.chat]
                                                    /\ win.msgs[i] = msgs[win.chat][i]
                      /\ \A i \in DOMAIN msgs[win.chat] : i >= win.first => i \in DOMAIN win.msgs
  BY DEF NoGap
<1>2. Shown(win, msgs, <<>>)
  BY <1>1 DEF AllDated
<1>3. win.chat \in Chat /\ win.first \in Nat /\ msgs[win.chat] \in Contents
  BY <1>1, Bounds DEF TypeInv, TdOK, WindowOK, Full, View, Sketch, Windows
<1>4. \A ch, i : ~Created(<<>>, 0, ch, i) /\ ~Written(<<>>, 0, ch, i) /\ ~Removed(<<>>, 0, ch, i)
  BY DEF Created, Written, Removed
<1>5. \A i \in DOMAIN win.msgs : i \in DOMAIN msgs[win.chat] /\ win.msgs[i] = msgs[win.chat][i]
  BY <1>2, <1>4 DEF Shown, Fits, Entry
<1>6. ASSUME NEW i \in DOMAIN msgs[win.chat], i >= win.first PROVE i \in DOMAIN win.msgs
  <2>1. i \in Id
    BY <1>3, ContentsAre
  <2>2. i \in Nat /\ i < End /\ win.first <= i
    BY <1>3, <1>6, <2>1, Bounds
  <2> QED BY <1>2, <1>4, <2>2 DEF Shown, Covers
<1> QED BY <1>5, <1>6

(* When the client has heard everything, the window shows no message that  *)
(* is gone or has changed, and none is missing from the oldest on that it  *)
(* has asked for, whatever was said while a page was on its way and for    *)
(* whichever earlier window of the chat it was asked (add_history,         *)
(* add_message, delete_message, update_message_content).                   *)
THEOREM NoGapCorrect == Spec => []NoGap
<1>1. Init => TypeInv /\ AllDated
  BY TypeInit, DatedInit
<1>2. TypeInv /\ AllDated /\ [Next]_vars => (TypeInv /\ AllDated)'
  BY TypeStep, DatedStep
<1>3. TypeInv /\ AllDated => NoGap
  BY DatedSays
<1> QED BY <1>1, <1>2, <1>3, PTL DEF Spec
===============================================================================
