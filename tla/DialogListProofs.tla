--------------------------- MODULE DialogListProofs ---------------------------
(***************************************************************************)
(* Proofs about DialogList: whatever the chats, the rows and the orders,   *)
(* the selected chat stays an entry of the list, at most one getChats is   *)
(* on its way, and no chat is missing above what was reached.              *)
(***************************************************************************)
EXTENDS DialogList, FiniteSetTheorems, WellFoundedInduction, SequenceTheorems, TLAPS

-----------------------------------------------------------------------------
(***************************************************************************)
(* Positions.                                                              *)
(***************************************************************************)

(* A set of numbers has a least one. *)
LEMMA LeastNumber ==
    ASSUME NEW S \in SUBSET Nat, S # {}
    PROVE  \E m \in S : \A k \in S : m <= k
<1> DEFINE R == OpToRel(<, Nat)
<1>1. IsWellFoundedOn(R, Nat)
  BY NatLessThanWellFounded
<1>2. PICK m \in S : \A k \in S : <<k, m>> \notin R
  <2> HIDE DEF R
  <2> QED BY <1>1, WFMin
<1>3. \A k \in S : ~ (k < m)
  BY <1>2 DEF OpToRel
<1> QED BY <1>3

(* A finite set of numbers has a greatest one: the smallest set without    *)
(* one would be left without one when a number is taken out.               *)
LEMMA GreatestNumber ==
    ASSUME NEW S \in SUBSET Nat, S # {}, IsFiniteSet(S)
    PROVE  \E m \in S : \A k \in S : k <= m
<1> DEFINE HasGreatest(U) == \E m \in U : \A k \in U : k <= m
           Bad == {n \in Nat : \E U \in SUBSET S : U # {} /\ ~HasGreatest(U) /\ Cardinality(U) = n}
<1>1. SUFFICES ASSUME ~HasGreatest(S) PROVE FALSE
  OBVIOUS
<1>2. Cardinality(S) \in Bad
  BY <1>1, FS_CardinalityType
<1>3. PICK n \in Bad : \A k \in Bad : n <= k
  <2>1. Bad \in SUBSET Nat /\ Bad # {}
    BY <1>2
  <2> HIDE DEF Bad
  <2> QED BY <2>1, LeastNumber
<1>4. PICK U \in SUBSET S : U # {} /\ ~HasGreatest(U) /\ Cardinality(U) = n
  BY <1>3
<1>5. PICK x \in U : TRUE
  BY <1>4
<1>6. IsFiniteSet(U)
  BY FS_Subset
<1>7. IsFiniteSet(U \ {x}) /\ Cardinality(U \ {x}) = Cardinality(U) - 1
  BY <1>5, <1>6, FS_RemoveElement
<1>8. U \ {x} # {}
  <2> SUFFICES ASSUME U \ {x} = {} PROVE FALSE
    OBVIOUS
  <2>1. \A k \in U : k = x
    OBVIOUS
  <2>2. x \in Nat
    BY <1>5
  <2>3. HasGreatest(U)
    BY <1>5, <2>1, <2>2
  <2> QED BY <1>4, <2>3
<1>9. ~HasGreatest(U \ {x})
  <2> SUFFICES ASSUME NEW m \in U \ {x}, \A k \in U \ {x} : k <= m PROVE FALSE
    OBVIOUS
  <2>1. \A k \in U : k = x \/ k <= m
    OBVIOUS
  <2>2. x \in Nat /\ m \in Nat /\ m \in U /\ \A k \in U : k \in Nat
    BY <1>5
  <2>3. CASE x <= m
    <3>1. \A k \in U : k <= m
      BY <2>1, <2>3
    <3> QED BY <1>4, <2>2, <3>1
  <2>4. CASE m <= x
    <3>1. \A k \in U : k <= x
      BY <2>1, <2>2, <2>4
    <3> QED BY <1>4, <1>5, <3>1
  <2> QED BY <2>2, <2>3, <2>4
<1>10. n - 1 \in Bad
  <2>1. Cardinality(U \ {x}) \in Nat
    BY <1>7, FS_CardinalityType
  <2> QED BY <1>4, <1>7, <1>8, <1>9, <2>1
<1>11. n \in Nat
  BY <1>3
<1> QED BY <1>3, <1>10, <1>11

(* The header stands above all chats and is none of them.                  *)
LEMMA HeaderFacts ==
    /\ Header.order = MaxOrder + 1 /\ Header.chat \in Nat
    /\ \A c \in Chat : c \in Nat /\ c # 0 /\ c < Header.chat
    /\ MaxOrder \in Nat \ {0}
<1>1. PICK m \in Chat : \A d \in Chat : d <= m
  <2>1. Chat \in SUBSET Nat /\ Chat # {} /\ IsFiniteSet(Chat)
    BY DialogListAssumption
  <2> QED BY <2>1, GreatestNumber
<1> DEFINE top == CHOOSE c \in Chat : \A d \in Chat : d <= c
<1>2. top \in Chat /\ \A d \in Chat : d <= top
  BY <1>1
<1>3. Header = [order |-> MaxOrder + 1, chat |-> 1 + top]
  BY DEF Header, At
<1> HIDE DEF top
<1>4. \A c \in Chat : c \in Nat /\ c # 0
  BY DialogListAssumption
<1> QED BY <1>2, <1>3, <1>4, DialogListAssumption

(* Positions and what last_position may be.                                *)
Place == [order : -1..(MaxOrder + 1), chat : 0..Header.chat]

(* The places of the list: the positions of chats, the header, and nothing else that compares
   with them. *)
LEMMA PlaceFacts ==
    /\ Positions \subseteq Place /\ Header \in Place /\ At(-1, Header.chat) \in Place
    /\ \A p \in Place : p.order \in Int /\ p.chat \in Nat
    /\ Header \notin Positions
<1>1. Header.order = MaxOrder + 1 /\ Header.chat \in Nat /\ MaxOrder \in Nat
      /\ \A c \in Chat : c \in Nat /\ c < Header.chat
  BY HeaderFacts
<1>2. Header = [order |-> Header.order, chat |-> Header.chat]
  BY DEF Header, At
<1> QED BY <1>1, <1>2 DEF Place, Positions, At

(* They are in a total order.                                              *)
LEMMA BeforeOrders ==
    /\ \A p, q \in Place : p = q \/ Before(p, q) \/ Before(q, p)
    /\ \A p, q \in Place : ~(Before(p, q) /\ Before(q, p)) /\ ~Before(p, p)
    /\ \A p, q, r \in Place : Before(p, q) /\ Before(q, r) => Before(p, r)
<1>1. \A p \in Place : p.order \in Int /\ p.chat \in Nat
  BY PlaceFacts
<1>2. \A p, q \in Place : p.order = q.order /\ p.chat = q.chat => p = q
  BY DEF Place
<1>3. \A p, q \in Place : p = q \/ Before(p, q) \/ Before(q, p)
  BY <1>1, <1>2 DEF Before
<1>4. \A p, q \in Place : ~(Before(p, q) /\ Before(q, p)) /\ ~Before(p, p)
  BY <1>1 DEF Before
<1>5. \A p, q, r \in Place : Before(p, q) /\ Before(q, r) => Before(p, r)
  BY <1>1 DEF Before
<1> QED BY <1>3, <1>4, <1>5

(* Any positions have a lowest and a highest one.                          *)
LEMMA LowestPlace ==
    ASSUME NEW S \in SUBSET Place, S # {}
    PROVE  \E q \in S : \A r \in S : r = q \/ Before(r, q)
<1>0. \A p \in S : p.order \in Int /\ p.order + 1 \in Nat /\ p.chat \in Nat
  BY PlaceFacts, HeaderFacts DEF Place
<1> DEFINE orders == {p.order + 1 : p \in S}
<1>1. PICK o \in orders : \A k \in orders : o <= k
  <2>1. orders \in SUBSET Nat /\ orders # {}
    BY <1>0
  <2> HIDE DEF orders
  <2> QED BY <2>1, LeastNumber
<1>2. PICK p \in S : o = p.order + 1
  BY <1>1
<1> DEFINE chats == {q.chat : q \in {r \in S : r.order = p.order}}
<1>3. PICK c \in chats : \A k \in chats : c <= k
  <2>1. chats \in SUBSET Nat /\ chats # {}
    BY <1>0, <1>2
  <2> HIDE DEF chats
  <2> QED BY <2>1, LeastNumber
<1>4. PICK q \in S : q.order = p.order /\ q.chat = c
  BY <1>3
<1>5. \A r \in S : q.order <= r.order
  <2> TAKE r \in S
  <2>1. o <= r.order + 1
    BY <1>1
  <2> QED BY <1>0, <1>2, <1>4, <2>1
<1>6. \A r \in S : r.order = q.order => q.chat <= r.chat
  BY <1>3, <1>4
<1>7. \A r \in S : ~Before(q, r)
  BY <1>0, <1>5, <1>6 DEF Before
<1> QED BY <1>7, BeforeOrders

(* A nonempty set of places has a first one. *)
LEMMA HighestPlace ==
    ASSUME NEW S \in SUBSET Place, S # {}
    PROVE  \E q \in S : \A r \in S : r = q \/ Before(q, r)
<1>0. /\ Header.chat \in Nat /\ MaxOrder \in Nat
      /\ \A p \in S : /\ p.order \in Int /\ MaxOrder + 1 - p.order \in Nat
                      /\ p.chat \in Nat /\ Header.chat - p.chat \in Nat
  BY PlaceFacts, HeaderFacts DEF Place
<1> DEFINE orders == {MaxOrder + 1 - p.order : p \in S}
<1>1. PICK o \in orders : \A k \in orders : o <= k
  <2>1. orders \in SUBSET Nat /\ orders # {}
    BY <1>0
  <2> HIDE DEF orders
  <2> QED BY <2>1, LeastNumber
<1>2. PICK p \in S : o = MaxOrder + 1 - p.order
  BY <1>1
<1> DEFINE chats == {Header.chat - q.chat : q \in {r \in S : r.order = p.order}}
<1>3. PICK c \in chats : \A k \in chats : c <= k
  <2>1. chats \in SUBSET Nat /\ chats # {}
    BY <1>0, <1>2
  <2> HIDE DEF chats
  <2> QED BY <2>1, LeastNumber
<1>4. PICK q \in S : q.order = p.order /\ Header.chat - q.chat = c
  BY <1>3
<1>5. \A r \in S : r.order <= q.order
  <2> TAKE r \in S
  <2>1. o <= MaxOrder + 1 - r.order
    BY <1>1
  <2> QED BY <1>0, <1>2, <1>4, <2>1
<1>6. \A r \in S : r.order = q.order => r.chat <= q.chat
  <2> TAKE r \in S
  <2> HAVE r.order = q.order
  <2>1. c <= Header.chat - r.chat
    BY <1>3, <1>4
  <2> QED BY <1>0, <1>4, <2>1
<1>7. \A r \in S : ~Before(r, q)
  BY <1>0, <1>5, <1>6 DEF Before
<1> QED BY <1>7, BeforeOrders

(* The keys step to an entry of the list.                                  *)
LEMMA FollowingListed ==
    ASSUME NEW l \in SUBSET Place, NEW p \in l
    PROVE  Following(l, p) \in l
<1> DEFINE below == {q \in l : Before(p, q)}
           next(q) == q \in l /\ Before(p, q) /\ \A r \in Above(l, q) : ~Before(p, r)
<1>1. CASE below = {}
  BY <1>1 DEF Following
<1>2. CASE below # {}
  <2>1. PICK q \in below : \A r \in below : r = q \/ Before(q, r)
    <3>1. below \in SUBSET Place
      OBVIOUS
    <3> HIDE DEF below
    <3> QED BY <1>2, <3>1, HighestPlace
  <2>2. \A r \in Above(l, q) : ~Before(p, r)
    <3> SUFFICES ASSUME NEW r \in l, Before(r, q), Before(p, r) PROVE FALSE
      BY DEF Above
    <3>1. r = q \/ Before(q, r)
      BY <2>1
    <3> QED BY <3>1, BeforeOrders
  <2>3. \E x \in l : Before(p, x) /\ \A r \in Above(l, x) : ~Before(p, r)
    BY <2>1, <2>2
  <2>4. (CHOOSE x \in l : Before(p, x) /\ \A r \in Above(l, x) : ~Before(p, r)) \in l
    BY <2>3
  <2> QED BY <1>2, <2>4 DEF Following
<1> QED BY <1>1, <1>2

(* The place above a listed one is listed. *)
LEMMA PrecedingListed ==
    ASSUME NEW l \in SUBSET Place, NEW p \in l
    PROVE  Preceding(l, p) \in l
<1>1. CASE Above(l, p) = {}
  BY <1>1 DEF Preceding
<1>2. CASE Above(l, p) # {}
  <2>1. Above(l, p) \in SUBSET Place /\ Above(l, p) \subseteq l
    BY DEF Above
  <2>2. \E q \in Above(l, p) : \A r \in Above(l, p) : r = q \/ Before(r, q)
    BY <1>2, <2>1, LowestPlace
  <2>3. (CHOOSE q \in Above(l, p) : \A r \in Above(l, p) : r = q \/ Before(r, q)) \in Above(l, p)
    BY <2>2
  <2> QED BY <1>2, <2>1, <2>3 DEF Preceding
<1> QED BY <1>1, <1>2

(* What an answer shows to be known reaches down to its last chat, or to   *)
(* the end of the list.                                                    *)
LEMMA ReachedFacts ==
    ASSUME NEW p \in Place, NEW s \in SUBSET Place, s # {}
    PROVE  /\ Reached(p, s) \in {p} \cup s
           /\ \A r \in {p} \cup s : r = Reached(p, s) \/ Before(r, Reached(p, s))
<1>1. {p} \cup s \in SUBSET Place /\ {p} \cup s # {}
  OBVIOUS
<1>2. \E q \in {p} \cup s : \A r \in {p} \cup s : r = q \/ Before(r, q)
  BY <1>1, LowestPlace
<1> QED BY <1>2 DEF Reached

-----------------------------------------------------------------------------
(***************************************************************************)
(* The window.                                                             *)
(***************************************************************************)

(* The entries that chat_order calls for. *)
ListOf(o) == {Header} \cup {At(o[c], c) : c \in {d \in Chat : o[d] > 0}}

(* A window that was not drawn yet: the row may lie outside of it. *)
Sketches ==
    [list : SUBSET (Positions \cup {Header}), chatOrder : [Chat -> 0..MaxOrder],
     last : Positions \cup {Header, At(-1, Header.chat)},
     pos : Positions \cup {Header}, offset : Int, running : BOOLEAN]

(* The list made from the chats' orders holds their positions and the header only. *)
LEMMA ListOfFacts ==
    ASSUME NEW o \in [Chat -> 0..MaxOrder]
    PROVE  /\ ListOf(o) \subseteq Positions \cup {Header}
           /\ ListOf(o) \subseteq Place
           /\ IsFiniteSet(ListOf(o))
<1>1. ListOf(o) \subseteq Positions \cup {Header}
  <2>1. \A c \in Chat : o[c] \in -1..MaxOrder
    BY HeaderFacts
  <2> QED BY <2>1 DEF ListOf, Positions, At
<1>2. IsFiniteSet(ListOf(o))
  <2> DEFINE listed == {d \in Chat : o[d] > 0}
             entries == {At(o[c], c) : c \in listed}
  <2>1. IsFiniteSet(listed)
    BY DialogListAssumption, FS_Subset
  <2>2. IsFiniteSet(entries)
    <3> DEFINE f == [c \in listed |-> At(o[c], c)]
    <3>1. f \in Surjection(listed, entries)
      BY DEF Surjection
    <3> HIDE DEF listed, entries, f
    <3> QED BY <2>1, <3>1, FS_Surjection
  <2>3. IsFiniteSet({Header})
    BY FS_Singleton
  <2> HIDE DEF entries
  <2>4. IsFiniteSet({Header} \cup entries)
    BY <2>2, <2>3, FS_Union
  <2> QED BY <2>4 DEF ListOf, entries
<1> QED BY <1>1, <1>2, PlaceFacts

(* redraw brings the row of the selected chat into the window.             *)
LEMMA ClippedFacts ==
    ASSUME NEW w \in Sketches, w.list = ListOf(w.chatOrder), w.pos \in w.list
    PROVE  Clipped(w) \in 0..(Rows - 1) /\ Clipped(w) <= Cardinality(Above(w.list, w.pos))
<1>1. Rows \in Nat \ {0}
  BY DialogListAssumption
<1>2. Cardinality(Above(w.list, w.pos)) \in Nat
  <2>1. Above(w.list, w.pos) \in SUBSET w.list
    BY DEF Above
  <2>2. IsFiniteSet(w.list)
    BY ListOfFacts DEF Sketches
  <2> QED BY <2>1, <2>2, FS_Subset, FS_CardinalityType
<1>3. w.offset \in Int
  BY DEF Sketches
<1> QED BY <1>1, <1>2, <1>3 DEF Clipped

(* A redraw keeps the list, the selection and last_position, clips the selection's row to the
   entries above it, and asks for the next page only when none is asked for and one may be
   left. *)
LEMMA RedrawFacts ==
    ASSUME NEW d \in Sketches, d.list = ListOf(d.chatOrder), d.pos \in d.list, Redraw(d)
    PROVE  /\ win' \in Windows
           /\ win'.list = d.list /\ win'.chatOrder = d.chatOrder
           /\ win'.last = d.last /\ win'.pos = d.pos
           /\ win'.offset <= Cardinality(Above(win'.list, win'.pos))
           /\ \/ win'.running = d.running /\ asked' = asked
              \/ ~d.running /\ d.last.order >= 0 /\ win'.running = TRUE /\ asked' = d.last
<1> DEFINE c == [d EXCEPT !.offset = Clipped(d)]
<1>1. PICK ask \in {~Full(c) /\ c.last.order >= 0 /\ ~c.running} :
        /\ win' = [c EXCEPT !.running = c.running \/ ask]
        /\ asked' = IF ask THEN c.last ELSE asked
  BY DEF Redraw
<1>2. Clipped(d) \in 0..(Rows - 1) /\ Clipped(d) <= Cardinality(Above(d.list, d.pos))
  BY ClippedFacts
<1>3. c \in Windows
  BY <1>2 DEF Sketches, Windows
<1>4. /\ c.list = d.list /\ c.chatOrder = d.chatOrder /\ c.last = d.last /\ c.pos = d.pos
      /\ c.running = d.running /\ c.offset = Clipped(d)
  BY DEF Sketches
<1> HIDE DEF c
<1>5. /\ win'.list = c.list /\ win'.chatOrder = c.chatOrder /\ win'.last = c.last
      /\ win'.pos = c.pos /\ win'.offset = c.offset
  BY <1>1, <1>3 DEF Windows
<1>6. ask \in BOOLEAN /\ (ask => c.last.order >= 0 /\ ~c.running)
  BY <1>1
<1>7. win'.running = (c.running \/ ask) /\ win' \in Windows
  BY <1>1, <1>3, <1>6 DEF Windows
<1>8. CASE ask
  BY <1>1, <1>2, <1>4, <1>5, <1>6, <1>7, <1>8
<1>9. CASE ~ask
  <2>1. c.running \in BOOLEAN
    BY <1>3 DEF Windows
  <2>2. win'.running = c.running
    BY <1>7, <1>9, <2>1
  <2>3. asked' = asked
    BY <1>1, <1>9
  <2> QED BY <1>2, <1>4, <1>5, <1>7, <2>2, <2>3
<1> QED BY <1>8, <1>9

-----------------------------------------------------------------------------
(***************************************************************************)
(* The selected chat stays listed: the list is what chat_order says, and   *)
(* the selection and its row fit it, after every handler.                  *)
(***************************************************************************)
TdlibOK ==
    /\ tdOrder \in [Chat -> 0..MaxOrder] /\ told \subseteq Chat
    /\ asked \in Positions \cup {Header, NoQuery}
    /\ budget \in [changes : 0..MaxChanges, failures : 0..MaxFailures]

QueueOK == inbox \in Seq(Messages)

WindowOK ==
    /\ win \in Windows
    /\ win.list = ListOf(win.chatOrder)
    /\ win.pos \in win.list
    /\ win.offset <= Cardinality(Above(win.list, win.pos))

WInv == TdlibOK /\ QueueOK /\ WindowOK

(* WInv is enough for SelectionListed. *)
LEMMA WInvSays == WInv => SelectionListed
<1> SUFFICES ASSUME WInv PROVE SelectionListed
  OBVIOUS
<1>1. TypeOK
  <2>1. \A i \in DOMAIN inbox : inbox[i] \in Messages
    BY ElementOfSeq, LenProperties DEF WInv, QueueOK
  <2> QED BY <2>1 DEF WInv, TdlibOK, WindowOK, TypeOK
<1>2. Header \in win.list
  BY DEF WInv, WindowOK, ListOf
<1>3. ASSUME NEW c \in Chat, NEW p \in win.list, p.chat = c
      PROVE  p = At(win.chatOrder[c], c)
  <2>1. p # Header
    BY <1>3, HeaderFacts
  <2>2. PICK d \in Chat : p = At(win.chatOrder[d], d)
    BY <2>1 DEF WInv, WindowOK, ListOf
  <2>3. d = c
    BY <1>3, <2>2 DEF At
  <2> QED BY <2>2, <2>3
<1> QED BY <1>1, <1>2, <1>3 DEF WInv, WindowOK, SelectionListed

(* WInv at the start. *)
LEMMA InitWInv == Init => WInv
<1> SUFFICES ASSUME Init PROVE WInv
  OBVIOUS
<1>1. TdlibOK
  BY DialogListAssumption DEF Init, TdlibOK
<1>2. QueueOK
  BY EmptySeq DEF Init, QueueOK
<1>3. WindowOK
  <2> DEFINE o == [c \in Chat |-> 0]
  <2>1. ListOf(o) = {Header}
    BY DEF ListOf
  <2>2. o \in [Chat -> 0..MaxOrder]
    BY HeaderFacts
  <2>3. win.offset = 0 /\ win.list = {Header} /\ win.chatOrder = o /\ win.pos = Header
    BY DEF Init
  <2>4. 0 \in 0..(Rows - 1)
    BY DialogListAssumption
  <2>5. Cardinality(Above(win.list, win.pos)) \in Nat
    <3>1. Above(win.list, win.pos) \in SUBSET {Header}
      BY <2>3 DEF Above
    <3> QED BY <3>1, FS_Singleton, FS_Subset, FS_CardinalityType
  <2> HIDE DEF o
  <2>6. win \in Windows
    BY <2>2, <2>4 DEF Init, Windows, o
  <2> QED BY <2>1, <2>3, <2>5, <2>6 DEF WindowOK
<1> QED BY <1>1, <1>2, <1>3 DEF WInv

(* A handler that draws what it was given leaves a good window.            *)
LEMMA DrawnWell ==
    ASSUME WInv, NEW d \in Sketches, d.list = ListOf(d.chatOrder), d.pos \in d.list,
           Redraw(d), UNCHANGED <<tdOrder, told, budget>>, inbox' \in Seq(Messages)
    PROVE  WInv'
<1>1. /\ win' \in Windows
      /\ win'.list = d.list /\ win'.chatOrder = d.chatOrder
      /\ win'.last = d.last /\ win'.pos = d.pos
      /\ win'.offset <= Cardinality(Above(win'.list, win'.pos))
      /\ \/ win'.running = d.running /\ asked' = asked
         \/ ~d.running /\ d.last.order >= 0 /\ win'.running = TRUE /\ asked' = d.last
  BY RedrawFacts
<1>2. asked' \in Positions \cup {Header, NoQuery}
  <2>1. CASE asked' = asked
    BY <2>1 DEF WInv, TdlibOK
  <2>2. CASE d.last.order >= 0 /\ asked' = d.last
    <3>1. d.last \in Positions \cup {Header, At(-1, Header.chat)}
      BY DEF Sketches
    <3>2. At(-1, Header.chat).order = -1
      BY DEF At
    <3> QED BY <2>2, <3>1, <3>2
  <2> QED BY <1>1, <2>1, <2>2
<1>3. TdlibOK'
  BY <1>2 DEF WInv, TdlibOK
<1> QED BY <1>1, <1>3 DEF WInv, WindowOK, QueueOK

(* The window is one a handler may start to change. *)
LEMMA WindowSketch ==
    ASSUME WInv
    PROVE  win \in Sketches /\ win.offset \in 0..(Rows - 1) /\ Rows \in Nat
<1>1. Rows \in Nat
  BY DialogListAssumption
<1> QED BY <1>1 DEF WInv, WindowOK, Windows, Sketches

(* The head of the queue is a message, and so is all that is behind it. *)
LEMMA HeardMessage ==
    ASSUME QueueOK, inbox # <<>>
    PROVE  Head(inbox) \in Messages /\ Tail(inbox) \in Seq(Messages)
BY HeadTailProperties DEF QueueOK

(* Wherever a chat goes, its entry goes with it, and the selection too.    *)
LEMMA MovedFacts ==
    ASSUME WInv, NEW c \in Chat, NEW o \in 0..MaxOrder
    PROVE  LET d == Moved(win, c, o) IN
           /\ d \in Sketches /\ d.list = ListOf(d.chatOrder) /\ d.pos \in d.list
           /\ d.chatOrder = [win.chatOrder EXCEPT ![c] = o]
           /\ d.last = win.last /\ d.running = win.running
<1> DEFINE d == Moved(win, c, o)
           n == [win.chatOrder EXCEPT ![c] = o]
<1>1. win \in Windows /\ win \in Sketches /\ win.chatOrder \in [Chat -> 0..MaxOrder]
  BY WindowSketch DEF WInv, WindowOK, Windows
<1>2. n \in [Chat -> 0..MaxOrder]
  BY <1>1
<1>3. /\ d.chatOrder = n /\ d.last = win.last /\ d.running = win.running
      /\ d.list = IF o > 0 THEN (win.list \ {At(win.chatOrder[c], c)}) \cup {At(o, c)}
                  ELSE win.list \ {At(win.chatOrder[c], c)}
      /\ d.pos = IF win.pos.chat # c THEN win.pos ELSE IF o > 0 THEN At(o, c) ELSE Header
      /\ d.offset = IF win.pos.chat = c /\ o <= 0 THEN 0 ELSE win.offset
  BY <1>1 DEF Moved, Windows
<1>4. win.list = ListOf(win.chatOrder) /\ win.pos \in win.list
  BY DEF WInv, WindowOK
<1>5. Header.chat # c /\ o \in Int /\ \A x \in Chat : win.chatOrder[x] \in Nat /\ n[x] \in Nat
  <2>1. \A x \in Chat : win.chatOrder[x] \in Nat /\ n[x] \in Nat
    BY <1>1, <1>2
  <2>2. o \in Int
    OBVIOUS
  <2> QED BY <2>1, <2>2, HeaderFacts
<1>6. \A x, y, p, q : At(p, x) = At(q, y) => p = q /\ x = y
  BY DEF At
<1>7. \A p, x : At(p, x).chat = x
  BY DEF At
<1>8. d.list = ListOf(n)
  <2>1. \A e : e \in ListOf(n) <=>
               e = Header \/ \E x \in Chat : n[x] > 0 /\ e = At(n[x], x)
    BY DEF ListOf
  <2>2. \A e : e \in win.list <=>
               e = Header \/ \E x \in Chat : win.chatOrder[x] > 0 /\ e = At(win.chatOrder[x], x)
    BY <1>4 DEF ListOf
  <2>3. \A x \in Chat : n[x] = IF x = c THEN o ELSE win.chatOrder[x]
    BY <1>1
  <2>4. Header # At(win.chatOrder[c], c)
    BY <1>5, <1>7
  <2>5. \A e : e \in d.list <=>
               \/ e \in win.list /\ e # At(win.chatOrder[c], c)
               \/ o > 0 /\ e = At(o, c)
    BY <1>3
  <2> HIDE DEF n, d
  <2>6. ASSUME NEW e PROVE e \in d.list <=> e \in ListOf(n)
    <3>1. ASSUME e \in d.list PROVE e \in ListOf(n)
      <4>1. CASE o > 0 /\ e = At(o, c)
        BY <2>1, <2>3, <4>1
      <4>2. CASE e = Header
        BY <2>1, <4>2
      <4>3. CASE e \in win.list /\ e # At(win.chatOrder[c], c) /\ e # Header
        <5>1. PICK x \in Chat : win.chatOrder[x] > 0 /\ e = At(win.chatOrder[x], x)
          BY <2>2, <4>3
        <5>2. x # c
          BY <4>3, <5>1
        <5> QED BY <2>1, <2>3, <5>1, <5>2
      <4> QED BY <2>5, <3>1, <4>1, <4>2, <4>3
    <3>2. ASSUME e \in ListOf(n) PROVE e \in d.list
      <4>1. CASE e = Header
        BY <2>2, <2>4, <2>5, <4>1
      <4>2. CASE e # Header
        <5>1. PICK x \in Chat : n[x] > 0 /\ e = At(n[x], x)
          BY <2>1, <3>2, <4>2
        <5>2. CASE x = c
          BY <2>3, <2>5, <5>1, <5>2
        <5>3. CASE x # c
          <6>1. e = At(win.chatOrder[x], x) /\ win.chatOrder[x] > 0
            BY <2>3, <5>1, <5>3
          <6>2. e # At(win.chatOrder[c], c)
            BY <1>6, <5>3, <6>1
          <6> QED BY <2>2, <2>5, <6>1, <6>2
        <5> QED BY <5>2, <5>3
      <4> QED BY <4>1, <4>2
    <3> QED BY <3>1, <3>2
  <2> QED BY <2>6
<1>9. d.pos \in d.list
  <2>1. CASE win.pos.chat # c
    <3>1. win.pos # At(win.chatOrder[c], c)
      BY <1>7, <2>1
    <3> QED BY <1>3, <1>4, <2>1, <3>1
  <2>2. CASE win.pos.chat = c /\ o > 0
    BY <1>3, <2>2
  <2>3. CASE win.pos.chat = c /\ ~(o > 0)
    <3>1. d.pos = Header
      BY <1>3, <2>3
    <3> QED BY <1>8, <3>1 DEF ListOf
  <2> QED BY <2>1, <2>2, <2>3
<1>10. d \in Sketches
  <2>1. d.list \in SUBSET (Positions \cup {Header})
    BY <1>2, <1>8, ListOfFacts
  <2>2. d.pos \in Positions \cup {Header}
    BY <1>9, <2>1
  <2>3. d.offset \in Int
    BY <1>1, <1>3 DEF Sketches
  <2>4. ASSUME NEW l \in SUBSET (Positions \cup {Header}),
               NEW p \in Positions \cup {Header}, NEW f \in Int
        PROVE  [win EXCEPT !.list = l, !.chatOrder[c] = o, !.pos = p, !.offset = f] \in Sketches
    BY <1>1 DEF Sketches
  <2>5. d = [win EXCEPT !.list = d.list, !.chatOrder[c] = o, !.pos = d.pos, !.offset = d.offset]
    BY <1>3 DEF Moved
  <2> HIDE DEF d
  <2>6. [win EXCEPT !.list = d.list, !.chatOrder[c] = o, !.pos = d.pos, !.offset = d.offset]
        \in Sketches
    BY <2>1, <2>2, <2>3, <2>4, Zenon
  <2> QED BY <2>5, <2>6, Zenon
<1> QED BY <1>3, <1>8, <1>9, <1>10

(* The place a page reaches is one of the typed ones. *)
LEMMA ReachedTyped ==
    ASSUME NEW p \in Positions \cup {Header, At(-1, Header.chat)}, NEW s \in SUBSET Positions
    PROVE  Reached(p, s) \in Positions \cup {Header, At(-1, Header.chat)}
<1>1. CASE s = {}
  <2>1. Reached(p, s) = [p EXCEPT !.order = -1]
    BY <1>1 DEF Reached
  <2>2. CASE p \in Positions
    <3>1. [p EXCEPT !.order = -1] \in Positions
      BY <2>2, HeaderFacts DEF Positions
    <3> QED BY <2>1, <3>1
  <2>3. CASE p = Header \/ p = At(-1, Header.chat)
    <3>1. Header = At(MaxOrder + 1, Header.chat)
      BY DEF Header, At
    <3>2. [p EXCEPT !.order = -1] = At(-1, Header.chat)
      BY <2>3, <3>1 DEF At
    <3> QED BY <2>1, <3>2
  <2> QED BY <2>2, <2>3
<1>2. CASE s # {}
  <2>1. p \in Place /\ s \in SUBSET Place
    BY PlaceFacts
  <2> QED BY <1>2, <2>1, ReachedFacts
<1> QED BY <1>1, <1>2

(* TDLib's list holds each listed chat at its own order. *)
LEMMA TdChatsFacts ==
    ASSUME TdlibOK
    PROVE  /\ TdChats \subseteq Positions
           /\ \A q \in TdChats : q.chat \in Chat /\ q.order = tdOrder[q.chat] /\ q.order > 0
           /\ \A p : Page(p) \subseteq TdChats
<1>1. \A c \in Chat : tdOrder[c] \in 0..MaxOrder
  BY DEF TdlibOK
<1>2. MaxOrder \in Nat
  BY HeaderFacts
<1> QED BY <1>1, <1>2 DEF TdChats, At, Positions, Page

(* What tdlib says is heard after everything it said before.               *)
LEMMA SaidFacts ==
    ASSUME QueueOK, NEW m \in Messages, Say(m)
    PROVE  /\ inbox' \in Seq(Messages) /\ Len(inbox) \in Nat
           /\ Len(inbox') = Len(inbox) + 1 /\ inbox'[Len(inbox) + 1] = m
           /\ \A i \in 1..Len(inbox) : inbox'[i] = inbox[i]
<1>1. inbox \in Seq(Messages) /\ inbox' = Append(inbox, m)
  BY DEF QueueOK, Say
<1>2. Len(inbox) \in Nat
  BY <1>1, LenProperties
<1> QED BY <1>1, <1>2, AppendProperties

(* What TDLib does leaves the window alone and keeps its own state typed. *)
LEMMA TdlibWInv ==
    ASSUME WInv, \/ \E c \in Chat, o \in 0..MaxOrder : Reorder(c, o)
                 \/ Tdlib \/ Refuse
    PROVE  WInv'
<1>1. CASE \E c \in Chat, o \in 0..MaxOrder : Reorder(c, o)
  <2>1. PICK c \in Chat, o \in 0..MaxOrder : Reorder(c, o)
    BY <1>1
  <2>2. NewOrder(c, o) \in Messages
    BY DEF NewOrder, Messages
  <2>3. QueueOK'
    BY <2>1, <2>2, SaidFacts DEF Reorder, WInv, QueueOK
  <2>4. TdlibOK'
    <3>1. budget' \in [changes : 0..MaxChanges, failures : 0..MaxFailures]
      <4>1. budget.changes \in 0..MaxChanges /\ budget.changes > 0
        BY <2>1 DEF Reorder, WInv, TdlibOK
      <4>2. MaxChanges \in Nat
        BY DialogListAssumption
      <4>3. budget.changes - 1 \in 0..MaxChanges
        BY <4>1, <4>2
      <4> QED BY <2>1, <4>3 DEF Reorder, WInv, TdlibOK
    <3> QED BY <2>1, <3>1 DEF Reorder, WInv, TdlibOK
  <2> QED BY <2>1, <2>3, <2>4 DEF Reorder, WInv, WindowOK
<1>2. CASE TellFirst
  <2>1. PICK q \in Page(asked) : told' = told \cup {q.chat} /\ Say(NewOrder(q.chat, q.order))
    BY <1>2 DEF TellFirst
  <2>2. q \in Positions /\ q.chat \in Chat /\ q.order = tdOrder[q.chat]
    BY TdChatsFacts DEF WInv
  <2>3. NewOrder(q.chat, q.order) \in Messages
    BY <2>2 DEF NewOrder, Messages, WInv, TdlibOK
  <2>4. QueueOK'
    BY <2>1, <2>3, SaidFacts DEF WInv, QueueOK
  <2>5. TdlibOK'
    BY <1>2, <2>1, <2>2 DEF TellFirst, WInv, TdlibOK
  <2> QED BY <1>2, <2>4, <2>5 DEF TellFirst, WInv, WindowOK
<1>3. CASE Answer
  <2>1. Chats(Page(asked)) \in Messages
    BY TdChatsFacts DEF WInv, Chats, Messages
  <2>2. QueueOK'
    BY <1>3, <2>1, SaidFacts DEF Answer, WInv, QueueOK
  <2> QED BY <1>3, <2>2 DEF Answer, WInv, TdlibOK, WindowOK
<1>4. CASE Refuse
  <2>1. Failed \in Messages
    BY DEF Failed, Messages
  <2>2. QueueOK'
    BY <1>4, <2>1, SaidFacts DEF Refuse, WInv, QueueOK
  <2>3. budget' \in [changes : 0..MaxChanges, failures : 0..MaxFailures]
    <3>1. budget.failures \in 0..MaxFailures /\ budget.failures > 0
      BY <1>4 DEF Refuse, WInv, TdlibOK
    <3>2. MaxFailures \in Nat
      BY DialogListAssumption
    <3>3. budget.failures - 1 \in 0..MaxFailures
      BY <3>1, <3>2
    <3> QED BY <1>4, <3>3 DEF Refuse, WInv, TdlibOK
  <2> QED BY <1>4, <2>2, <2>3 DEF Refuse, WInv, TdlibOK, WindowOK
<1> QED BY <1>1, <1>2, <1>3, <1>4 DEF Tdlib

(* What a handler of the client draws, and from what.                      *)
Sound(d) == d \in Sketches /\ d.list = ListOf(d.chatOrder) /\ d.pos \in d.list

Repeated ==
    /\ Heard("order") /\ UNCHANGED <<win, asked>>
    /\ win.chatOrder[Head(inbox).chat] = Head(inbox).order
Draws(d) ==
    /\ Sound(d) /\ Redraw(d) /\ UNCHANGED <<tdOrder, told, budget>>
    /\ \/ /\ Heard("order")
          /\ d.chatOrder = [win.chatOrder EXCEPT ![Head(inbox).chat] = Head(inbox).order]
          /\ d.last = win.last /\ d.running = win.running
       \/ /\ Heard("chats") /\ d.chatOrder = win.chatOrder
          /\ d.last = Reached(win.last, Head(inbox).list) /\ d.running = FALSE
       \/ /\ Heard("failed") /\ d.chatOrder = win.chatOrder
          /\ d.last = win.last /\ d.running = FALSE
       \/ /\ UNCHANGED inbox /\ d.chatOrder = win.chatOrder
          /\ d.last = win.last /\ d.running = win.running

(* Everything the client does is one redraw of a changed window, or a page asked for again
   after an error. *)
LEMMA ClientDraws ==
    ASSUME WInv, Client \/ Drawn \/ Down \/ Up
    PROVE  Repeated \/ \E d : Draws(d)
<1>0. /\ win \in Windows /\ win \in Sketches /\ win.list = ListOf(win.chatOrder)
      /\ win.pos \in win.list /\ win.list \in SUBSET Place
      /\ win.list \in SUBSET (Positions \cup {Header})
      /\ win.offset \in 0..(Rows - 1) /\ Rows \in Nat
  <2>1. win.chatOrder \in [Chat -> 0..MaxOrder]
    BY DEF WInv, WindowOK, Windows
  <2> QED BY <2>1, WindowSketch, ListOfFacts DEF WInv, WindowOK
<1>a. ASSUME NEW d \in Sketches, d.list = win.list, d.chatOrder = win.chatOrder,
             d.pos \in win.list
      PROVE  Sound(d)
  BY <1>0, <1>a DEF Sound
<1>1. CASE updateChat
  <2> DEFINE m == Head(inbox)
  <2>1. m \in Messages /\ m.of = "order"
    BY <1>1, HeardMessage DEF updateChat, Heard, WInv
  <2>2. m.chat \in Chat /\ m.order \in 0..MaxOrder
    BY <2>1 DEF Messages
  <2>3. CASE win.chatOrder[m.chat] = m.order /\ m.order > 0
    BY <1>1, <2>3 DEF updateChat, Repeated
  <2>4. CASE ~(win.chatOrder[m.chat] = m.order /\ m.order > 0)
    <3> DEFINE d == Moved(win, m.chat, m.order)
    <3>1. Redraw(d) /\ UNCHANGED <<tdOrder, told, budget>> /\ Heard("order")
      BY <1>1, <2>4 DEF updateChat, Heard
    <3> HIDE DEF m
    <3>2. /\ d \in Sketches /\ d.list = ListOf(d.chatOrder) /\ d.pos \in d.list
          /\ d.chatOrder = [win.chatOrder EXCEPT ![m.chat] = m.order]
          /\ d.last = win.last /\ d.running = win.running
      BY <2>2, MovedFacts
    <3> HIDE DEF d
    <3>3. Draws(d)
      BY <3>1, <3>2 DEF Draws, Sound, m
    <3> QED BY <3>3
  <2> QED BY <2>3, <2>4
<1>2. CASE got_dialogs
  <2> DEFINE s == Head(inbox).list
             d == [win EXCEPT !.last = Reached(win.last, s), !.running = FALSE]
  <2>1. Head(inbox) \in Messages /\ Head(inbox).of = "chats"
    BY <1>2, HeardMessage DEF got_dialogs, Heard, WInv
  <2>2. s \in SUBSET Positions
    BY <2>1 DEF Messages
  <2>3. Reached(win.last, s) \in Positions \cup {Header, At(-1, Header.chat)}
    BY <1>0, <2>2, ReachedTyped DEF Windows
  <2>4. /\ d \in Sketches /\ d.list = win.list /\ d.chatOrder = win.chatOrder /\ d.pos = win.pos
        /\ d.last = Reached(win.last, s) /\ d.running = FALSE
    BY <1>0, <2>3 DEF Sketches
  <2>5. Redraw(d) /\ UNCHANGED <<tdOrder, told, budget>> /\ Heard("chats")
    BY <1>2 DEF got_dialogs, Heard
  <2> HIDE DEF d
  <2>6. Draws(d)
    BY <1>0, <1>a, <2>4, <2>5 DEF Draws
  <2> QED BY <2>6
<1>3. CASE got_dialogs_failed
  <2> DEFINE d == [win EXCEPT !.running = FALSE]
  <2>1. /\ d \in Sketches /\ d.list = win.list /\ d.chatOrder = win.chatOrder /\ d.pos = win.pos
        /\ d.last = win.last /\ d.running = FALSE
    BY <1>0 DEF Sketches
  <2>2. Redraw(d) /\ UNCHANGED <<tdOrder, told, budget>> /\ Heard("failed")
    BY <1>3 DEF got_dialogs_failed, Heard
  <2> HIDE DEF d
  <2>3. Draws(d)
    BY <1>0, <1>a, <2>1, <2>2 DEF Draws
  <2> QED BY <2>3
<1>4. CASE Drawn
  <2>1. Draws(win)
    BY <1>0, <1>4, <1>a DEF Drawn, Draws
  <2> QED BY <2>1
<1>5. CASE Down
  <2> DEFINE next == Following(win.list, win.pos)
             d == [win EXCEPT !.pos = next, !.offset = win.offset + 1]
             e == [win EXCEPT !.offset = IF win.offset = Rows - 1 THEN win.offset - 1 ELSE win.offset]
  <2>0. UNCHANGED <<tdOrder, told, budget, inbox>>
    BY <1>5 DEF Down
  <2>1. next \in win.list
    BY <1>0, FollowingListed
  <2> HIDE DEF next
  <2>2. win.offset + 1 \in Int /\ win.offset - 1 \in Int
    BY <1>0
  <2>3. CASE Redraw(d)
    <3>1. /\ d \in Sketches /\ d.list = win.list /\ d.chatOrder = win.chatOrder /\ d.pos = next
          /\ d.last = win.last /\ d.running = win.running
      BY <1>0, <2>1, <2>2 DEF Sketches
    <3> HIDE DEF d
    <3>2. Draws(d)
      BY <1>a, <2>0, <2>1, <2>3, <3>1 DEF Draws
    <3> QED BY <3>2
  <2>4. CASE Redraw(e)
    <3>1. /\ e \in Sketches /\ e.list = win.list /\ e.chatOrder = win.chatOrder /\ e.pos = win.pos
          /\ e.last = win.last /\ e.running = win.running
      BY <1>0, <2>2 DEF Sketches
    <3> HIDE DEF e
    <3>2. Draws(e)
      BY <1>0, <1>a, <2>0, <2>4, <3>1 DEF Draws
    <3> QED BY <3>2
  <2> QED BY <1>5, <2>3, <2>4 DEF Down, next
<1>6. CASE Up
  <2> DEFINE next == Preceding(win.list, win.pos)
             d == [win EXCEPT !.pos = next,
                              !.offset = IF win.offset > 0 THEN win.offset - 1 ELSE win.offset]
  <2>0. UNCHANGED <<tdOrder, told, budget, inbox>> /\ Redraw(d)
    BY <1>6 DEF Up
  <2>1. next \in win.list
    BY <1>0, PrecedingListed
  <2> HIDE DEF next
  <2>2. (IF win.offset > 0 THEN win.offset - 1 ELSE win.offset) \in Int
    BY <1>0
  <2>3. /\ d \in Sketches /\ d.list = win.list /\ d.chatOrder = win.chatOrder /\ d.pos = next
        /\ d.last = win.last /\ d.running = win.running
    BY <1>0, <2>1, <2>2 DEF Sketches
  <2> HIDE DEF d
  <2>4. Draws(d)
    BY <1>a, <2>0, <2>1, <2>3 DEF Draws
  <2> QED BY <2>4
<1> QED BY <1>1, <1>2, <1>3, <1>4, <1>5, <1>6 DEF Client

(* And so keeps WInv. *)
LEMMA ClientWInv ==
    ASSUME WInv, Client \/ Drawn \/ Down \/ Up
    PROVE  WInv'
<1>1. CASE Repeated
  <2>1. inbox' \in Seq(Messages)
    BY <1>1, HeardMessage DEF Repeated, Heard, WInv
  <2> QED BY <1>1, <2>1 DEF Repeated, Heard, WInv, TdlibOK, WindowOK, QueueOK
<1>2. CASE \E d : Draws(d)
  <2>1. PICK d : Draws(d)
    BY <1>2
  <2>2. inbox' \in Seq(Messages)
    <3>1. CASE UNCHANGED inbox
      BY <3>1 DEF WInv, QueueOK
    <3>2. CASE \E m : Heard(m)
      BY <3>2, HeardMessage DEF Heard, WInv
    <3> QED BY <2>1, <3>1, <3>2 DEF Draws
  <2> QED BY <2>1, <2>2, DrawnWell DEF Draws, Sound
<1> QED BY <1>1, <1>2, ClientDraws

(* WInv is inductive. *)
LEMMA NextWInv == WInv /\ [Next]_vars => WInv'
<1> SUFFICES ASSUME WInv, [Next]_vars PROVE WInv'
  OBVIOUS
<1>1. CASE UNCHANGED vars
  BY <1>1 DEF vars, tdVars, WInv, TdlibOK, QueueOK, WindowOK
<1> QED BY <1>1, TdlibWInv, ClientWInv DEF Next

(* Type correctness, and the selected chat is an entry of the list, once,  *)
(* on a row that counts the entries above it (updateChat, redraw,          *)
(* sym_key_pressed).                                                       *)
THEOREM WInvHolds == Spec => []WInv
<1> QED BY InitWInv, NextWInv, PTL DEF Spec

(* However the chats are reordered, the selected position is an entry of dialog_list, no chat
   has two, and the selection's row is one of the rows above it (redraw, updateChat,
   sym_key_pressed). *)
THEOREM SelectionListedCorrect == Spec => []SelectionListed
<1> QED BY WInvHolds, WInvSays, PTL

-----------------------------------------------------------------------------
(***************************************************************************)
(* One getChats at a time: it is asked, or its answer is on the way, just  *)
(* as long as running_query_ is set, and it asks for what follows          *)
(* last_position.                                                          *)
(***************************************************************************)
IsAnswer(m) == m.of \in {"chats", "failed"}

QueryOne ==
    /\ \A i, j \in 1..Len(inbox) : IsAnswer(inbox[i]) /\ IsAnswer(inbox[j]) => i = j
    /\ asked # NoQuery => /\ \A i \in 1..Len(inbox) : ~IsAnswer(inbox[i])
                          /\ asked = win.last
    /\ win.running <=> asked # NoQuery \/ \E i \in 1..Len(inbox) : IsAnswer(inbox[i])

(* No query at the start. *)
LEMMA InitQueryOne == Init => QueryOne
<1> SUFFICES ASSUME Init PROVE QueryOne
  OBVIOUS
<1>1. inbox = << >> /\ asked = NoQuery /\ win.running = FALSE
  BY DEF Init
<1>2. \A i \in 1..Len(inbox) : FALSE
  BY <1>1
<1> QED BY <1>1, <1>2 DEF QueryOne

(* Drawing asks only when nothing is asked.                                *)
LEMMA RedrawQuery ==
    ASSUME NEW d \in Sketches, d.list = ListOf(d.chatOrder), d.pos \in d.list, Redraw(d),
           \A i, j \in 1..Len(inbox') : IsAnswer(inbox'[i]) /\ IsAnswer(inbox'[j]) => i = j,
           asked # NoQuery => /\ \A i \in 1..Len(inbox') : ~IsAnswer(inbox'[i])
                              /\ asked = d.last,
           d.running <=> asked # NoQuery \/ \E i \in 1..Len(inbox') : IsAnswer(inbox'[i])
    PROVE  QueryOne'
<1>1. /\ win'.last = d.last
      /\ \/ win'.running = d.running /\ asked' = asked
         \/ ~d.running /\ d.last.order >= 0 /\ win'.running = TRUE /\ asked' = d.last
  BY RedrawFacts
<1>2. d.last.order >= 0 => d.last # NoQuery
  BY DEF NoQuery, At
<1>3. CASE win'.running = d.running /\ asked' = asked
  BY <1>1, <1>3 DEF QueryOne
<1>4. CASE ~d.running /\ d.last.order >= 0 /\ win'.running = TRUE /\ asked' = d.last
  BY <1>1, <1>2, <1>4 DEF QueryOne
<1> QED BY <1>1, <1>3, <1>4

(* What is left of the queue when its head was heard.                      *)
LEMMA HeardFacts ==
    ASSUME QueueOK, inbox # << >>, inbox' = Tail(inbox)
    PROVE  /\ Len(inbox) \in Nat /\ Len(inbox) >= 1 /\ Len(inbox') = Len(inbox) - 1
           /\ Head(inbox) = inbox[1]
           /\ \A i \in 1..Len(inbox') : i + 1 \in 1..Len(inbox) /\ inbox'[i] = inbox[i + 1]
           /\ \A i \in 1..Len(inbox) : i # 1 => i - 1 \in 1..Len(inbox') /\ inbox'[i - 1] = inbox[i]
<1>1. inbox \in Seq(Messages) /\ Len(inbox) \in Nat
  BY LenProperties DEF QueueOK
<1>2. Len(inbox) >= 1
  BY <1>1, EmptySeq
<1>3. Len(Tail(inbox)) = Len(inbox) - 1 /\ \A i \in 1..(Len(inbox) - 1) : Tail(inbox)[i] = inbox[i + 1]
  BY <1>1, HeadTailProperties
<1>4. Head(inbox) = inbox[1]
  BY <1>1, HeadTailProperties
<1>5. \A i \in 1..Len(inbox) : i # 1 => i - 1 \in 1..(Len(inbox) - 1) /\ (i - 1) + 1 = i
  BY <1>1
<1>6. \A i \in 1..(Len(inbox) - 1) : i + 1 \in 1..Len(inbox)
  BY <1>1
<1> QED BY <1>1, <1>2, <1>3, <1>4, <1>5, <1>6

(* TDLib answers a query once. *)
LEMMA TdlibQueryOne ==
    ASSUME WInv, QueryOne, \/ \E c \in Chat, o \in 0..MaxOrder : Reorder(c, o)
                           \/ Tdlib \/ Refuse
    PROVE  QueryOne'
<1>1. ASSUME NEW m \in Messages, Say(m), ~IsAnswer(m), UNCHANGED <<asked, win>>
      PROVE  QueryOne'
  <2>1. /\ Len(inbox) \in Nat /\ Len(inbox') = Len(inbox) + 1 /\ inbox'[Len(inbox) + 1] = m
        /\ \A i \in 1..Len(inbox) : inbox'[i] = inbox[i]
    BY <1>1, SaidFacts DEF WInv
  <2>2. \A i \in 1..Len(inbox') : i \in 1..Len(inbox) \/ i = Len(inbox) + 1
    BY <2>1
  <2>3. \A i \in 1..Len(inbox) : i \in 1..Len(inbox')
    BY <2>1
  <2>4. \A i \in 1..Len(inbox') : IsAnswer(inbox'[i]) => i \in 1..Len(inbox) /\ IsAnswer(inbox[i])
    BY <1>1, <2>1, <2>2
  <2>5. \A i \in 1..Len(inbox) : IsAnswer(inbox[i]) => IsAnswer(inbox'[i])
    BY <2>1
  <2> QED BY <1>1, <2>3, <2>4, <2>5 DEF QueryOne
<1>2. ASSUME NEW m \in Messages, Say(m), IsAnswer(m), asked # NoQuery, asked' = NoQuery,
             UNCHANGED win
      PROVE  QueryOne'
  <2>1. /\ Len(inbox) \in Nat /\ Len(inbox') = Len(inbox) + 1 /\ inbox'[Len(inbox) + 1] = m
        /\ \A i \in 1..Len(inbox) : inbox'[i] = inbox[i]
    BY <1>2, SaidFacts DEF WInv
  <2>2. \A i \in 1..Len(inbox') : i \in 1..Len(inbox) \/ i = Len(inbox) + 1
    BY <2>1
  <2>3. Len(inbox) + 1 \in 1..Len(inbox')
    BY <2>1
  <2>4. \A i \in 1..Len(inbox') : IsAnswer(inbox'[i]) => i = Len(inbox) + 1
    BY <1>2, <2>1, <2>2 DEF QueryOne
  <2>5. win'.running
    BY <1>2 DEF QueryOne
  <2> QED BY <1>2, <2>1, <2>3, <2>4, <2>5 DEF QueryOne
<1>3. CASE \E c \in Chat, o \in 0..MaxOrder : Reorder(c, o)
  <2>1. PICK c \in Chat, o \in 0..MaxOrder : Reorder(c, o)
    BY <1>3
  <2>2. NewOrder(c, o) \in Messages /\ ~IsAnswer(NewOrder(c, o))
    BY DEF NewOrder, Messages, IsAnswer
  <2> QED BY <1>1, <2>1, <2>2 DEF Reorder
<1>4. CASE TellFirst
  <2>1. PICK q \in Page(asked) : Say(NewOrder(q.chat, q.order))
    BY <1>4 DEF TellFirst
  <2>2. q.chat \in Chat /\ q.order \in 0..MaxOrder
    BY TdChatsFacts DEF WInv, TdlibOK
  <2>3. NewOrder(q.chat, q.order) \in Messages /\ ~IsAnswer(NewOrder(q.chat, q.order))
    BY <2>2 DEF NewOrder, Messages, IsAnswer
  <2> QED BY <1>1, <1>4, <2>1, <2>3 DEF TellFirst
<1>5. CASE Answer
  <2>1. Chats(Page(asked)) \in Messages /\ IsAnswer(Chats(Page(asked)))
    BY TdChatsFacts DEF WInv, Chats, Messages, IsAnswer
  <2> QED BY <1>2, <1>5, <2>1 DEF Answer
<1>6. CASE Refuse
  <2>1. Failed \in Messages /\ IsAnswer(Failed)
    BY DEF Failed, Messages, IsAnswer
  <2> QED BY <1>2, <1>6, <2>1 DEF Refuse
<1> QED BY <1>3, <1>4, <1>5, <1>6 DEF Tdlib

(* The client asks only when no query runs. *)
LEMMA ClientQueryOne ==
    ASSUME WInv, QueryOne, Client \/ Drawn \/ Down \/ Up
    PROVE  QueryOne'
<1>0. QueueOK
  BY DEF WInv
<1>1. CASE Repeated
  <2>1. inbox # << >> /\ inbox' = Tail(inbox) /\ Head(inbox).of = "order" /\ UNCHANGED <<win, asked>>
    BY <1>1 DEF Repeated, Heard
  <2>2. ~IsAnswer(Head(inbox))
    BY <2>1 DEF IsAnswer
  <2> QED BY <1>0, <2>1, <2>2, HeardFacts DEF QueryOne
<1>2. ASSUME NEW d, Draws(d) PROVE QueryOne'
  <2>1. d \in Sketches /\ d.list = ListOf(d.chatOrder) /\ d.pos \in d.list /\ Redraw(d)
    BY <1>2 DEF Draws, Sound
  <2>2. CASE UNCHANGED inbox /\ d.last = win.last /\ d.running = win.running
    BY <2>1, <2>2, RedrawQuery DEF QueryOne
  <2>3. CASE Heard("order") /\ d.last = win.last /\ d.running = win.running
    <3>1. inbox # << >> /\ inbox' = Tail(inbox) /\ ~IsAnswer(Head(inbox))
      BY <2>3 DEF Heard, IsAnswer
    <3>2. \A i, j \in 1..Len(inbox') : IsAnswer(inbox'[i]) /\ IsAnswer(inbox'[j]) => i = j
      <4> TAKE i, j \in 1..Len(inbox')
      <4> HAVE IsAnswer(inbox'[i]) /\ IsAnswer(inbox'[j])
      <4>1. i + 1 = j + 1
        BY <1>0, <3>1, HeardFacts DEF QueryOne
      <4> QED BY <4>1
    <3>3. (\E i \in 1..Len(inbox') : IsAnswer(inbox'[i])) <=> \E i \in 1..Len(inbox) : IsAnswer(inbox[i])
      BY <1>0, <3>1, HeardFacts
    <3> QED BY <2>1, <2>3, <3>2, <3>3, RedrawQuery DEF QueryOne
  <2>4. CASE (Heard("chats") \/ Heard("failed")) /\ d.running = FALSE
    <3>1. inbox # << >> /\ inbox' = Tail(inbox) /\ IsAnswer(Head(inbox))
      BY <2>4 DEF Heard, IsAnswer
    <3>2. 1 \in 1..Len(inbox) /\ IsAnswer(inbox[1])
      BY <1>0, <3>1, HeardFacts
    <3>3. asked = NoQuery
      BY <3>2 DEF QueryOne
    <3>4. \A i \in 1..Len(inbox') : ~IsAnswer(inbox'[i])
      <4> SUFFICES ASSUME NEW i \in 1..Len(inbox'), IsAnswer(inbox'[i]) PROVE FALSE
        OBVIOUS
      <4>1. i + 1 \in 1..Len(inbox) /\ IsAnswer(inbox[i + 1])
        BY <1>0, <3>1, HeardFacts
      <4>2. i + 1 = 1
        BY <3>2, <4>1 DEF QueryOne
      <4> QED BY <4>2
    <3> QED BY <2>1, <2>4, <3>3, <3>4, RedrawQuery
  <2> QED BY <1>2, <2>2, <2>3, <2>4 DEF Draws
<1> QED BY <1>1, <1>2, ClientDraws

(* With WInv, QueryOne is the property OneQuery. *)
LEMMA QueryOneSays == WInv /\ QueryOne => OneQuery
<1> SUFFICES ASSUME WInv, QueryOne PROVE OneQuery
  OBVIOUS
<1> DEFINE answers == {i \in DOMAIN inbox : inbox[i].of \in {"chats", "failed"}}
<1>1. DOMAIN inbox = 1..Len(inbox)
  BY LenProperties DEF WInv, QueueOK
<1>2. \A i : i \in answers <=> i \in 1..Len(inbox) /\ IsAnswer(inbox[i])
  BY <1>1 DEF IsAnswer
<1> HIDE DEF answers
<1>3. win.running <=> asked # NoQuery \/ answers # {}
  BY <1>2 DEF QueryOne
<1>4. Cardinality(answers) + (IF asked = NoQuery THEN 0 ELSE 1) <= 1
  <2>1. CASE answers = {}
    BY <2>1, FS_EmptySet
  <2>2. CASE answers # {}
    <3>1. PICK i \in answers : TRUE
      BY <2>2
    <3>2. answers = {i}
      BY <1>2, <3>1 DEF QueryOne
    <3>3. asked = NoQuery
      BY <1>2, <3>1 DEF QueryOne
    <3>4. Cardinality({i}) = 1
      BY FS_Singleton
    <3> QED BY <3>2, <3>3, <3>4
  <2> QED BY <2>1, <2>2
<1> QED BY <1>3, <1>4 DEF OneQuery, answers

(* QueryOne is inductive under WInv. *)
LEMMA NextQueryOne == WInv /\ QueryOne /\ [Next]_vars => QueryOne'
<1> SUFFICES ASSUME WInv, QueryOne, [Next]_vars PROVE QueryOne'
  OBVIOUS
<1>1. CASE UNCHANGED vars
  BY <1>1 DEF vars, tdVars, QueryOne
<1> QED BY <1>1, TdlibQueryOne, ClientQueryOne DEF Next

(* A second getChats is never sent while one is on its way, and            *)
(* running_query_ never stays set without one (redraw, got_dialogs,        *)
(* got_dialogs_failed).                                                    *)
THEOREM OneQueryCorrect == Spec => []OneQuery
<1>1. WInv /\ QueryOne /\ [Next]_vars => (WInv /\ QueryOne)'
  BY NextWInv, NextQueryOne
<1> QED BY <1>1, InitWInv, InitQueryOne, QueryOneSays, PTL DEF Spec

-----------------------------------------------------------------------------
(***************************************************************************)
(* No chat is skipped.  For a chat tdlib has told of, chat_order once all  *)
(* that was said is heard is tdlib's order; of the others nothing is said, *)
(* and they follow last_position, now and when an answer is heard.         *)
(***************************************************************************)
ToldOf(m, c) == m.of = "order" /\ m.chat = c

Caught(c) ==
    /\ (\A i \in 1..Len(inbox) : ~ToldOf(inbox[i], c)) => win.chatOrder[c] = tdOrder[c]
    /\ \A i \in 1..Len(inbox) :
         /\ ToldOf(inbox[i], c)
         /\ \A j \in 1..Len(inbox) : j > i => ~ToldOf(inbox[j], c)
         => inbox[i].order = tdOrder[c]

Unheard(c) == win.chatOrder[c] = 0 /\ \A i \in 1..Len(inbox) : ~ToldOf(inbox[i], c)

(* The chats nobody was told of follow p. *)
Below(p) == \A c \in Chat \ told : tdOrder[c] > 0 => Before(p, At(tdOrder[c], c))

Followed ==
    /\ Below(win.last)
    /\ \A i \in 1..Len(inbox) :
         inbox[i].of = "chats" => Below(Reached(win.last, inbox[i].list))

NoneLost ==
    /\ \A c \in told : Caught(c)
    /\ \A c \in Chat \ told : Unheard(c)
    /\ Followed

(* The last chat of a page is followed by every chat nobody was told of,   *)
(* once those of the page were told of: the page has the next ones.        *)
LEMMA PageCovers ==
    ASSUME TdlibOK, NEW p \in Place, Below(p), \A q \in Page(p) : q.chat \in told
    PROVE  Below(Reached(p, Page(p)))
<1> DEFINE Between(q) == {r \in TdChats : Before(p, r) /\ Before(r, q)}
<1>0. TdChats \in SUBSET Place /\ Page(p) \in SUBSET TdChats
  BY TdChatsFacts, PlaceFacts
<1>1. \A q : q \in Page(p) <=> q \in TdChats /\ Before(p, q) /\ Cardinality(Between(q)) < Rows
  BY DEF Page
<1>2. \A c \in Chat : tdOrder[c] > 0 => At(tdOrder[c], c) \in TdChats
  BY DEF TdChats
<1>3. IsFiniteSet(TdChats)
  <2>1. TdChats \subseteq ListOf(tdOrder)
    BY DEF TdChats, ListOf
  <2> QED BY <2>1, ListOfFacts, FS_Subset DEF TdlibOK
<1>4. Rows \in Nat \ {0}
  BY DialogListAssumption
<1>5. CASE Page(p) = {}
  <2>1. \A q \in TdChats : ~Before(p, q)
    <3> DEFINE following == {q \in TdChats : Before(p, q)}
    <3> SUFFICES ASSUME following # {} PROVE FALSE
      OBVIOUS
    <3>1. PICK q \in following : \A r \in following : r = q \/ Before(q, r)
      <4>1. following \in SUBSET Place
        BY <1>0
      <4> HIDE DEF following
      <4> QED BY <4>1, HighestPlace
    <3>2. q \in TdChats /\ Before(p, q) /\ q \in Place
      BY <1>0, <3>1
    <3>3. Between(q) = {}
      <4> SUFFICES ASSUME NEW r \in TdChats, Before(p, r), Before(r, q) PROVE FALSE
        OBVIOUS
      <4>1. r = q \/ Before(q, r)
        BY <3>1
      <4>2. r \in Place
        BY <1>0
      <4> QED BY <3>2, <4>1, <4>2, BeforeOrders
    <3>4. Cardinality(Between(q)) < Rows
      BY <1>4, <3>3, FS_EmptySet
    <3> QED BY <1>1, <1>5, <3>2, <3>4
  <2> QED BY <1>2, <2>1 DEF Below
<1>6. CASE Page(p) # {}
  <2> DEFINE R == Reached(p, Page(p))
  <2>1. R \in {p} \cup Page(p) /\ \A r \in {p} \cup Page(p) : r = R \/ Before(r, R)
    BY <1>0, <1>6, ReachedFacts
  <2>2. R \in Page(p) /\ R \in Place
    <3>1. PICK q \in Page(p) : TRUE
      BY <1>6
    <3>2. Before(p, q) /\ q \in Place
      BY <1>0, <1>1, <3>1
    <3>3. R # p
      BY <2>1, <3>2, BeforeOrders
    <3> QED BY <1>0, <2>1, <3>3
  <2> HIDE DEF R
  <2>3. SUFFICES ASSUME NEW c \in Chat \ told, tdOrder[c] > 0
                 PROVE  Before(R, At(tdOrder[c], c))
    BY DEF Below, R
  <2> DEFINE t == At(tdOrder[c], c)
  <2>4. t \in TdChats /\ t \in Place /\ Before(p, t) /\ t.chat = c
    BY <1>0, <1>2, <2>3 DEF Below, At
  <2> HIDE DEF t
  <2>5. t \notin Page(p)
    BY <2>4
  <2>6. ~Before(t, R)
    <3> SUFFICES ASSUME Before(t, R) PROVE FALSE
      OBVIOUS
    <3>1. Between(t) \subseteq Between(R)
      <4> SUFFICES ASSUME NEW r \in Between(t) PROVE Before(r, R)
        OBVIOUS
      <4>1. r \in Place /\ Before(r, t)
        BY <1>0
      <4> QED BY <2>2, <2>4, <4>1, BeforeOrders
    <3>2. Between(R) \subseteq TdChats
      OBVIOUS
    <3>3. Cardinality(Between(R)) < Rows
      BY <1>1, <2>2
    <3> HIDE DEF Between
    <3>4. IsFiniteSet(Between(R))
      BY <1>3, <3>2, FS_Subset
    <3>5. Cardinality(Between(t)) <= Cardinality(Between(R)) /\ IsFiniteSet(Between(t))
      BY <3>1, <3>4, FS_Subset
    <3>6. Cardinality(Between(t)) \in Nat /\ Cardinality(Between(R)) \in Nat
      BY <3>4, <3>5, FS_CardinalityType
    <3>7. Cardinality(Between(t)) < Rows
      BY <1>4, <3>3, <3>5, <3>6
    <3> QED BY <1>1, <2>4, <2>5, <3>7
  <2> QED BY <2>2, <2>4, <2>5, <2>6, BeforeOrders DEF t
<1> QED BY <1>5, <1>6

(* Telling more chats, or moving one that is told of, leaves the others    *)
(* where they were.                                                        *)
LEMMA BelowStays ==
    ASSUME told \subseteq told', \A c \in Chat \ told' : tdOrder'[c] = tdOrder[c],
           NEW p, Below(p)
    PROVE  Below(p)'
BY DEF Below

(* What tdlib says of a chat last is its order.                            *)
LEMMA SaidCaught ==
    ASSUME WInv, NEW m \in Messages, Say(m), UNCHANGED win, NEW c \in Chat,
           Caught(c) \/ Unheard(c),
           ToldOf(m, c) => m.order = tdOrder'[c],
           ~ToldOf(m, c) => Caught(c) /\ tdOrder'[c] = tdOrder[c]
    PROVE  Caught(c)'
<1> DEFINE n == Len(inbox)
<1>1. n \in Nat /\ Len(inbox') = n + 1 /\ inbox'[n + 1] = m /\ \A i \in 1..n : inbox'[i] = inbox[i]
  BY SaidFacts DEF WInv
<1> HIDE DEF n
<1>2. /\ n + 1 \in 1..Len(inbox') /\ \A i \in 1..n : i \in 1..Len(inbox') /\ n + 1 > i
      /\ \A i \in 1..Len(inbox') : i \in 1..n \/ i = n + 1
  BY <1>1
<1>3. CASE ToldOf(m, c)
  <2>1. ~ \A i \in 1..Len(inbox') : ~ToldOf(inbox'[i], c)
    BY <1>1, <1>2, <1>3
  <2>2. ASSUME NEW i \in 1..Len(inbox'), \A j \in 1..Len(inbox') : j > i => ~ToldOf(inbox'[j], c)
        PROVE  inbox'[i].order = tdOrder'[c]
    <3>1. i = n + 1
      BY <1>1, <1>2, <1>3, <2>2
    <3> QED BY <1>1, <1>3, <3>1
  <2> QED BY <2>1, <2>2 DEF Caught
<1>4. CASE ~ToldOf(m, c)
  <2>1. \A i \in 1..Len(inbox') : ToldOf(inbox'[i], c) => i \in 1..n
    BY <1>1, <1>2, <1>4
  <2>2. (\A i \in 1..n : ~ToldOf(inbox[i], c)) => win.chatOrder[c] = tdOrder[c]
    BY <1>4 DEF Caught, n
  <2>3. \A i \in 1..n :
         /\ ToldOf(inbox[i], c)
         /\ \A j \in 1..n : j > i => ~ToldOf(inbox[j], c)
         => inbox[i].order = tdOrder[c]
    BY <1>4 DEF Caught, n
  <2>4. (\A i \in 1..Len(inbox') : ~ToldOf(inbox'[i], c)) => win'.chatOrder[c] = tdOrder'[c]
    BY <1>1, <1>2, <1>4, <2>2
  <2>5. ASSUME NEW i \in 1..Len(inbox'), ToldOf(inbox'[i], c),
               \A j \in 1..Len(inbox') : j > i => ~ToldOf(inbox'[j], c)
        PROVE  inbox'[i].order = tdOrder'[c]
    <3>1. i \in 1..n /\ inbox'[i] = inbox[i]
      BY <1>1, <2>1, <2>5
    <3>2. \A j \in 1..n : j > i => ~ToldOf(inbox[j], c)
      BY <1>1, <1>2, <2>5
    <3> QED BY <1>4, <2>3, <2>5, <3>1, <3>2
  <2> QED BY <2>4, <2>5 DEF Caught
<1> QED BY <1>3, <1>4

(* A notice that does not name a chat does not change what is still to be heard of it. *)
LEMMA SaidNothing ==
    ASSUME WInv, NEW m \in Messages, Say(m), UNCHANGED win, NEW c \in Chat,
           Unheard(c), ~ToldOf(m, c)
    PROVE  Unheard(c)'
<1> DEFINE n == Len(inbox)
<1>1. n \in Nat /\ Len(inbox') = n + 1 /\ inbox'[n + 1] = m /\ \A i \in 1..n : inbox'[i] = inbox[i]
  BY SaidFacts DEF WInv
<1> HIDE DEF n
<1>2. \A i \in 1..Len(inbox') : i \in 1..n \/ i = n + 1
  BY <1>1
<1>3. \A i \in 1..n : ~ToldOf(inbox[i], c)
  BY DEF Unheard, n
<1> QED BY <1>1, <1>2, <1>3 DEF Unheard

(* last stays followed by TDLib's own list when something is said that reaches no further
   than TDLib has told. *)
LEMMA SaidFollowed ==
    ASSUME WInv, Followed, NEW m \in Messages, Say(m), UNCHANGED win,
           told \subseteq told', \A c \in Chat \ told' : tdOrder'[c] = tdOrder[c],
           m.of = "chats" => Below(Reached(win.last, m.list))
    PROVE  Followed'
<1> DEFINE n == Len(inbox)
<1>1. n \in Nat /\ Len(inbox') = n + 1 /\ inbox'[n + 1] = m /\ \A i \in 1..n : inbox'[i] = inbox[i]
  BY SaidFacts DEF WInv
<1> HIDE DEF n
<1>2. \A i \in 1..Len(inbox') : i \in 1..n \/ i = n + 1
  BY <1>1
<1>3. Below(win.last)'
  BY DEF Followed, Below
<1>4. ASSUME NEW i \in 1..Len(inbox'), inbox'[i].of = "chats"
      PROVE  \A c \in Chat \ told' :
               tdOrder'[c] > 0 => Before(Reached(win'.last, inbox'[i].list), At(tdOrder'[c], c))
  <2> DEFINE p == Reached(win.last, inbox'[i].list)
  <2>1. \A c \in Chat \ told : tdOrder[c] > 0 => Before(p, At(tdOrder[c], c))
    <3>1. CASE i = n + 1
      BY <1>1, <1>4, <3>1 DEF Below
    <3>2. CASE i \in 1..n
      BY <1>1, <1>4, <3>2 DEF Followed, Below, n
    <3> QED BY <1>2, <3>1, <3>2
  <2> QED BY <2>1
<1>5. \A i \in 1..Len(inbox') :
        inbox'[i].of = "chats" =>
          \A c \in Chat \ told' :
            tdOrder'[c] > 0 => Before(Reached(win'.last, inbox'[i].list), At(tdOrder'[c], c))
  BY <1>4
<1> QED BY <1>3, <1>5 DEF Followed, Below

(* What TDLib says and changes loses no chat: it is caught, still to be heard, or below last. *)
LEMMA TdlibNoneLost ==
    ASSUME WInv, QueryOne, NoneLost, \/ \E c \in Chat, o \in 0..MaxOrder : Reorder(c, o)
                                     \/ Tdlib \/ Refuse
    PROVE  NoneLost'
<1>0. TdlibOK /\ told \subseteq Chat
  BY DEF WInv, TdlibOK
<1>1. ASSUME NEW m \in Messages, Say(m), UNCHANGED win, told \subseteq told',
             m.of = "order" => m.chat \in Chat /\ told' = told \cup {m.chat} /\ m.order = tdOrder'[m.chat],
             m.of # "order" => told' = told,
             \A c \in Chat : ToldOf(m, c) \/ tdOrder'[c] = tdOrder[c],
             m.of = "chats" => Below(Reached(win.last, m.list))
      PROVE  NoneLost'
  <2>1. ASSUME NEW c \in told' PROVE Caught(c)'
    <3>1. c \in Chat /\ (c \in told \/ ToldOf(m, c))
      BY <1>0, <1>1 DEF ToldOf
    <3>2. Caught(c) \/ Unheard(c)
      BY <3>1 DEF NoneLost
    <3>3. ~ToldOf(m, c) => Caught(c)
      BY <3>1 DEF NoneLost
    <3>4. ToldOf(m, c) => m.order = tdOrder'[c]
      BY <1>1 DEF ToldOf
    <3> QED BY <1>1, <3>1, <3>2, <3>3, <3>4, SaidCaught
  <2>2. ASSUME NEW c \in Chat \ told' PROVE Unheard(c)'
    <3>1. Unheard(c) /\ ~ToldOf(m, c)
      BY <1>1 DEF NoneLost, ToldOf
    <3> QED BY <1>1, <3>1, SaidNothing
  <2>3. \A c \in Chat \ told' : tdOrder'[c] = tdOrder[c]
    BY <1>1 DEF ToldOf
  <2>4. Followed'
    BY <1>1, <2>3, SaidFollowed DEF NoneLost
  <2> QED BY <2>1, <2>2, <2>4 DEF NoneLost
<1>2. CASE \E c \in Chat, o \in 0..MaxOrder : Reorder(c, o)
  <2>1. PICK c \in Chat, o \in 0..MaxOrder : Reorder(c, o)
    BY <1>2
  <2> DEFINE m == NewOrder(c, o)
  <2>2. m \in Messages /\ m.of = "order" /\ m.chat = c /\ m.order = o
    BY DEF NewOrder, Messages
  <2>3. Say(m) /\ UNCHANGED win /\ told' = told \cup {c} /\ tdOrder' = [tdOrder EXCEPT ![c] = o]
    BY <2>1 DEF Reorder
  <2>4. tdOrder \in [Chat -> 0..MaxOrder]
    BY <1>0 DEF TdlibOK
  <2> HIDE DEF m
  <2>5. tdOrder'[c] = o /\ \A d \in Chat : d = c \/ tdOrder'[d] = tdOrder[d]
    BY <2>3, <2>4
  <2> QED BY <1>1, <2>2, <2>3, <2>5 DEF ToldOf
<1>3. CASE TellFirst
  <2>1. PICK q \in Page(asked) : told' = told \cup {q.chat} /\ Say(NewOrder(q.chat, q.order))
    BY <1>3 DEF TellFirst
  <2>2. q.chat \in Chat /\ q.order \in 0..MaxOrder /\ q.order = tdOrder[q.chat]
    BY <1>0, TdChatsFacts DEF TdlibOK
  <2> DEFINE m == NewOrder(q.chat, q.order)
  <2>3. m \in Messages /\ m.of = "order" /\ m.chat = q.chat /\ m.order = q.order
    BY <2>2 DEF NewOrder, Messages
  <2>4. Say(m) /\ UNCHANGED <<win, tdOrder>>
    BY <1>3, <2>1 DEF TellFirst
  <2> HIDE DEF m
  <2> QED BY <1>1, <2>1, <2>2, <2>3, <2>4
<1>4. CASE Answer
  <2> DEFINE m == Chats(Page(asked))
  <2>1. m \in Messages /\ m.of = "chats" /\ m.list = Page(asked)
    BY <1>0, TdChatsFacts DEF Chats, Messages
  <2>2. Say(m) /\ UNCHANGED <<win, tdOrder, told>> /\ asked # NoQuery
        /\ \A q \in Page(asked) : q.chat \in told
    BY <1>4 DEF Answer
  <2>3. asked = win.last
    BY <2>2 DEF QueryOne
  <2>4. win.last \in Place
    BY PlaceFacts DEF WInv, WindowOK, Windows
  <2> HIDE DEF m
  <2>5. Below(win.last)
    BY DEF NoneLost, Followed
  <2>6. Below(Reached(win.last, m.list))
    BY <1>0, <2>1, <2>2, <2>3, <2>4, <2>5, PageCovers
  <2> QED BY <1>1, <2>1, <2>2, <2>6
<1>5. CASE Refuse
  <2>1. Failed \in Messages /\ Failed.of = "failed"
    BY DEF Failed, Messages
  <2>2. Say(Failed) /\ UNCHANGED <<win, tdOrder, told>>
    BY <1>5 DEF Refuse
  <2> QED BY <1>1, <2>1, <2>2
<1> QED BY <1>2, <1>3, <1>4, <1>5 DEF Tdlib

(* What is heard of a chat is what chat_order says next.                   *)
LEMMA HeardCaught ==
    ASSUME QueueOK, inbox # << >>, inbox' = Tail(inbox), NEW c \in Chat, Caught(c),
           UNCHANGED tdOrder,
           ToldOf(Head(inbox), c) => win'.chatOrder[c] = Head(inbox).order,
           ~ToldOf(Head(inbox), c) => win'.chatOrder[c] = win.chatOrder[c]
    PROVE  Caught(c)'
<1> DEFINE n == Len(inbox)
           k == Len(inbox')
<1>1. /\ n \in Nat /\ n >= 1 /\ k = n - 1 /\ Head(inbox) = inbox[1]
      /\ \A i \in 1..k : i + 1 \in 1..n /\ inbox'[i] = inbox[i + 1]
      /\ \A i \in 1..n : i # 1 => i - 1 \in 1..k /\ inbox'[i - 1] = inbox[i]
  BY HeardFacts
<1>2. ASSUME \A i \in 1..k : ~ToldOf(inbox'[i], c)
      PROVE  win'.chatOrder[c] = tdOrder'[c]
  <2>1. \A i \in 1..n : i # 1 => ~ToldOf(inbox[i], c)
    BY <1>1, <1>2
  <2> HIDE DEF k
  <2>2. CASE ToldOf(inbox[1], c)
    <3>1. 1 \in 1..n
      BY <1>1
    <3>2. \A j \in 1..n : j > 1 => ~ToldOf(inbox[j], c)
      BY <2>1
    <3>3. inbox[1].order = tdOrder[c]
      BY <2>2, <3>1, <3>2 DEF Caught
    <3> QED BY <1>1, <2>2, <3>3
  <2>3. CASE ~ToldOf(inbox[1], c)
    BY <1>1, <2>1, <2>3 DEF Caught
  <2> QED BY <2>2, <2>3
<1>3. ASSUME NEW i \in 1..k, ToldOf(inbox'[i], c),
             \A j \in 1..k : j > i => ~ToldOf(inbox'[j], c)
      PROVE  inbox'[i].order = tdOrder'[c]
  <2>1. i + 1 \in 1..n /\ inbox'[i] = inbox[i + 1]
    BY <1>1
  <2>2. \A j \in 1..n : j > i + 1 => ~ToldOf(inbox[j], c)
    <3> SUFFICES ASSUME NEW j \in 1..n, j > i + 1 PROVE ~ToldOf(inbox[j], c)
      OBVIOUS
    <3>1. j # 1 /\ j - 1 > i
      BY <1>1
    <3> QED BY <1>1, <1>3, <3>1
  <2> HIDE DEF k
  <2>3. inbox[i + 1].order = tdOrder[c]
    BY <1>3, <2>1, <2>2 DEF Caught
  <2> QED BY <2>1, <2>3
<1> QED BY <1>2, <1>3 DEF Caught

(* A notice heard, with the chat's order in the window unchanged, leaves the later ones to be
   heard. *)
LEMMA HeardUnheard ==
    ASSUME QueueOK, inbox # << >>, inbox' = Tail(inbox), NEW c \in Chat, Unheard(c),
           win'.chatOrder[c] = win.chatOrder[c]
    PROVE  Unheard(c)'
BY HeardFacts DEF Unheard

(* Nor does what the client does. *)
LEMMA ClientNoneLost ==
    ASSUME WInv, QueryOne, NoneLost, Client \/ Drawn \/ Down \/ Up
    PROVE  NoneLost'
<1>0. QueueOK /\ told \subseteq Chat /\ win.chatOrder \in [Chat -> 0..MaxOrder]
  BY DEF WInv, TdlibOK, WindowOK, Windows
<1>1. ASSUME NEW m, Heard(m), Below(win'.last),
             \A c \in Chat : IF ToldOf(Head(inbox), c) THEN win'.chatOrder[c] = Head(inbox).order
                                                       ELSE win'.chatOrder[c] = win.chatOrder[c],
             m \in {"chats", "failed"} \/ win'.last = win.last
      PROVE  NoneLost'
  <2>1. /\ inbox # << >> /\ inbox' = Tail(inbox) /\ Head(inbox).of = m
        /\ UNCHANGED <<tdOrder, told>>
    BY <1>1 DEF Heard
  <2>2. \A c \in told : Caught(c)'
    BY <1>0, <1>1, <2>1, HeardCaught DEF NoneLost
  <2>3. 1 \in 1..Len(inbox) /\ Head(inbox) = inbox[1]
    BY <1>0, <2>1, HeardFacts
  <2>4. \A c \in Chat \ told : Unheard(c)'
    <3> TAKE c \in Chat \ told
    <3>1. Unheard(c) /\ ~ToldOf(Head(inbox), c)
      BY <2>3 DEF NoneLost, Unheard
    <3> QED BY <1>0, <1>1, <2>1, <3>1, HeardUnheard
  <2>5. Below(win.last)'
    BY <1>1, <2>1 DEF Below
  <2>6. ASSUME NEW i \in 1..Len(inbox'), inbox'[i].of = "chats"
        PROVE  \A c \in Chat \ told' :
                 tdOrder'[c] > 0 => Before(Reached(win'.last, inbox'[i].list), At(tdOrder'[c], c))
    <3>1. i + 1 \in 1..Len(inbox) /\ inbox'[i] = inbox[i + 1]
      BY <1>0, <2>1, HeardFacts
    <3>2. CASE m \in {"chats", "failed"}
      <4>1. IsAnswer(inbox[1]) /\ IsAnswer(inbox[i + 1])
        BY <2>1, <2>3, <2>6, <3>1, <3>2 DEF IsAnswer
      <4>2. 1 = i + 1
        BY <2>3, <3>1, <4>1 DEF QueryOne
      <4> QED BY <4>2
    <3>3. CASE win'.last = win.last
      <4>1. Below(Reached(win.last, inbox[i + 1].list))
        BY <2>6, <3>1 DEF NoneLost, Followed
      <4> QED BY <2>1, <3>1, <3>3, <4>1 DEF Below
    <3> QED BY <1>1, <3>2, <3>3
  <2>7. \A i \in 1..Len(inbox') :
          inbox'[i].of = "chats" =>
            \A c \in Chat \ told' :
              tdOrder'[c] > 0 => Before(Reached(win'.last, inbox'[i].list), At(tdOrder'[c], c))
    BY <2>6
  <2>8. Followed'
    BY <2>5, <2>7 DEF Followed, Below
  <2>9. told' = told
    BY <2>1
  <2> QED BY <2>2, <2>4, <2>8, <2>9 DEF NoneLost
<1>2. Below(win.last)
  BY DEF NoneLost, Followed
<1>3. CASE Repeated
  <2>1. Heard("order") /\ UNCHANGED win /\ win.chatOrder[Head(inbox).chat] = Head(inbox).order
    BY <1>3 DEF Repeated
  <2> QED BY <1>1, <1>2, <2>1 DEF ToldOf
<1>4. ASSUME NEW d, Draws(d) PROVE NoneLost'
  <2>1. win'.chatOrder = d.chatOrder /\ win'.last = d.last /\ UNCHANGED <<tdOrder, told>>
    BY <1>4, RedrawFacts DEF Draws, Sound
  <2>2. CASE Heard("order") /\ d.last = win.last
             /\ d.chatOrder = [win.chatOrder EXCEPT ![Head(inbox).chat] = Head(inbox).order]
    <3>1. Head(inbox).of = "order"
      BY <2>2 DEF Heard
    <3> QED BY <1>0, <1>1, <1>2, <2>1, <2>2, <3>1 DEF ToldOf
  <2>3. CASE Heard("chats") /\ d.chatOrder = win.chatOrder
             /\ d.last = Reached(win.last, Head(inbox).list)
    <3>1. Head(inbox).of = "chats" /\ inbox # << >>
      BY <2>3 DEF Heard
    <3>2. 1 \in 1..Len(inbox) /\ Head(inbox) = inbox[1]
      <4>1. inbox' = Tail(inbox)
        BY <2>3 DEF Heard
      <4> QED BY <1>0, <3>1, <4>1, HeardFacts
    <3>3. Below(d.last)
      BY <2>3, <3>1, <3>2 DEF NoneLost, Followed
    <3> QED BY <1>1, <2>1, <2>3, <3>1, <3>3 DEF ToldOf
  <2>4. CASE Heard("failed") /\ d.chatOrder = win.chatOrder /\ d.last = win.last
    <3>1. Head(inbox).of = "failed"
      BY <2>4 DEF Heard
    <3> QED BY <1>1, <1>2, <2>1, <2>4, <3>1 DEF ToldOf
  <2>5. CASE UNCHANGED inbox /\ d.chatOrder = win.chatOrder /\ d.last = win.last
    BY <2>1, <2>5 DEF NoneLost, Caught, Unheard, Followed, Below
  <2> QED BY <1>4, <2>2, <2>3, <2>4, <2>5 DEF Draws
<1> QED BY <1>3, <1>4, ClientDraws

(* Nothing is lost at the start. *)
LEMMA InitNoneLost == Init => NoneLost
<1> SUFFICES ASSUME Init PROVE NoneLost
  OBVIOUS
<1>1. /\ told = {} /\ win.chatOrder = [c \in Chat |-> 0] /\ win.last = Header
      /\ tdOrder \in [Chat -> 0..MaxOrder]
      /\ \A i \in 1..Len(inbox) : FALSE
  <2>1. inbox = << >>
    BY DEF Init
  <2>2. \A i \in 1..Len(inbox) : FALSE
    BY <2>1
  <2> QED BY <2>2 DEF Init
<1>2. \A c \in Chat : Before(Header, At(tdOrder[c], c))
  <2> TAKE c \in Chat
  <2>1. tdOrder[c] \in 0..MaxOrder /\ At(tdOrder[c], c).order = tdOrder[c]
    BY <1>1 DEF At
  <2> QED BY <2>1, HeaderFacts DEF Before
<1> QED BY <1>1, <1>2 DEF NoneLost, Unheard, Followed, Below

(* NoneLost is inductive under the two others. *)
LEMMA NextNoneLost == WInv /\ QueryOne /\ NoneLost /\ [Next]_vars => NoneLost'
<1> SUFFICES ASSUME WInv, QueryOne, NoneLost, [Next]_vars PROVE NoneLost'
  OBVIOUS
<1>1. CASE UNCHANGED vars
  BY <1>1 DEF vars, tdVars, NoneLost, Caught, Unheard, Followed, Below
<1> QED BY <1>1, TdlibNoneLost, ClientNoneLost DEF Next

(* With WInv, NoneLost is the property NoChatSkipped. *)
LEMMA NoneLostSays == WInv /\ NoneLost => NoChatSkipped
<1> SUFFICES ASSUME WInv, NoneLost, inbox = << >> PROVE
        /\ {q \in TdChats : ~Before(win.last, q)} \subseteq win.list
        /\ win.list \subseteq TdChats \cup {Header}
  BY DEF NoChatSkipped
<1>1. \A i \in 1..Len(inbox) : FALSE
  OBVIOUS
<1>2. \A c \in told : win.chatOrder[c] = tdOrder[c]
  BY <1>1 DEF NoneLost, Caught
<1>3. \A c \in Chat \ told : win.chatOrder[c] = 0
  BY DEF NoneLost, Unheard
<1>4. win.list = ListOf(win.chatOrder)
  BY DEF WInv, WindowOK
<1>5. ASSUME NEW c \in Chat, tdOrder[c] > 0, ~Before(win.last, At(tdOrder[c], c))
      PROVE  At(tdOrder[c], c) \in win.list
  <2>1. c \in told
    BY <1>5 DEF NoneLost, Followed, Below
  <2> QED BY <1>2, <1>4, <1>5, <2>1 DEF ListOf
<1>6. ASSUME NEW c \in Chat, win.chatOrder[c] > 0
      PROVE  At(win.chatOrder[c], c) \in TdChats
  <2>1. c \in told
    BY <1>3, <1>6
  <2> QED BY <1>2, <1>6, <2>1 DEF TdChats
<1>7. {q \in TdChats : ~Before(win.last, q)} \subseteq win.list
  BY <1>5 DEF TdChats
<1> QED BY <1>4, <1>6, <1>7 DEF ListOf

(* When the client has heard everything, the list has every chat above     *)
(* last_position at its place and none that tdlib dropped, whatever was    *)
(* moved, asked, answered or refused before (updateChat, got_dialogs).     *)
THEOREM NoChatSkippedCorrect == Spec => []NoChatSkipped
<1> DEFINE IInv == WInv /\ QueryOne /\ NoneLost
<1>1. IInv /\ [Next]_vars => IInv'
  BY NextWInv, NextQueryOne, NextNoneLost
<1>2. Init => IInv
  BY InitWInv, InitQueryOne, InitNoneLost
<1>3. IInv => NoChatSkipped
  BY NoneLostSays
<1> QED BY <1>1, <1>2, <1>3, PTL DEF Spec
===============================================================================
