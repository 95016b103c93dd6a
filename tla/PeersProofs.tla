----------------------------- MODULE PeersProofs -----------------------------
(***************************************************************************)
(* Proofs about Peers, for every finite set of peers, and all usernames,   *)
(* titles and numbers of changes: the objects are counted exactly, names   *)
(* lead to the peers that bear them, and the tree of aliases agrees with   *)
(* the lists of the peers.                                                 *)
(***************************************************************************)
EXTENDS Peers, FiniteSetTheorems, SequenceTheorems, TLAPS

-----------------------------------------------------------------------------
(***************************************************************************)
(* Aliases: numbers, usernames and titles are told apart.                  *)
(***************************************************************************)
Marks == {UsernameAlias(w) : w \in Usernames}
Headings == {TitleAlias(w, k) : w \in Titles, k \in Suffixes}
Sorts == {"id", "@", "title"}

(* No alias is of two kinds, and what is no alias is none of them.         *)
LEMMA AliasKinds ==
    /\ Marks \subseteq Aliases /\ Headings \subseteq Aliases
    /\ \A p \in Peer : MainAlias(p) \in Aliases /\ MainAlias(p) \notin Marks \cup Headings
    /\ Marks \cap Headings = {}
    /\ \A a \in Aliases : a \in Marks \/ a \in Headings \/ \E p \in Peer : a = MainAlias(p)
    /\ \A a \in Marks : a.kind = "@"
    /\ \A a \in Headings : a.kind = "title"
    /\ \A p \in Peer : MainAlias(p).kind = "id"
    /\ None \notin Aliases
<1>1. \A w \in Usernames : w # None /\ UsernameAlias(w) = [kind |-> "@", of |-> w, n |-> 0]
  BY PeersAssumption DEF UsernameAlias
<1>2. \A p \in Peer : MainAlias(p).kind = "id"
  BY DEF MainAlias
<1>3. \A a \in Marks : a.kind = "@"
  BY <1>1 DEF Marks
<1>4. \A a \in Headings : a.kind = "title"
  BY DEF Headings, TitleAlias
<1>5. /\ Marks \subseteq Aliases /\ Headings \subseteq Aliases
      /\ \A p \in Peer : MainAlias(p) \in Aliases
      /\ \A a \in Aliases : a \in Marks \/ a \in Headings \/ \E p \in Peer : a = MainAlias(p)
  BY DEF Aliases, Marks, Headings
<1> QED BY <1>2, <1>3, <1>4, <1>5, NullAssumption

(* A freed text is no alias, and what is no alias in a list was freed.     *)
LEMMA FreedKinds ==
    /\ \A k \in Sorts : FreedOf(k) \in Text /\ FreedOf(k) \notin Aliases
    /\ \A a \in Aliases : /\ a \in Text /\ a.kind \in Sorts
                         /\ Freed(a) = FreedOf(a.kind) /\ Freed(a) \in Text \ Aliases
    /\ \A t \in Text : (t.kind # "freed" <=> t \in Aliases) /\ Freed(t) \in Text
<1>1. \A a \in Aliases : a.kind \in Sorts /\ a.kind # "freed"
  BY AliasKinds DEF Sorts
<1>2. \A k \in Sorts : FreedOf(k).kind = "freed" /\ FreedOf(k) \in Text
  BY DEF FreedOf, Text, Sorts
<1>3. \A t \in Text : t \in Aliases \/ \E k \in Sorts : t = FreedOf(k)
  BY DEF Text, Sorts
<1>4. \A a \in Aliases : Freed(a) = FreedOf(a.kind) /\ a \in Text
  BY <1>1 DEF Freed, Text
<1>5. \A k \in Sorts : Freed(FreedOf(k)) = FreedOf(k)
  BY <1>2 DEF Freed
<1> QED BY <1>1, <1>2, <1>3, <1>4, <1>5

(* An alias says what it is made of. *)
LEMMA MainOf ==
    ASSUME NEW p \in Peer, NEW q \in Peer, MainAlias(p) = MainAlias(q) PROVE p = q
BY DEF MainAlias

(* A username makes an alias of its own, and having none makes none.       *)
LEMMA MarkOf ==
    ASSUME NEW w \in Usernames \cup {None}
    PROVE  /\ w # None => UsernameAlias(w) \in Marks
           /\ w = None => UsernameAlias(w) = None
           /\ UsernameAlias(w) \in Marks \cup {None}
           /\ \A v \in Usernames : UsernameAlias(w) = UsernameAlias(v) <=> w = v
<1>1. \A v \in Usernames : v # None /\ UsernameAlias(v) = [kind |-> "@", of |-> v, n |-> 0]
  BY PeersAssumption DEF UsernameAlias
<1>2. UsernameAlias(None) = None
  BY DEF UsernameAlias
<1>3. \A v \in Usernames : UsernameAlias(v) # None
  BY AliasKinds DEF Marks
<1>4. CASE w = None
  BY <1>2, <1>3, <1>4, PeersAssumption
<1>5. CASE w # None
  <2>1. w \in Usernames /\ UsernameAlias(w) \in Marks
    BY <1>5 DEF Marks
  <2>2. ASSUME NEW v \in Usernames, UsernameAlias(w) = UsernameAlias(v) PROVE w = v
    <3>1. UsernameAlias(w).of = w /\ UsernameAlias(v).of = v
      BY <1>1, <2>1
    <3> QED BY <2>2, <3>1
  <2> QED BY <1>5, <2>1, <2>2
<1> QED BY <1>4, <1>5

(* Tables of aliases. *)
Tables == [tree : [Aliases -> Seq(Peer)], lists : [Peer -> Seq(Text)],
           user : [Peer -> Aliases \cup {None}], name : [Peer -> Aliases \cup {None}],
           fault : {"none", "assert", "freed"}, collided : SUBSET Aliases]

-----------------------------------------------------------------------------
(***************************************************************************)
(* The list of a peer: what the functions on it find and leave.            *)
(***************************************************************************)
In(a, l) == \E i \in 1..Len(l) : l[i] = a

(* Texts that were not freed are there once. *)
Distinct(l) == \A i, j \in 1..Len(l) : l[i] = l[j] /\ l[i] \in Aliases => i = j

(* That a text is in a list is that it is in the range of it.              *)
LEMMA InIsRange ==
    ASSUME NEW S, NEW l \in Seq(S), NEW a
    PROVE  a \in Range(l) <=> In(a, l)
<1>1. DOMAIN l = 1..Len(l)
  BY LenProperties
<1> QED BY <1>1 DEF Range, In

(* The search of a list finds what is there, *)
LEMMA PlaceFound ==
    ASSUME NEW l \in Seq(Text), Distinct(l), NEW a \in Aliases, In(a, l)
    PROVE  Place(l, a) \in 1..Len(l) /\ l[Place(l, a)] = a
<1>1. DOMAIN l = 1..Len(l) /\ Len(l) \in Nat
  BY LenProperties
<1>2. PICK i \in 1..Len(l) : l[i] = a
  BY DEF In
<1>3. \A j \in 1..(i - 1) : l[j] # a
  <2> SUFFICES ASSUME NEW j \in 1..(i - 1), l[j] = a PROVE FALSE
    OBVIOUS
  <2>1. j \in 1..Len(l) /\ j # i
    BY <1>1, <1>2
  <2> QED BY <1>2, <2>1, AliasKinds DEF Distinct
<1>4. Place(l, a) = CHOOSE k \in DOMAIN l : l[k] = a /\ \A j \in 1..(k - 1) : l[j] # a
  BY <1>1, <1>2 DEF Place
<1> QED BY <1>1, <1>2, <1>3, <1>4

(* and nothing else. *)
LEMMA PlaceNone ==
    ASSUME NEW l \in Seq(Text), NEW a, ~In(a, l)
    PROVE  Place(l, a) = 0
<1>1. DOMAIN l = 1..Len(l)
  BY LenProperties
<1> QED BY <1>1 DEF Place, In

(* One text more. *)
LEMMA Longer ==
    ASSUME NEW l \in Seq(Text), Distinct(l), NEW a \in Aliases, ~In(a, l)
    PROVE  /\ Append(l, a) \in Seq(Text) /\ Append(l, a) # <<>> /\ Distinct(Append(l, a))
           /\ \A b : In(b, Append(l, a)) <=> In(b, l) \/ b = a
           /\ l # <<>> => Append(l, a)[1] = l[1]
           /\ l = <<>> => Append(l, a)[1] = a
<1>1. a \in Text /\ Len(l) \in Nat
  BY LenProperties DEF Text
<1> DEFINE n == Append(l, a)
<1>2. /\ n \in Seq(Text) /\ n # <<>> /\ Len(n) = Len(l) + 1
      /\ \A i \in 1..Len(l) : n[i] = l[i]
      /\ n[Len(l) + 1] = a
  BY <1>1, AppendProperties
<1>3. l # <<>> => 1 \in 1..Len(l)
  BY <1>1, EmptySeq
<1>4. l = <<>> => Len(l) = 0
  OBVIOUS
<1> HIDE DEF n
<1>5. Distinct(n)
  BY <1>1, <1>2 DEF Distinct, In
<1>6. \A b : In(b, n) <=> In(b, l) \/ b = a
  BY <1>1, <1>2 DEF In
<1>7. (l # <<>> => n[1] = l[1]) /\ (l = <<>> => n[1] = a)
  BY <1>2, <1>3, <1>4
<1> QED BY <1>2, <1>5, <1>6, <1>7 DEF n

(* One text in the place of another. *)
LEMMA Replaced ==
    ASSUME NEW l \in Seq(Text), Distinct(l), NEW i \in 1..Len(l), l[i] \in Aliases,
           NEW b \in Aliases, ~In(b, l)
    PROVE  LET n == [l EXCEPT ![i] = b] IN
           /\ n \in Seq(Text) /\ Distinct(n) /\ Len(n) = Len(l)
           /\ \A c : In(c, n) <=> c = b \/ (In(c, l) /\ c # l[i])
           /\ i # 1 => n[1] = l[1]
<1> DEFINE n == [l EXCEPT ![i] = b]
<1>1. b \in Text /\ Len(l) \in Nat
  BY LenProperties DEF Text
<1>2. n \in Seq(Text) /\ Len(n) = Len(l) /\ \A j \in 1..Len(l) : n[j] = IF j = i THEN b ELSE l[j]
  BY <1>1, ExceptSeq
<1> HIDE DEF n
<1>3. Distinct(n)
  BY <1>1, <1>2 DEF Distinct, In
<1>4. \A c : In(c, n) <=> c = b \/ (In(c, l) /\ c # l[i])
  BY <1>1, <1>2 DEF Distinct, In
<1>5. i # 1 => n[1] = l[1]
  <2>1. 1 \in 1..Len(l)
    BY <1>1
  <2> QED BY <1>2, <2>1
<1>6. /\ n \in Seq(Text) /\ Distinct(n) /\ Len(n) = Len(l)
      /\ \A c : In(c, n) <=> c = b \/ (In(c, l) /\ c # l[i])
      /\ i # 1 => n[1] = l[1]
  BY <1>2, <1>3, <1>4, <1>5
<1> QED BY <1>6 DEF n

(* One text less: the last one is moved to its place and freed there.      *)
Kept(l, i) ==
    SubSeq([l EXCEPT ![i] = IF i = Len(l) THEN @ ELSE Freed(l[Len(l)])], 1, Len(l) - 1)

(* What it is made of. *)
LEMMA KeptFacts ==
    ASSUME NEW l \in Seq(Text), NEW i \in 1..Len(l), i # 1
    PROVE  /\ Len(l) - 1 \in Nat /\ Len(l) - 1 >= 1
           /\ Kept(l, i) \in Seq(Text) /\ Len(Kept(l, i)) = Len(l) - 1
           /\ \A j \in 1..(Len(l) - 1) : Kept(l, i)[j] = IF j = i THEN Freed(l[Len(l)]) ELSE l[j]
<1> DEFINE m == Len(l) - 1
           g == Freed(l[Len(l)])
           t == [l EXCEPT ![i] = IF i = Len(l) THEN l[i] ELSE g]
           n == Kept(l, i)
<1>1. Len(l) \in Nat /\ m \in Nat /\ m >= 1
  BY LenProperties
<1>2. l[i] \in Text /\ l[Len(l)] \in Text
  BY <1>1, ElementOfSeq
<1>3. g \in Text
  BY <1>2, FreedKinds
<1>4. n = SubSeq(t, 1, m)
  BY DEF Kept
<1> HIDE DEF g
<1>5. /\ t \in Seq(Text) /\ Len(t) = Len(l)
      /\ \A j \in 1..Len(l) : t[j] = IF j = i THEN IF i = Len(l) THEN l[i] ELSE g ELSE l[j]
  BY <1>2, <1>3, ExceptSeq
<1>6. \A j \in 1..m : t[j] \in Text
  BY <1>1, <1>5, ElementOfSeq
<1> HIDE DEF t, n
<1>7. n \in Seq(Text) /\ Len(n) = m /\ \A j \in 1..m : n[j] = t[j]
  <2>1. m \in Int /\ 1 \in Int
    BY <1>1
  <2>2. /\ n \in Seq(Text) /\ Len(n) = IF 1 <= m THEN m - 1 + 1 ELSE 0
        /\ \A j \in 1..(m - 1 + 1) : n[j] = t[1 + j - 1]
    BY <1>4, <1>6, <2>1, SubSeqProperties
  <2> QED BY <1>1, <2>2
<1>8. \A j \in 1..m : n[j] = IF j = i THEN g ELSE l[j]
  BY <1>1, <1>5, <1>7
<1> QED BY <1>1, <1>7, <1>8 DEF n, g

(* What a list keeps of what it had.                                       *)
LEMMA Shorter ==
    ASSUME NEW l \in Seq(Text), Distinct(l), NEW i \in 1..Len(l), i # 1, l[i] \in Aliases,
           l[Len(l)] \in Aliases
    PROVE  /\ Kept(l, i) # <<>> /\ Distinct(Kept(l, i)) /\ Kept(l, i)[1] = l[1]
           /\ \A c \in Aliases : In(c, Kept(l, i)) => In(c, l) /\ c # l[i]
           /\ \A c \in Aliases : In(c, l) /\ c # l[i] =>
                In(c, Kept(l, i)) \/ In(FreedOf(c.kind), Kept(l, i))
           /\ \A k \in Sorts : In(FreedOf(k), l) => In(FreedOf(k), Kept(l, i))
<1> DEFINE m == Len(l) - 1
           g == Freed(l[Len(l)])
           n == Kept(l, i)
<1>1. /\ Len(l) \in Nat /\ m \in Nat /\ m >= 1
      /\ g \in Text \ Aliases /\ g = FreedOf(l[Len(l)].kind)
  BY LenProperties, KeptFacts, FreedKinds
<1>5. n \in Seq(Text) /\ Len(n) = m /\ \A j \in 1..m : n[j] = IF j = i THEN g ELSE l[j]
  BY KeptFacts
<1>6. \A j \in 1..m : n[j] = IF j = i THEN g ELSE l[j]
  BY <1>5
<1> HIDE DEF n, g, m
<1>7. m = Len(l) - 1
  BY DEF m
<1>8. Distinct(n)
  BY <1>1, <1>5, <1>6, <1>7 DEF Distinct
<1>9. \A c \in Aliases : In(c, n) => In(c, l) /\ c # l[i]
  <2> SUFFICES ASSUME NEW c \in Aliases, NEW j \in 1..m, n[j] = c
               PROVE  In(c, l) /\ c # l[i]
    BY <1>5 DEF In
  <2>1. j # i /\ l[j] = c /\ j \in 1..Len(l)
    BY <1>1, <1>6, <1>7
  <2> QED BY <2>1 DEF In, Distinct
<1>10. ASSUME NEW c \in Aliases, In(c, l), c # l[i] PROVE In(c, n) \/ In(FreedOf(c.kind), n)
  <2>1. PICK j \in 1..Len(l) : l[j] = c
    BY <1>10 DEF In
  <2>2. CASE j \in 1..m
    <3>1. n[j] = c
      BY <1>6, <1>10, <2>1, <2>2
    <3> QED BY <1>5, <2>2, <3>1 DEF In
  <2>3. CASE j = Len(l)
    <3>1. i \in 1..m /\ n[i] = g /\ g = FreedOf(c.kind)
      BY <1>1, <1>6, <1>7, <1>10, <2>1, <2>3
    <3> QED BY <1>5, <3>1 DEF In
  <2> QED BY <1>1, <1>7, <2>2, <2>3
<1>11. ASSUME NEW k \in Sorts, In(FreedOf(k), l) PROVE In(FreedOf(k), n)
  <2>1. PICK j \in 1..Len(l) : l[j] = FreedOf(k)
    BY <1>11 DEF In
  <2>2. j # i /\ j # Len(l)
    BY <2>1, FreedKinds
  <2>3. j \in 1..m /\ n[j] = FreedOf(k)
    BY <1>1, <1>6, <1>7, <2>1, <2>2
  <2> QED BY <1>5, <2>3 DEF In
<1>12. n # <<>> /\ n[1] = l[1]
  <2>1. 1 \in 1..m /\ Len(n) # 0
    BY <1>1, <1>5
  <2> QED BY <1>6, <2>1
<1> QED BY <1>5, <1>8, <1>9, <1>10, <1>11, <1>12 DEF n

-----------------------------------------------------------------------------
(***************************************************************************)
(* What the functions on the table of aliases do.  AddAlias and DelAlias   *)
(* change the tree, the others a list with it.                             *)
(***************************************************************************)
Fields ==
    \A d \in Tables :
      /\ d.tree \in [Aliases -> Seq(Peer)] /\ d.lists \in [Peer -> Seq(Text)]
      /\ d.user \in [Peer -> Aliases \cup {None}] /\ d.name \in [Peer -> Aliases \cup {None}]
      /\ d.fault \in {"none", "assert", "freed"} /\ d.collided \in SUBSET Aliases

(* The fields of a table have their types.                                 *)
LEMMA TableFields == Fields
BY DEF Fields, Tables

(* An entry more or an entry less leaves a tree.                           *)
LEMMA TreeEntry ==
    ASSUME NEW tree \in [Aliases -> Seq(Peer)], NEW a \in Aliases, NEW p \in Peer
    PROVE  /\ [tree EXCEPT ![a] = <<p>> \o @] \in [Aliases -> Seq(Peer)]
           /\ [tree EXCEPT ![a] = IF @ = <<>> THEN @ ELSE Tail(@)] \in [Aliases -> Seq(Peer)]
<1>1. <<p>> \o tree[a] \in Seq(Peer)
  BY ConcatProperties, <<p>> \in Seq(Peer), tree[a] \in Seq(Peer)
<1>2. (IF tree[a] = <<>> THEN tree[a] ELSE Tail(tree[a])) \in Seq(Peer)
  BY HeadTailProperties, tree[a] \in Seq(Peer)
<1> QED BY <1>1, <1>2

(* A peer is entered above the others, or the assertion fails: then the    *)
(* alias had an entry.                                                     *)
LEMMA AddAliasFacts ==
    ASSUME NEW d \in Tables, NEW p \in Peer, NEW a \in Aliases, NEW e \in AddAlias(d, p, a)
    PROVE  /\ e \in Tables /\ e.lists = d.lists /\ e.user = d.user /\ e.name = d.name
           /\ e.collided \subseteq d.collided \cup {a} /\ d.collided \subseteq e.collided
           /\ d.tree[a] = <<>> => e.collided = d.collided
           /\ e.fault = "none" => /\ e.tree = [d.tree EXCEPT ![a] = <<p>> \o @]
                                  /\ d.tree[a] # <<>> => a \in e.collided
<1> DEFINE t == [d.tree EXCEPT ![a] = <<p>> \o @]
           added == [d EXCEPT !.tree = t]
<1>1. t \in [Aliases -> Seq(Peer)]
  BY TableFields, TreeEntry DEF Fields
<1>2. e \in IF d.tree[a] = <<>> THEN {added}
            ELSE {[added EXCEPT !.collided = @ \cup {a}], [d EXCEPT !.fault = "assert"]}
  BY DEF AddAlias
<1> HIDE DEF t
<1>3. CASE e = added /\ d.tree[a] = <<>>
  <2>1. /\ e.tree = t /\ e.lists = d.lists /\ e.user = d.user /\ e.name = d.name
        /\ e.collided = d.collided /\ e.fault = d.fault /\ e \in Tables
    BY <1>1, <1>3 DEF Tables
  <2> QED BY <1>3, <2>1 DEF t
<1>4. CASE e = [added EXCEPT !.collided = @ \cup {a}] /\ d.tree[a] # <<>>
  <2>1. /\ e.tree = t /\ e.lists = d.lists /\ e.user = d.user /\ e.name = d.name
        /\ e.collided = d.collided \cup {a} /\ e.fault = d.fault /\ e \in Tables
    BY <1>1, <1>4 DEF Tables
  <2> QED BY <1>4, <2>1 DEF t
<1>5. CASE e = [d EXCEPT !.fault = "assert"] /\ d.tree[a] # <<>>
  <2>1. /\ e.tree = d.tree /\ e.lists = d.lists /\ e.user = d.user /\ e.name = d.name
        /\ e.collided = d.collided /\ e.fault = "assert" /\ e \in Tables
    BY <1>5 DEF Tables
  <2> QED BY <1>5, <2>1
<1> QED BY <1>2, <1>3, <1>4, <1>5

(* The entry on top is taken out, of a table that is otherwise as it was.  *)
LEMMA DelAliasFacts ==
    ASSUME NEW d \in Tables, NEW a \in Aliases
    PROVE  \E e \in Tables :
           /\ e = DelAlias(d, a) /\ e.lists = d.lists /\ e.user = d.user /\ e.name = d.name
           /\ e.collided = d.collided /\ e.fault = d.fault
           /\ e.tree = [d.tree EXCEPT ![a] = IF @ = <<>> THEN @ ELSE Tail(@)]
<1> DEFINE t == [d.tree EXCEPT ![a] = IF @ = <<>> THEN @ ELSE Tail(@)]
           e == DelAlias(d, a)
<1>1. t \in [Aliases -> Seq(Peer)]
  BY TableFields, TreeEntry, PeersAssumption DEF Fields
<1>2. e = [d EXCEPT !.tree = t]
  BY DEF DelAlias
<1> HIDE DEF t, e
<1>3. /\ e.tree = t /\ e.lists = d.lists /\ e.user = d.user /\ e.name = d.name
      /\ e.collided = d.collided /\ e.fault = d.fault /\ e \in Tables
  BY <1>1, <1>2 DEF Tables
<1>4. /\ e \in Tables /\ e = DelAlias(d, a) /\ e.lists = d.lists /\ e.user = d.user
      /\ e.name = d.name /\ e.collided = d.collided /\ e.fault = d.fault
      /\ e.tree = [d.tree EXCEPT ![a] = IF @ = <<>> THEN @ ELSE Tail(@)]
  BY <1>3 DEF t, e
<1> HIDE DEF t
<1> QED BY <1>4

(* A list changed in a table. *)
LEMMA ListChanged ==
    ASSUME NEW d \in Tables, NEW p \in Peer, NEW l \in Seq(Text)
    PROVE  \E e \in Tables :
           /\ e = [d EXCEPT !.lists[p] = l]
           /\ e.tree = d.tree /\ e.lists = [d.lists EXCEPT ![p] = l]
           /\ e.user = d.user /\ e.name = d.name
           /\ e.collided = d.collided /\ e.fault = d.fault
<1> DEFINE ls == [d.lists EXCEPT ![p] = l]
           e == [d EXCEPT !.lists = ls]
<1>1. ls \in [Peer -> Seq(Text)]
  BY TableFields DEF Fields
<1> HIDE DEF ls
<1>2. /\ e \in Tables /\ e.tree = d.tree /\ e.lists = ls
      /\ e.user = d.user /\ e.name = d.name
      /\ e.collided = d.collided /\ e.fault = d.fault
  BY <1>1 DEF Tables
<1>3. e = [d EXCEPT !.lists[p] = l]
  BY DEF ls
<1>4. e.lists = [d.lists EXCEPT ![p] = l]
  BY <1>2 DEF ls
<1> HIDE DEF e
<1> QED BY <1>2, <1>3, <1>4

(* What a search of a list may do besides its result. *)
LEMMA SearchedFacts ==
    ASSUME NEW d \in Tables, NEW p \in Peer, NEW a, NEW D, NEW e \in Searched(d, p, a, D)
    PROVE  \/ e \in D
           \/ /\ e \in Tables /\ e.fault = "freed" /\ e.user = d.user /\ e.name = d.name
              /\ e.collided = d.collided
<1>1. e \in D \/ e = [d EXCEPT !.fault = "freed"]
  BY DEF Searched
<1>2. CASE e = [d EXCEPT !.fault = "freed"]
  BY <1>2 DEF Tables
<1> QED BY <1>1, <1>2

(* What happens to the tree and to the list l of p when a gives way to b.  *)
Opened(d, e, p, b) ==
    /\ e.tree = [d.tree EXCEPT ![b] = <<p>> \o @]
    /\ e.lists = [d.lists EXCEPT ![p] = Append(d.lists[p], b)]
    /\ d.tree[b] # <<>> => b \in e.collided
Closed(d, e, p, a) ==
    /\ e.tree = [d.tree EXCEPT ![a] = IF @ = <<>> THEN @ ELSE Tail(@)]
    /\ \E i \in 1..Len(d.lists[p]) :
         /\ d.lists[p][i] = a /\ d.lists[p][Len(d.lists[p])] \in Aliases
         /\ e.lists = [d.lists EXCEPT ![p] = Kept(d.lists[p], i)]
Moved(d, e, p, a, b) ==
    /\ e.tree = [[d.tree EXCEPT ![a] = IF @ = <<>> THEN @ ELSE Tail(@)] EXCEPT ![b] = <<p>> \o @]
    /\ \E i \in 1..Len(d.lists[p]) :
         /\ d.lists[p][i] = a
         /\ e.lists = [d.lists EXCEPT ![p] = [d.lists[p] EXCEPT ![i] = b]]
    /\ d.tree[b] # <<>> => b \in e.collided

(* add_alias_internal, *)
LEMMA AddInternal ==
    ASSUME NEW d \in Tables, NEW p \in Peer, NEW b \in Aliases, NEW e \in AddAliasInternal(d, p, b)
    PROVE  /\ e \in Tables /\ e.user = d.user /\ e.name = d.name
           /\ d.collided \subseteq e.collided /\ e.collided \subseteq d.collided \cup {b}
           /\ d.tree[b] = <<>> => e.collided = d.collided
           /\ e.fault = "none" => Opened(d, e, p, b)
<1>1. PICK l \in Seq(Text) : l = Append(d.lists[p], b)
  BY TableFields, AppendProperties DEF Fields, Text
<1>2. PICK f \in Tables :
        /\ f = [d EXCEPT !.lists[p] = l]
        /\ f.tree = d.tree /\ f.lists = [d.lists EXCEPT ![p] = l]
        /\ f.user = d.user /\ f.name = d.name
        /\ f.collided = d.collided /\ f.fault = d.fault
  BY ListChanged
<1>3. e \in AddAlias(f, p, b)
  BY <1>1, <1>2 DEF AddAliasInternal
<1>4. /\ e \in Tables /\ e.lists = f.lists /\ e.user = f.user /\ e.name = f.name
      /\ e.collided \subseteq f.collided \cup {b} /\ f.collided \subseteq e.collided
      /\ f.tree[b] = <<>> => e.collided = f.collided
      /\ e.fault = "none" => /\ e.tree = [f.tree EXCEPT ![b] = <<p>> \o @]
                             /\ f.tree[b] # <<>> => b \in e.collided
  BY <1>3, AddAliasFacts
<1>5. e.fault = "none" => Opened(d, e, p, b)
  BY <1>1, <1>2, <1>4 DEF Opened
<1> QED BY <1>2, <1>4, <1>5

(* del_alias_internal, *)
LEMMA DelInternal ==
    ASSUME NEW d \in Tables, d.fault = "none", NEW p \in Peer, NEW a \in Aliases,
           Distinct(d.lists[p]), d.lists[p][1] # a, NEW e \in DelAliasInternal(d, p, a)
    PROVE  /\ e \in Tables /\ e.user = d.user /\ e.name = d.name /\ e.collided = d.collided
           /\ e.fault = "none" => \/ ~In(a, d.lists[p]) /\ e = d
                                  \/ Closed(d, e, p, a)
<1> DEFINE l == d.lists[p]
           i == Place(l, a)
           D == IF i = 0 THEN {d}
                ELSE {[DelAlias(d, a) EXCEPT !.lists[p] = Kept(l, i),
                                      !.fault = IF l[Len(l)].kind = "freed" THEN "freed" ELSE @]}
<1>1. l \in Seq(Text) /\ Distinct(l)
  BY TableFields DEF Fields
<1>2. e \in Searched(d, p, a, D)
  BY DEF DelAliasInternal, Kept
<1>3. CASE e \notin D
  <2> HIDE DEF D
  <2>1. /\ e \in Tables /\ e.fault = "freed" /\ e.user = d.user /\ e.name = d.name
        /\ e.collided = d.collided
    BY <1>2, <1>3, SearchedFacts
  <2> QED BY <2>1
<1>4. CASE i = 0 /\ e = d
  <2>1. ~In(a, l)
    <3> HIDE DEF l
    <3> SUFFICES ASSUME In(a, l) PROVE FALSE
      OBVIOUS
    <3>1. i \in 1..Len(l)
      BY <1>1, PlaceFound
    <3> QED BY <1>4, <3>1
  <2> QED BY <1>4, <2>1
<1>5. CASE i # 0 /\ e = [DelAlias(d, a) EXCEPT !.lists[p] = Kept(l, i),
                             !.fault = IF l[Len(l)].kind = "freed" THEN "freed" ELSE @]
  <2>1. i \in 1..Len(l) /\ l[i] = a /\ i # 1
    <3> HIDE DEF l
    <3>1. In(a, l)
      BY <1>1, <1>5, PlaceNone
    <3>2. i \in 1..Len(l) /\ l[i] = a
      BY <1>1, <3>1, PlaceFound
    <3>3. i # 1
      BY <3>2 DEF l
    <3> QED BY <3>2, <3>3
  <2>2. Kept(l, i) \in Seq(Text)
    BY <1>1, <2>1, KeptFacts
  <2>3. PICK f \in Tables :
          /\ f = DelAlias(d, a) /\ f.lists = d.lists /\ f.user = d.user /\ f.name = d.name
          /\ f.collided = d.collided /\ f.fault = d.fault
          /\ f.tree = [d.tree EXCEPT ![a] = IF @ = <<>> THEN @ ELSE Tail(@)]
    BY DelAliasFacts
  <2>4. PICK k \in Seq(Text) : k = Kept(l, i)
    BY <2>2
  <2>5. PICK g \in Tables :
          /\ g = [f EXCEPT !.lists[p] = k]
          /\ g.tree = f.tree /\ g.lists = [f.lists EXCEPT ![p] = k]
          /\ g.user = f.user /\ g.name = f.name
          /\ g.collided = f.collided /\ g.fault = f.fault
    BY ListChanged
  <2>6. PICK x \in {"none", "freed"} :
          x = IF l[Len(l)].kind = "freed" THEN "freed" ELSE f.fault
    BY <2>3
  <2>7. e = [g EXCEPT !.fault = x]
    BY <1>5, <2>3, <2>4, <2>5, <2>6 DEF Tables
  <2>8. /\ e \in Tables /\ e.user = g.user /\ e.name = g.name /\ e.collided = g.collided
        /\ e.tree = g.tree /\ e.lists = g.lists /\ e.fault = x
    BY <2>7 DEF Tables
  <2>9. ASSUME e.fault = "none" PROVE Closed(d, e, p, a)
    <3>1. l[Len(l)] \in Text /\ l[Len(l)].kind # "freed"
      <4>1. Len(l) \in 1..Len(l)
        BY <1>1, <2>1, LenProperties
      <4>2. l[Len(l)] \in Text
        BY <1>1, <4>1, ElementOfSeq
      <4> QED BY <2>6, <2>8, <2>9, <4>2
    <3>2. l[Len(l)] \in Aliases
      BY <3>1, FreedKinds
    <3> QED BY <2>1, <2>3, <2>4, <2>5, <2>8, <3>2 DEF Closed
  <2> QED BY <2>3, <2>5, <2>8, <2>9
<1>6. e \in D => (i = 0 /\ e = d)
                 \/ (i # 0 /\ e = [DelAlias(d, a) EXCEPT !.lists[p] = Kept(l, i),
                             !.fault = IF l[Len(l)].kind = "freed" THEN "freed" ELSE @])
  OBVIOUS
<1> QED BY <1>3, <1>4, <1>5, <1>6

(* and the renaming of sub_alias_internal. *)
LEMMA SubInternal ==
    ASSUME NEW d \in Tables, d.fault = "none", NEW p \in Peer, NEW a \in Aliases, NEW b \in Aliases,
           a # b, Distinct(d.lists[p]), NEW e \in SubAliasInternal(d, p, a, b)
    PROVE  /\ e \in Tables /\ e.user = d.user /\ e.name = d.name
           /\ d.collided \subseteq e.collided /\ e.collided \subseteq d.collided \cup {b}
           /\ d.tree[b] = <<>> \/ ~In(a, d.lists[p]) => e.collided = d.collided
           /\ e.fault = "none" => \/ ~In(a, d.lists[p]) /\ e = d
                                  \/ Moved(d, e, p, a, b)
<1> DEFINE l == d.lists[p]
           i == Place(l, a)
           D == IF i = 0 THEN {d} ELSE AddAlias([DelAlias(d, a) EXCEPT !.lists[p][i] = b], p, b)
<1>1. l \in Seq(Text) /\ Distinct(l)
  BY TableFields DEF Fields
<1>2. e \in Searched(d, p, a, D)
  BY AliasKinds DEF SubAliasInternal
<1>3. CASE e \notin D
  <2> HIDE DEF D
  <2>1. /\ e \in Tables /\ e.fault = "freed" /\ e.user = d.user /\ e.name = d.name
        /\ e.collided = d.collided
    BY <1>2, <1>3, SearchedFacts
  <2> QED BY <2>1
<1>4. CASE i = 0 /\ e = d
  <2>1. ~In(a, l)
    <3> HIDE DEF l
    <3> SUFFICES ASSUME In(a, l) PROVE FALSE
      OBVIOUS
    <3>1. i \in 1..Len(l)
      BY <1>1, PlaceFound
    <3> QED BY <1>4, <3>1
  <2> QED BY <1>4, <2>1
<1>5. CASE i # 0 /\ e \in AddAlias([DelAlias(d, a) EXCEPT !.lists[p][i] = b], p, b)
  <2>1. i \in 1..Len(l) /\ l[i] = a
    <3> HIDE DEF l
    <3>1. In(a, l)
      BY <1>1, <1>5, PlaceNone
    <3> QED BY <1>1, <3>1, PlaceFound
  <2>2. [l EXCEPT ![i] = b] \in Seq(Text)
    BY <1>1, <2>1, ExceptSeq DEF Text
  <2>3. PICK f \in Tables :
          /\ f = DelAlias(d, a) /\ f.lists = d.lists /\ f.user = d.user /\ f.name = d.name
          /\ f.collided = d.collided /\ f.fault = d.fault
          /\ f.tree = [d.tree EXCEPT ![a] = IF @ = <<>> THEN @ ELSE Tail(@)]
    BY DelAliasFacts
  <2>4. PICK k \in Seq(Text) : k = [l EXCEPT ![i] = b]
    BY <2>2
  <2>5. PICK g \in Tables :
          /\ g = [f EXCEPT !.lists[p] = k]
          /\ g.tree = f.tree /\ g.lists = [f.lists EXCEPT ![p] = k]
          /\ g.user = f.user /\ g.name = f.name
          /\ g.collided = f.collided /\ g.fault = f.fault
    BY ListChanged
  <2>6. g = [DelAlias(d, a) EXCEPT !.lists[p][i] = b]
    BY <2>3, <2>4, <2>5
  <2>7. e \in AddAlias(g, p, b)
    BY <1>5, <2>6
  <2>8. /\ e \in Tables /\ e.lists = g.lists /\ e.user = g.user /\ e.name = g.name
        /\ e.collided \subseteq g.collided \cup {b} /\ g.collided \subseteq e.collided
        /\ g.tree[b] = <<>> => e.collided = g.collided
        /\ e.fault = "none" => /\ e.tree = [g.tree EXCEPT ![b] = <<p>> \o @]
                               /\ g.tree[b] # <<>> => b \in e.collided
    BY <2>7, AddAliasFacts
  <2>9. g.tree[b] = d.tree[b]
    BY <2>3, <2>5, TableFields DEF Fields
  <2>10. ASSUME e.fault = "none" PROVE Moved(d, e, p, a, b)
    <3>1. e.tree = [g.tree EXCEPT ![b] = <<p>> \o @]
      BY <2>8, <2>10
    <3>2. e.tree = [[d.tree EXCEPT ![a] = IF @ = <<>> THEN @ ELSE Tail(@)]
                      EXCEPT ![b] = <<p>> \o @]
      BY <2>3, <2>5, <3>1
    <3>3. e.lists = [d.lists EXCEPT ![p] = [d.lists[p] EXCEPT ![i] = b]]
      BY <2>3, <2>4, <2>5, <2>8
    <3>4. d.tree[b] # <<>> => b \in e.collided
      BY <2>8, <2>9, <2>10
    <3> QED BY <2>1, <3>2, <3>3, <3>4 DEF Moved
  <2>11. In(a, d.lists[p])
    BY <2>1 DEF In
  <2> QED BY <2>3, <2>5, <2>8, <2>9, <2>10, <2>11
<1> QED BY <1>3, <1>4, <1>5

-----------------------------------------------------------------------------
(***************************************************************************)
(* What holds between the tree, the lists and the names, as long as nothing*)
(* went wrong.                                                             *)
(***************************************************************************)

(* A list starts with the peer's number, and no alias is in it twice. *)
ListOK(l, tree, p) ==
    /\ Distinct(l)
    /\ l = <<>> => tree[MainAlias(p)] = <<>>
    /\ l # <<>> => l[1] = MainAlias(p) /\ tree[MainAlias(p)] = <<p>>
    /\ \A q \in Peer : In(MainAlias(q), l) => q = p
ListsOK(d) == \A p \in Peer : ListOK(d.lists[p], d.tree, p)

(* A list has no username or title but the one a peer points to, and has   *)
(* that one unless one of its kind was freed there.                        *)
CurrentOK(K, k, cur, lists) ==
    /\ \A p \in Peer : cur[p] \in K \cup {None}
    /\ \A p \in Peer, a \in K : In(a, lists[p]) => cur[p] = a
    /\ \A p \in Peer : cur[p] # None => In(cur[p], lists[p]) \/ In(FreedOf(k), lists[p])

(* A username that was never given to two peers at once leads to the peer  *)
(* that has it, or to one in whose list a username was freed.              *)
MarkOK(a, entry, lists) ==
    /\ entry = <<>> \/ \E p \in Peer : entry = <<p>>
    /\ \A p \in Peer : In(a, lists[p]) => entry = <<p>>
    /\ \A p \in Peer : entry = <<p>> => In(a, lists[p]) \/ In(FreedOf("@"), lists[p])
UsernamesOK(d) ==
    /\ CurrentOK(Marks, "@", d.user, d.lists)
    /\ \A a \in Marks \ d.collided : MarkOK(a, d.tree[a], d.lists)

(* A title leads to one peer, though maybe twice if one was freed in his   *)
(* list.                                                                   *)
Only(t, p) == \A i \in 1..Len(t) : t[i] = p
HeadingOK(a, entry, lists) ==
    /\ \A p \in Peer : In(a, lists[p]) => entry # <<>> /\ Only(entry, p)
    /\ entry # <<>> =>
         \E p \in Peer : /\ Only(entry, p)
                         /\ In(FreedOf("title"), lists[p]) \/ (entry = <<p>> /\ In(a, lists[p]))
TitlesOK(d) ==
    /\ CurrentOK(Headings, "title", d.name, d.lists)
    /\ \A a \in Headings : HeadingOK(a, d.tree[a], d.lists)

Sound(d) == ListsOK(d) /\ UsernamesOK(d) /\ TitlesOK(d)

(* One entry less. *)
Popped(t) == IF t = <<>> THEN t ELSE Tail(t)

(* Entries of one peer: one more, one less, and the first.                 *)
LEMMA OnlyEntries ==
    ASSUME NEW t \in Seq(Peer), NEW p \in Peer
    PROVE  /\ Only(t, p) => Only(<<p>> \o t, p) /\ Only(Popped(t), p)
           /\ \A q \in Peer : t # <<>> /\ Only(t, p) /\ Only(t, q) => p = q
           /\ \A q \in Peer : t # <<>> /\ Only(t, p) => (q = Head(t) <=> q = p)
           /\ <<p>> \o t # <<>> /\ <<p>> \o <<>> = <<p>>
           /\ Only(<<>>, p) /\ Only(<<p>>, p)
           /\ t = <<p>> => Popped(t) = <<>>
<1>1. Len(t) \in Nat /\ (t # <<>> => 1 \in 1..Len(t) /\ Head(t) = t[1])
  BY LenProperties, EmptySeq
<1>2. /\ <<p>> \o t \in Seq(Peer) /\ Len(<<p>> \o t) = 1 + Len(t)
      /\ \A i \in 1..(1 + Len(t)) : (<<p>> \o t)[i] = IF i = 1 THEN p ELSE t[i - 1]
  OBVIOUS
<1>3. ASSUME Only(t, p) PROVE Only(<<p>> \o t, p)
  <2>1. \A i \in 1..(1 + Len(t)) : i = 1 \/ i - 1 \in 1..Len(t)
    BY <1>1
  <2> QED BY <1>2, <1>3, <2>1 DEF Only
<1>4. ASSUME Only(t, p) PROVE Only(Popped(t), p)
  <2>1. CASE t = <<>>
    BY <1>4, <2>1 DEF Popped
  <2>2. CASE t # <<>>
    <3>1. /\ Tail(t) \in Seq(Peer) /\ Len(Tail(t)) = Len(t) - 1
          /\ \A i \in 1..(Len(t) - 1) : Tail(t)[i] = t[i + 1]
      BY <2>2, HeadTailProperties
    <3>2. \A i \in 1..(Len(t) - 1) : i + 1 \in 1..Len(t)
      BY <1>1
    <3> QED BY <1>4, <2>2, <3>1, <3>2 DEF Only, Popped
  <2> QED BY <2>1, <2>2
<1>5. Only(<<>>, p) /\ Only(<<p>>, p)
  <2>1. Len(<<>>) = 0 /\ Len(<<p>>) = 1 /\ <<p>>[1] = p
    OBVIOUS
  <2>2. (\A i \in 1..0 : FALSE) /\ (\A i \in 1..1 : i = 1)
    OBVIOUS
  <2> QED BY <2>1, <2>2 DEF Only
<1>6. <<p>> \o t # <<>> /\ <<p>> \o <<>> = <<p>>
  BY <1>1, <1>2
<1>7. t = <<p>> => Popped(t) = <<>>
  BY DEF Popped
<1>8. \A q \in Peer : t # <<>> /\ Only(t, p) /\ Only(t, q) => p = q
  BY <1>1 DEF Only
<1>9. \A q \in Peer : t # <<>> /\ Only(t, p) => (q = Head(t) <=> q = p)
  BY <1>1 DEF Only
<1> QED BY <1>3, <1>4, <1>5, <1>6, <1>7, <1>8, <1>9

(* What the change of a peer's alias from a to b, each of which may be     *)
(* NULL, does to his list and to the tree.                                 *)
Changed(d, e, p, a, b) ==
    /\ \A q \in Peer : q # p => e.lists[q] = d.lists[q]
    /\ Distinct(e.lists[p]) /\ e.lists[p] # <<>> /\ e.lists[p][1] = d.lists[p][1]
    /\ \A c \in Aliases : In(c, e.lists[p]) => c = b \/ (In(c, d.lists[p]) /\ c # a)
    /\ b # None => In(b, e.lists[p])
    /\ \A c \in Aliases : In(c, d.lists[p]) /\ c # a =>
         In(c, e.lists[p]) \/ In(FreedOf(c.kind), e.lists[p])
    /\ \A k \in Sorts : In(FreedOf(k), d.lists[p]) => In(FreedOf(k), e.lists[p])
    /\ \A c \in Aliases : c \notin {a, b} => e.tree[c] = d.tree[c]
    /\ a # None => In(a, d.lists[p]) /\ e.tree[a] = Popped(d.tree[a])
    /\ b # None => /\ e.tree[b] = <<p>> \o d.tree[b]
                   /\ d.tree[b] # <<>> => b \in e.collided

(* One alias more, *)
LEMMA OpenedEffect ==
    ASSUME NEW d \in Tables, NEW e \in Tables, NEW p \in Peer, NEW b \in Aliases,
           Opened(d, e, p, b), Distinct(d.lists[p]), ~In(b, d.lists[p])
    PROVE  /\ d.lists[p] # <<>> => Changed(d, e, p, None, b)
           /\ \A q \in Peer : q # p => e.lists[q] = d.lists[q]
           /\ Distinct(e.lists[p]) /\ e.lists[p] # <<>>
           /\ \A c : In(c, e.lists[p]) <=> In(c, d.lists[p]) \/ c = b
           /\ d.lists[p] = <<>> => e.lists[p][1] = b
           /\ \A c \in Aliases : c # b => e.tree[c] = d.tree[c]
           /\ d.tree[b] = <<>> => e.tree[b] = <<p>>
<1>1. d.lists \in [Peer -> Seq(Text)] /\ d.tree \in [Aliases -> Seq(Peer)]
  BY TableFields DEF Fields
<1>2. PICK l \in Seq(Text) : l = d.lists[p]
  BY <1>1
<1>3. e.lists[p] = Append(l, b) /\ \A q \in Peer : q # p => e.lists[q] = d.lists[q]
  BY <1>1, <1>2 DEF Opened
<1>4. e.tree[b] = <<p>> \o d.tree[b] /\ \A c \in Aliases : c # b => e.tree[c] = d.tree[c]
  BY <1>1 DEF Opened
<1>5. <<p>> \o <<>> = <<p>>
  OBVIOUS
<1>6. /\ Append(l, b) # <<>> /\ Distinct(Append(l, b))
      /\ \A c : In(c, Append(l, b)) <=> In(c, l) \/ c = b
      /\ l # <<>> => Append(l, b)[1] = l[1]
      /\ l = <<>> => Append(l, b)[1] = b
  BY <1>2, Longer
<1>7. d.tree[b] # <<>> => b \in e.collided
  BY DEF Opened
<1>8. ASSUME d.lists[p] # <<>> PROVE Changed(d, e, p, None, b)
  <2>1. None \notin Aliases /\ \A s \in Sorts : FreedOf(s) # b
    BY AliasKinds, FreedKinds
  <2>2. PICK k : k = Append(l, b)
    OBVIOUS
  <2>3. /\ \A c \in Aliases : In(c, k) => c = b \/ (In(c, l) /\ c # None)
        /\ \A c \in Aliases : In(c, l) => In(c, k)
        /\ \A s \in Sorts : In(FreedOf(s), l) => In(FreedOf(s), k)
        /\ k # <<>> /\ Distinct(k) /\ k[1] = l[1] /\ In(b, k)
    BY <1>2, <1>6, <1>8, <2>1, <2>2
  <2>4. e.lists[p] = k /\ d.lists[p] = l
    BY <1>2, <1>3, <2>2
  <2> QED BY <1>3, <1>4, <1>7, <2>3, <2>4 DEF Changed
<1> QED BY <1>2, <1>3, <1>4, <1>5, <1>6, <1>8

(* one less, *)
LEMMA ClosedEffect ==
    ASSUME NEW d \in Tables, NEW e \in Tables, NEW p \in Peer, NEW a \in Aliases,
           Closed(d, e, p, a), Distinct(d.lists[p]), d.lists[p][1] # a
    PROVE  Changed(d, e, p, a, None)
<1>1. d.lists \in [Peer -> Seq(Text)] /\ d.tree \in [Aliases -> Seq(Peer)]
  BY TableFields DEF Fields
<1>2. PICK l \in Seq(Text) : l = d.lists[p]
  BY <1>1
<1>3. PICK i \in 1..Len(l) : /\ l[i] = a /\ l[Len(l)] \in Aliases
                             /\ e.lists = [d.lists EXCEPT ![p] = Kept(l, i)]
  BY <1>2 DEF Closed
<1>4. e.lists[p] = Kept(l, i) /\ \A q \in Peer : q # p => e.lists[q] = d.lists[q]
  BY <1>1, <1>3
<1>5. e.tree[a] = Popped(d.tree[a]) /\ \A c \in Aliases : c # a => e.tree[c] = d.tree[c]
  BY <1>1 DEF Closed, Popped
<1>6. i # 1 /\ l[i] \in Aliases /\ Distinct(l) /\ In(a, l)
  BY <1>2, <1>3 DEF In
<1>7. PICK k : k = Kept(l, i)
  OBVIOUS
<1>8. /\ k # <<>> /\ Distinct(k) /\ k[1] = l[1]
      /\ \A c \in Aliases : In(c, k) => In(c, l) /\ c # l[i]
      /\ \A c \in Aliases : In(c, l) /\ c # l[i] => In(c, k) \/ In(FreedOf(c.kind), k)
      /\ \A s \in Sorts : In(FreedOf(s), l) => In(FreedOf(s), k)
  BY <1>3, <1>6, <1>7, Shorter
<1>9. e.lists[p] = k /\ d.lists[p] = l
  BY <1>2, <1>4, <1>7
<1> QED BY <1>3, <1>4, <1>5, <1>6, <1>8, <1>9 DEF Changed

(* and one in the place of another.                                        *)
LEMMA MovedEffect ==
    ASSUME NEW d \in Tables, NEW e \in Tables, NEW p \in Peer, NEW a \in Aliases,
           NEW b \in Aliases, a # b, Moved(d, e, p, a, b), Distinct(d.lists[p]),
           ~In(b, d.lists[p]), d.lists[p][1] # a
    PROVE  Changed(d, e, p, a, b)
<1>1. d.lists \in [Peer -> Seq(Text)] /\ d.tree \in [Aliases -> Seq(Peer)]
  BY TableFields DEF Fields
<1>2. PICK l \in Seq(Text) : l = d.lists[p]
  BY <1>1
<1>3. PICK i \in 1..Len(l) : l[i] = a /\ e.lists = [d.lists EXCEPT ![p] = [l EXCEPT ![i] = b]]
  BY <1>2 DEF Moved
<1>4. PICK k : k = [l EXCEPT ![i] = b]
  OBVIOUS
<1>5. e.lists[p] = k /\ \A q \in Peer : q # p => e.lists[q] = d.lists[q]
  BY <1>1, <1>3, <1>4
<1>6. /\ e.tree[a] = Popped(d.tree[a]) /\ e.tree[b] = <<p>> \o d.tree[b]
      /\ \A c \in Aliases : c \notin {a, b} => e.tree[c] = d.tree[c]
  BY <1>1 DEF Moved, Popped
<1>7. i # 1 /\ l[i] \in Aliases /\ Distinct(l) /\ ~In(b, l)
  BY <1>2, <1>3
<1>8. /\ k \in Seq(Text) /\ Distinct(k) /\ Len(k) = Len(l)
      /\ \A c : In(c, k) <=> c = b \/ (In(c, l) /\ c # l[i])
      /\ i # 1 => k[1] = l[1]
  BY <1>4, <1>7, Replaced
<1>9. Len(l) # 0 /\ k # <<>>
  <2>1. Len(l) \in Nat
    BY LenProperties
  <2> QED BY <1>8, <2>1
<1>10. In(a, l)
  BY <1>3 DEF In
<1>11. d.tree[b] # <<>> => b \in e.collided
  BY DEF Moved
<1>12. \A s \in Sorts : FreedOf(s) # a /\ FreedOf(s) # b
  BY FreedKinds
<1>13. \A s \in Sorts : In(FreedOf(s), l) => In(FreedOf(s), k)
  BY <1>3, <1>8, <1>12
<1>14. \A c \in Aliases : In(c, k) => c = b \/ (In(c, l) /\ c # a)
  BY <1>3, <1>8
<1>15. In(b, k) /\ \A c \in Aliases : In(c, l) /\ c # a => In(c, k)
  BY <1>3, <1>8
<1>16. k[1] = l[1] /\ d.lists[p] = l
  BY <1>2, <1>7, <1>8
<1> QED BY <1>5, <1>6, <1>8, <1>9, <1>10, <1>11, <1>13, <1>14, <1>15, <1>16 DEF Changed

(* Freed texts are the only reason for which a change of alias is missed.  *)
LEMMA SubEffect ==
    ASSUME NEW d \in Tables, d.fault = "none", NEW p \in Peer, Distinct(d.lists[p]),
           d.lists[p] # <<>>, NEW a \in Aliases \cup {None}, NEW b \in Aliases \cup {None}, a # b,
           d.lists[p][1] # a, b # None => ~In(b, d.lists[p]), NEW e \in SubAliasInternal(d, p, a, b)
    PROVE  /\ e \in Tables /\ e.user = d.user /\ e.name = d.name
           /\ d.collided \subseteq e.collided
           /\ e.fault = "none" => \/ a # None /\ ~In(a, d.lists[p]) /\ e = d
                                  \/ Changed(d, e, p, a, b)
<1>0. None \notin Aliases
  BY AliasKinds
<1>1. CASE a = None
  <2>1. b \in Aliases /\ ~In(b, d.lists[p]) /\ e \in AddAliasInternal(d, p, b)
    BY <1>1 DEF SubAliasInternal
  <2>2. /\ e \in Tables /\ e.user = d.user /\ e.name = d.name
        /\ d.collided \subseteq e.collided /\ (e.fault = "none" => Opened(d, e, p, b))
    BY <2>1, AddInternal
  <2>3. Opened(d, e, p, b) => Changed(d, e, p, None, b)
    BY <2>1, <2>2, OpenedEffect
  <2> QED BY <1>1, <2>2, <2>3
<1>2. CASE a # None /\ b = None
  <2>1. a \in Aliases /\ e \in DelAliasInternal(d, p, a)
    BY <1>2 DEF SubAliasInternal
  <2>2. /\ e \in Tables /\ e.user = d.user /\ e.name = d.name /\ e.collided = d.collided
        /\ e.fault = "none" => \/ ~In(a, d.lists[p]) /\ e = d
                               \/ Closed(d, e, p, a)
    BY <2>1, DelInternal
  <2>3. Closed(d, e, p, a) => Changed(d, e, p, a, None)
    BY <2>1, <2>2, ClosedEffect
  <2> QED BY <1>2, <2>2, <2>3
<1>3. CASE a # None /\ b # None
  <2>1. a \in Aliases /\ b \in Aliases /\ ~In(b, d.lists[p])
    BY <1>3
  <2>2. /\ e \in Tables /\ e.user = d.user /\ e.name = d.name
        /\ d.collided \subseteq e.collided
        /\ e.fault = "none" => \/ ~In(a, d.lists[p]) /\ e = d
                               \/ Moved(d, e, p, a, b)
    BY <2>1, SubInternal
  <2>3. Moved(d, e, p, a, b) => Changed(d, e, p, a, b)
    BY <2>1, <2>2, MovedEffect
  <2> QED BY <1>3, <2>2, <2>3
<1> QED BY <1>1, <1>2, <1>3

(* What does not touch the numbers keeps the lists in order, *)
LEMMA ListsKept ==
    ASSUME NEW d \in Tables, NEW e \in Tables, ListsOK(d), NEW p \in Peer, d.lists[p] # <<>>,
           NEW a \in Marks \cup Headings \cup {None}, NEW b \in Marks \cup Headings \cup {None},
           Changed(d, e, p, a, b)
    PROVE  ListsOK(e)
<1>1. \A q \in Peer : MainAlias(q) \in Aliases /\ MainAlias(q) \notin {a, b}
  BY AliasKinds
<1>2. \A q \in Peer : e.tree[MainAlias(q)] = d.tree[MainAlias(q)]
  BY <1>1 DEF Changed
<1>3. \A q \in Peer : In(MainAlias(q), e.lists[p]) => q = p
  <2>1. \A q \in Peer : In(MainAlias(q), d.lists[p]) => q = p
    BY DEF ListsOK, ListOK
  <2>2. \A c \in Aliases : In(c, e.lists[p]) => c = b \/ (In(c, d.lists[p]) /\ c # a)
    BY DEF Changed
  <2> QED BY <1>1, <2>1, <2>2
<1>4. ListOK(e.lists[p], e.tree, p)
  <2>1. /\ Distinct(e.lists[p]) /\ e.lists[p] # <<>> /\ e.lists[p][1] = d.lists[p][1]
    BY DEF Changed
  <2>2. d.lists[p][1] = MainAlias(p) /\ d.tree[MainAlias(p)] = <<p>>
    BY DEF ListsOK, ListOK
  <2> QED BY <1>2, <1>3, <2>1, <2>2 DEF ListOK
<1>5. ASSUME NEW q \in Peer, q # p PROVE ListOK(e.lists[q], e.tree, q)
  <2>1. e.lists[q] = d.lists[q] /\ ListOK(d.lists[q], d.tree, q)
    BY <1>5 DEF ListsOK, Changed
  <2> QED BY <1>2, <2>1 DEF ListOK
<1> QED BY <1>4, <1>5 DEF ListsOK

(* A change of one kind keeps the aliases of the other in their lists,     *)
LEMMA CurrentKept ==
    ASSUME NEW d \in Tables, NEW e \in Tables, NEW p \in Peer, NEW a, NEW b, Changed(d, e, p, a, b),
           NEW K \in SUBSET Aliases, NEW k \in Sorts, \A c \in K : c.kind = k, a \notin K, b \notin K,
           NEW cur, CurrentOK(K, k, cur, d.lists)
    PROVE  CurrentOK(K, k, cur, e.lists)
<1>1. \A c \in Aliases : In(c, e.lists[p]) => c = b \/ (In(c, d.lists[p]) /\ c # a)
  BY DEF Changed
<1>2. \A c \in Aliases : In(c, d.lists[p]) /\ c # a =>
         In(c, e.lists[p]) \/ In(FreedOf(c.kind), e.lists[p])
  BY DEF Changed
<1>3. In(FreedOf(k), d.lists[p]) => In(FreedOf(k), e.lists[p])
  BY DEF Changed
<1>4. \A q \in Peer : q # p => e.lists[q] = d.lists[q]
  BY DEF Changed
<1>5. \A q \in Peer : cur[q] \in K \cup {None}
  BY DEF CurrentOK
<1>6. ASSUME NEW q \in Peer, NEW c \in K, In(c, e.lists[q]) PROVE cur[q] = c
  <2>1. In(c, d.lists[q])
    BY <1>1, <1>4, <1>6
  <2> QED BY <2>1 DEF CurrentOK
<1>7. ASSUME NEW q \in Peer, cur[q] # None
      PROVE  In(cur[q], e.lists[q]) \/ In(FreedOf(k), e.lists[q])
  <2>1. In(cur[q], d.lists[q]) \/ In(FreedOf(k), d.lists[q])
    BY <1>7 DEF CurrentOK
  <2>2. cur[q] \in K /\ cur[q] \in Aliases /\ cur[q].kind = k /\ cur[q] # a
    BY <1>5, <1>7
  <2> QED BY <1>2, <1>3, <1>4, <2>1, <2>2
<1> QED BY <1>5, <1>6, <1>7 DEF CurrentOK

(* and so does one of the kind itself, which ends as what it points to.    *)
LEMMA CurrentChanged ==
    ASSUME NEW d \in Tables, NEW e \in Tables, NEW p \in Peer,
           NEW K \in SUBSET Aliases, NEW k \in Sorts, NEW b \in K \cup {None},
           NEW cur \in [Peer -> Aliases \cup {None}], CurrentOK(K, k, cur, d.lists),
           NEW new, new = [cur EXCEPT ![p] = b],
           \/ Changed(d, e, p, cur[p], b)
           \/ cur[p] # None /\ ~In(cur[p], d.lists[p]) /\ e = d
    PROVE  CurrentOK(K, k, new, e.lists)
<1>1. new[p] = b /\ \A q \in Peer : q # p => new[q] = cur[q]
  OBVIOUS
<1>2. \A q \in Peer : q # p => e.lists[q] = d.lists[q]
  BY DEF Changed
<1>3. \A q \in Peer : new[q] \in K \cup {None}
  BY <1>1 DEF CurrentOK
<1>4. ASSUME NEW q \in Peer, q # p
      PROVE  /\ \A c \in K : In(c, e.lists[q]) => new[q] = c
             /\ new[q] # None => In(new[q], e.lists[q]) \/ In(FreedOf(k), e.lists[q])
  BY <1>1, <1>2, <1>4 DEF CurrentOK
<1>5. \A c \in K : In(c, d.lists[p]) => cur[p] = c
  BY DEF CurrentOK
<1>6. CASE Changed(d, e, p, cur[p], b)
  <2>1. \A c \in Aliases : In(c, e.lists[p]) => c = b \/ (In(c, d.lists[p]) /\ c # cur[p])
    BY <1>6 DEF Changed
  <2>2. b # None => In(b, e.lists[p])
    BY <1>6 DEF Changed
  <2>3. \A c \in K : In(c, e.lists[p]) => b = c
    BY <1>5, <2>1
  <2> QED BY <1>1, <1>3, <1>4, <2>2, <2>3 DEF CurrentOK
<1>7. CASE cur[p] # None /\ ~In(cur[p], d.lists[p]) /\ e = d
  <2>1. In(FreedOf(k), e.lists[p])
    BY <1>7 DEF CurrentOK
  <2>2. \A c \in K : ~In(c, e.lists[p])
    BY <1>5, <1>7
  <2> QED BY <1>1, <1>3, <1>4, <2>1, <2>2 DEF CurrentOK
<1> QED BY <1>6, <1>7

(* A change of titles keeps usernames, *)
LEMMA UsernamesKept ==
    ASSUME NEW d \in Tables, NEW e \in Tables, UsernamesOK(d), NEW p \in Peer,
           NEW a \in Headings \cup {None}, NEW b \in Headings \cup {None},
           Changed(d, e, p, a, b), e.user = d.user, d.collided \subseteq e.collided
    PROVE  UsernamesOK(e)
<1>1. a \notin Marks /\ b \notin Marks /\ Marks \in SUBSET Aliases /\ "@" \in Sorts
      /\ \A c \in Marks : c.kind = "@"
  BY AliasKinds DEF Sorts
<1>2. CurrentOK(Marks, "@", e.user, e.lists)
  <2>1. CurrentOK(Marks, "@", d.user, d.lists)
    BY DEF UsernamesOK
  <2> QED BY <1>1, <2>1, CurrentKept
<1>3. ASSUME NEW c \in Marks \ e.collided PROVE MarkOK(c, e.tree[c], e.lists)
  <2>1. MarkOK(c, d.tree[c], d.lists)
    BY DEF UsernamesOK
  <2>2. e.tree[c] = d.tree[c]
    BY <1>1 DEF Changed
  <2>3. \A q \in Peer : In(c, e.lists[q]) => In(c, d.lists[q])
    BY <1>1 DEF Changed
  <2>4. \A q \in Peer : In(FreedOf("@"), d.lists[q]) => In(FreedOf("@"), e.lists[q])
    BY <1>1 DEF Changed
  <2>5. \A q \in Peer : In(c, d.lists[q]) => In(c, e.lists[q]) \/ In(FreedOf("@"), e.lists[q])
    BY <1>1 DEF Changed
  <2> QED BY <2>1, <2>2, <2>3, <2>4, <2>5 DEF MarkOK
<1> QED BY <1>2, <1>3 DEF UsernamesOK

(* and one of usernames keeps titles.                                      *)
LEMMA TitlesKept ==
    ASSUME NEW d \in Tables, NEW e \in Tables, TitlesOK(d), NEW p \in Peer,
           NEW a \in Marks \cup {None}, NEW b \in Marks \cup {None},
           Changed(d, e, p, a, b), e.name = d.name
    PROVE  TitlesOK(e)
<1>1. a \notin Headings /\ b \notin Headings /\ Headings \in SUBSET Aliases /\ "title" \in Sorts
      /\ \A c \in Headings : c.kind = "title"
  BY AliasKinds DEF Sorts
<1>2. CurrentOK(Headings, "title", e.name, e.lists)
  <2>1. CurrentOK(Headings, "title", d.name, d.lists)
    BY DEF TitlesOK
  <2> QED BY <1>1, <2>1, CurrentKept
<1>3. ASSUME NEW c \in Headings PROVE HeadingOK(c, e.tree[c], e.lists)
  <2>1. HeadingOK(c, d.tree[c], d.lists)
    BY DEF TitlesOK
  <2>2. e.tree[c] = d.tree[c]
    BY <1>1 DEF Changed
  <2>3. \A q \in Peer : In(c, e.lists[q]) => In(c, d.lists[q])
    BY <1>1 DEF Changed
  <2>4. \A q \in Peer : In(FreedOf("title"), d.lists[q]) => In(FreedOf("title"), e.lists[q])
    BY <1>1 DEF Changed
  <2>5. \A q \in Peer : In(c, d.lists[q]) => In(c, e.lists[q]) \/ In(FreedOf("title"), e.lists[q])
    BY <1>1 DEF Changed
  <2> QED BY <2>1, <2>2, <2>3, <2>4, <2>5 DEF HeadingOK
<1> QED BY <1>2, <1>3 DEF TitlesOK

(* P->username_alias and P->name_alias. *)
LEMMA UserWritten ==
    ASSUME NEW f \in Tables, NEW p \in Peer, NEW b \in Aliases \cup {None}
    PROVE  LET e == [f EXCEPT !.user[p] = b] IN
           /\ e \in Tables /\ e.tree = f.tree /\ e.lists = f.lists /\ e.name = f.name
           /\ e.fault = f.fault /\ e.collided = f.collided
           /\ e.user = [f.user EXCEPT ![p] = b]
<1> DEFINE u == [f.user EXCEPT ![p] = b]
           e == [f EXCEPT !.user = u]
<1>1. u \in [Peer -> Aliases \cup {None}]
  BY TableFields DEF Fields
<1> HIDE DEF u
<1>2. /\ e \in Tables /\ e.tree = f.tree /\ e.lists = f.lists /\ e.name = f.name
      /\ e.fault = f.fault /\ e.collided = f.collided /\ e.user = u
  BY <1>1 DEF Tables
<1> QED BY <1>2 DEF u

(* and of P->name_alias the same.                                          *)
LEMMA NameWritten ==
    ASSUME NEW f \in Tables, NEW p \in Peer, NEW b \in Aliases \cup {None}
    PROVE  LET e == [f EXCEPT !.name[p] = b] IN
           /\ e \in Tables /\ e.tree = f.tree /\ e.lists = f.lists /\ e.user = f.user
           /\ e.fault = f.fault /\ e.collided = f.collided
           /\ e.name = [f.name EXCEPT ![p] = b]
<1> DEFINE u == [f.name EXCEPT ![p] = b]
           e == [f EXCEPT !.name = u]
<1>1. u \in [Peer -> Aliases \cup {None}]
  BY TableFields DEF Fields
<1> HIDE DEF u
<1>2. /\ e \in Tables /\ e.tree = f.tree /\ e.lists = f.lists /\ e.user = f.user
      /\ e.fault = f.fault /\ e.collided = f.collided /\ e.name = u
  BY <1>1 DEF Tables
<1> QED BY <1>2 DEF u

(* A username that gives way to another one, or comes, or goes. *)
LEMMA UsernameChanged ==
    ASSUME NEW d \in Tables, NEW e \in Tables, UsernamesOK(d), NEW p \in Peer,
           NEW b \in Marks \cup {None}, d.user[p] # b, Changed(d, e, p, d.user[p], b),
           NEW new, new = [d.user EXCEPT ![p] = b], d.collided \subseteq e.collided,
           NEW x \in Tables, x.tree = e.tree, x.lists = e.lists, x.user = new,
           x.collided = e.collided
    PROVE  UsernamesOK(x)
<1>0. PICK a \in Aliases \cup {None} : a = d.user[p]
  BY TableFields DEF Fields
<1>1. /\ Marks \in SUBSET Aliases /\ "@" \in Sorts /\ d.user \in [Peer -> Aliases \cup {None}]
      /\ None \notin Aliases /\ CurrentOK(Marks, "@", d.user, d.lists)
  BY AliasKinds, TableFields DEF Sorts, Fields, UsernamesOK
<1>2. CurrentOK(Marks, "@", x.user, x.lists)
  BY <1>1, CurrentChanged
<1>3. ASSUME NEW c \in Marks \ e.collided PROVE MarkOK(c, e.tree[c], e.lists)
  <2>1. c \in Aliases /\ c # None /\ MarkOK(c, d.tree[c], d.lists)
    BY <1>1 DEF UsernamesOK
  <2>2. \A q \in Peer : q # p => e.lists[q] = d.lists[q]
    BY DEF Changed
  <2>3. In(c, e.lists[p]) => c = b \/ (In(c, d.lists[p]) /\ c # a)
    BY <1>0, <2>1 DEF Changed
  <2>4. /\ In(FreedOf("@"), d.lists[p]) => In(FreedOf("@"), e.lists[p])
        /\ In(c, d.lists[p]) => c = a
    BY <1>0, <1>1 DEF Changed, CurrentOK
  <2>5. /\ \A q, r \in Peer : <<q>> = <<r>> => q = r
        /\ \A q \in Peer : <<q>> # <<>> /\ Popped(<<q>>) = <<>>
        /\ Popped(<<>>) = <<>>
    BY DEF Popped
  <2>6. CASE c = a
    <3>1. In(c, d.lists[p]) /\ e.tree[c] = Popped(d.tree[c]) /\ a # b
      BY <1>0, <2>1, <2>6 DEF Changed
    <3>2. d.tree[c] = <<p>> /\ e.tree[c] = <<>>
      BY <2>1, <2>5, <3>1 DEF MarkOK
    <3>3. \A q \in Peer : ~In(c, e.lists[q])
      BY <2>1, <2>2, <2>3, <2>5, <2>6, <3>1, <3>2 DEF MarkOK
    <3> QED BY <2>5, <3>2, <3>3 DEF MarkOK
  <2>7. CASE c = b
    <3>1. d.tree[c] = <<>> /\ e.tree[c] = <<p>> /\ In(c, e.lists[p])
      <4>1. b # None
        BY <2>1, <2>7
      <4>2. /\ In(b, e.lists[p]) /\ e.tree[b] = <<p>> \o d.tree[b]
            /\ d.tree[b] # <<>> => b \in e.collided
        BY <4>1 DEF Changed
      <4>3. d.tree[c] = <<>>
        BY <2>7, <4>2
      <4>4. <<p>> \o <<>> = <<p>>
        OBVIOUS
      <4> QED BY <2>7, <4>2, <4>3, <4>4
    <3>2. \A q \in Peer : ~In(c, d.lists[q])
      BY <2>1, <2>5, <3>1 DEF MarkOK
    <3> QED BY <2>2, <2>5, <3>1, <3>2 DEF MarkOK
  <2>8. CASE c \notin {a, b}
    <3>1. e.tree[c] = d.tree[c] /\ ~In(c, e.lists[p]) /\ ~In(c, d.lists[p])
      BY <1>0, <2>1, <2>3, <2>4, <2>8 DEF Changed
    <3> QED BY <2>1, <2>2, <2>4, <3>1 DEF MarkOK
  <2> QED BY <2>6, <2>7, <2>8
<1> QED BY <1>2, <1>3 DEF UsernamesOK

(* A title that gives way to another one, or comes, or goes: the new one   *)
(* had no entry or those of the peer.                                      *)
LEMMA TitleChanged ==
    ASSUME NEW d \in Tables, NEW e \in Tables, TitlesOK(d), NEW p \in Peer,
           NEW b \in Headings \cup {None}, d.name[p] # b, Changed(d, e, p, d.name[p], b),
           NEW new, new = [d.name EXCEPT ![p] = b],
           b # None => d.tree[b] = <<>> \/ Head(d.tree[b]) = p,
           NEW x \in Tables, x.tree = e.tree, x.lists = e.lists, x.name = new
    PROVE  TitlesOK(x)
<1>0. PICK a \in Aliases \cup {None} : a = d.name[p]
  BY TableFields DEF Fields
<1>1. /\ Headings \in SUBSET Aliases /\ "title" \in Sorts /\ d.name \in [Peer -> Aliases \cup {None}]
      /\ None \notin Aliases /\ CurrentOK(Headings, "title", d.name, d.lists)
  BY AliasKinds, TableFields DEF Sorts, Fields, TitlesOK
<1>2. CurrentOK(Headings, "title", x.name, x.lists)
  BY <1>1, CurrentChanged
<1>3. ASSUME NEW c \in Headings PROVE HeadingOK(c, e.tree[c], e.lists)
  <2>1. c \in Aliases /\ c # None /\ HeadingOK(c, d.tree[c], d.lists)
    BY <1>1 DEF TitlesOK
  <2>2. \A q \in Peer : q # p => e.lists[q] = d.lists[q]
    BY DEF Changed
  <2>3. In(c, e.lists[p]) => c = b \/ (In(c, d.lists[p]) /\ c # a)
    BY <1>0, <2>1 DEF Changed
  <2>4. /\ In(FreedOf("title"), d.lists[p]) => In(FreedOf("title"), e.lists[p])
        /\ In(c, d.lists[p]) => c = a
    BY <1>0, <1>1 DEF Changed, CurrentOK
  <2>5. PICK t \in Seq(Peer) : t = d.tree[c]
    BY <2>1, TableFields DEF Fields
  <2>6. CASE c = a
    <3>1. In(c, d.lists[p]) /\ e.tree[c] = Popped(t) /\ a # b
      BY <1>0, <2>1, <2>5, <2>6 DEF Changed
    <3>2. t # <<>> /\ Only(t, p)
      BY <2>1, <2>5, <3>1 DEF HeadingOK
    <3>3. Only(e.tree[c], p)
      <4>1. Only(Popped(t), p)
        BY <3>2, OnlyEntries
      <4> QED BY <3>1, <4>1
    <3>4. ASSUME NEW q \in Peer PROVE ~In(c, e.lists[q])
      <4>1. CASE q = p
        BY <2>3, <2>6, <3>1, <4>1
      <4>2. CASE q # p
        <5>1. In(c, d.lists[q]) => Only(t, q)
          BY <2>1, <2>5 DEF HeadingOK
        <5> QED BY <2>2, <3>2, <4>2, <5>1, OnlyEntries
      <4> QED BY <4>1, <4>2
    <3>5. ASSUME e.tree[c] # <<>> PROVE In(FreedOf("title"), e.lists[p])
      <4>1. t # <<p>>
        BY <3>1, <3>5, OnlyEntries
      <4>2. PICK q \in Peer : Only(t, q) /\ (In(FreedOf("title"), d.lists[q]) \/ t = <<q>>)
        BY <2>1, <2>5, <3>2 DEF HeadingOK
      <4>3. q = p
        BY <3>2, <4>2, OnlyEntries
      <4> QED BY <2>4, <4>1, <4>2, <4>3
    <3> QED BY <3>3, <3>4, <3>5 DEF HeadingOK
  <2>7. CASE c = b
    <3>1. In(c, e.lists[p]) /\ e.tree[c] = <<p>> \o t /\ (t = <<>> \/ Head(t) = p)
      BY <2>1, <2>5, <2>7 DEF Changed
    <3>2. ASSUME t # <<>> PROVE Only(t, p) /\ In(FreedOf("title"), e.lists[p])
      <4>1. PICK q \in Peer : /\ Only(t, q)
                              /\ \/ In(FreedOf("title"), d.lists[q])
                                 \/ t = <<q>> /\ In(c, d.lists[q])
        BY <2>1, <2>5, <3>2 DEF HeadingOK
      <4>2. q = p
        BY <3>1, <3>2, <4>1, OnlyEntries
      <4>3. c # a
        BY <1>0, <2>7
      <4> QED BY <2>4, <4>1, <4>2, <4>3
    <3>3. e.tree[c] # <<>> /\ Only(e.tree[c], p) /\ (t = <<>> => e.tree[c] = <<p>>)
      <4>1. Only(t, p)
        <5>1. Only(<<>>, p)
          BY OnlyEntries
        <5>2. CASE t = <<>>
          BY <5>1, <5>2
        <5> QED BY <3>2, <5>2
      <4> QED BY <3>1, <4>1, OnlyEntries
    <3>4. ASSUME NEW q \in Peer, In(c, e.lists[q]) PROVE q = p
      <4>1. SUFFICES ASSUME q # p PROVE FALSE
        OBVIOUS
      <4>2. In(c, d.lists[q])
        BY <2>2, <3>4, <4>1
      <4>3. t # <<>> /\ Only(t, q)
        BY <2>1, <2>5, <4>2 DEF HeadingOK
      <4> QED BY <3>2, <4>1, <4>3, OnlyEntries
    <3> QED BY <3>1, <3>2, <3>3, <3>4 DEF HeadingOK
  <2>8. CASE c \notin {a, b}
    <3>1. e.tree[c] = d.tree[c] /\ ~In(c, e.lists[p]) /\ ~In(c, d.lists[p])
      BY <1>0, <2>1, <2>3, <2>4, <2>8 DEF Changed
    <3> QED BY <2>1, <2>2, <2>4, <3>1 DEF HeadingOK
  <2> QED BY <2>6, <2>7, <2>8
<1> QED BY <1>2, <1>3 DEF TitlesOK

(* What SetUsername, SetName and a peer's first alias have in common.      *)
Shaped(d, e) == /\ e \in Tables /\ d.collided \subseteq e.collided
                /\ e.fault = "none" => Sound(e)

(* A step from one table to another that went well, or ended the client.   *)
Went(d, e, p) == Shaped(d, e) /\ (e.fault = "none" => e.lists[p] # <<>>)

(* Two steps that went well make one.                                      *)
LEMMA WentOn ==
    ASSUME NEW d \in Tables, NEW e, NEW f, NEW p \in Peer, Went(d, e, p), Went(e, f, p)
    PROVE  Went(d, f, p)
BY DEF Went, Shaped

(* A username is set. *)
LEMMA SetUsernameStep ==
    ASSUME NEW d \in Tables, d.fault = "none", Sound(d), NEW p \in Peer, d.lists[p] # <<>>,
           NEW w \in Usernames \cup {None}, NEW e \in SetUsername(d, p, w)
    PROVE  /\ Went(d, e, p) /\ e.name = d.name
           /\ e.user = [d.user EXCEPT ![p] = UsernameAlias(w)]
<1>0. TitlesOK(d) /\ UsernamesOK(d) /\ ListsOK(d)
  BY DEF Sound
<1>1. PICK b \in Marks \cup {None} : b = UsernameAlias(w)
  BY MarkOf
<1>2. PICK a \in Marks \cup {None} : a = d.user[p]
  BY <1>0 DEF UsernamesOK, CurrentOK
<1>3. PICK f \in SubAliasInternal(d, p, a, b) : e = [f EXCEPT !.user[p] = b]
  BY <1>1, <1>2 DEF SetUsername
<1>4. /\ a \in Aliases \cup {None} /\ b \in Aliases \cup {None}
      /\ Distinct(d.lists[p]) /\ d.lists[p][1] = MainAlias(p) /\ MainAlias(p) \notin {a, b}
  BY <1>0, AliasKinds DEF ListsOK, ListOK
<1>5. ASSUME f \in Tables PROVE
        /\ e \in Tables /\ e.tree = f.tree /\ e.lists = f.lists /\ e.name = f.name
        /\ e.fault = f.fault /\ e.collided = f.collided
        /\ e.user = [f.user EXCEPT ![p] = b]
  <2>1. b \in Aliases \cup {None}
    BY <1>4
  <2> QED BY <1>3, <1>5, <2>1, UserWritten
<1>6. CASE a = b
  <2>1. f = d
    <3>1. SubAliasInternal(d, p, a, a) = {d}
      BY DEF SubAliasInternal
    <3> QED BY <1>3, <1>6, <3>1
  <2>2. e.user = d.user
    <3>1. PICK u \in [Peer -> Aliases \cup {None}] : u = d.user
      BY TableFields DEF Fields
    <3>2. e.user = [u EXCEPT ![p] = u[p]]
      BY <1>2, <1>5, <1>6, <2>1, <3>1
    <3>3. [u EXCEPT ![p] = u[p]] = u
      OBVIOUS
    <3> QED BY <3>1, <3>2, <3>3
  <2>3. /\ e.tree = d.tree /\ e.lists = d.lists /\ e.name = d.name /\ e.fault = "none"
        /\ e.collided = d.collided /\ e \in Tables
    BY <1>5, <2>1
  <2>4. Sound(e)
    BY <2>2, <2>3 DEF Sound, ListsOK, UsernamesOK, TitlesOK
  <2> QED BY <1>1, <1>5, <2>1, <2>2, <2>3, <2>4 DEF Went, Shaped
<1>7. CASE a # b
  <2>1. b # None => ~In(b, d.lists[p])
    BY <1>0, <1>2, <1>7 DEF UsernamesOK, CurrentOK
  <2>2. /\ f \in Tables /\ f.user = d.user /\ f.name = d.name
        /\ d.collided \subseteq f.collided
        /\ f.fault = "none" => \/ a # None /\ ~In(a, d.lists[p]) /\ f = d
                               \/ Changed(d, f, p, a, b)
    BY <1>4, <1>7, <2>1, SubEffect
  <2>3. /\ e \in Tables /\ e.tree = f.tree /\ e.lists = f.lists /\ e.name = d.name
        /\ e.fault = f.fault /\ e.collided = f.collided
        /\ e.user = [d.user EXCEPT ![p] = b]
    BY <1>5, <2>2
  <2>4. CASE f.fault # "none"
    BY <1>1, <2>2, <2>3, <2>4 DEF Went, Shaped
  <2>5. CASE f.fault = "none" /\ a # None /\ ~In(a, d.lists[p]) /\ f = d
    <3>1. ListsOK(e) /\ TitlesOK(e)
      BY <1>0, <2>3, <2>5 DEF ListsOK, TitlesOK
    <3>2. UsernamesOK(e)
      <4>1. /\ Marks \in SUBSET Aliases /\ "@" \in Sorts /\ d.user \in [Peer -> Aliases \cup {None}]
            /\ CurrentOK(Marks, "@", d.user, d.lists)
        BY <1>0, AliasKinds, TableFields DEF Sorts, Fields, UsernamesOK
      <4>2. CurrentOK(Marks, "@", e.user, f.lists)
        BY <1>2, <2>3, <2>5, <4>1, CurrentChanged
      <4> QED BY <1>0, <2>3, <2>5, <4>2 DEF UsernamesOK
    <3> QED BY <1>1, <2>2, <2>3, <2>5, <3>1, <3>2 DEF Went, Shaped, Sound
  <2>6. CASE f.fault = "none" /\ Changed(d, f, p, a, b)
    <3>1. ListsOK(e)
      <4>1. ListsOK(f)
        BY <1>0, <2>2, <2>6, ListsKept
      <4> QED BY <2>3, <4>1 DEF ListsOK
    <3>2. UsernamesOK(e)
      <4>1. d.user[p] # b /\ Changed(d, f, p, d.user[p], b)
        BY <1>2, <1>7, <2>6
      <4> QED BY <1>0, <2>2, <2>3, <4>1, UsernameChanged
    <3>3. TitlesOK(e)
      <4>1. TitlesOK(f)
        BY <1>0, <2>2, <2>6, TitlesKept
      <4> QED BY <2>2, <2>3, <4>1 DEF TitlesOK
    <3>4. e.lists[p] # <<>>
      BY <2>3, <2>6 DEF Changed
    <3> QED BY <1>1, <2>2, <2>3, <3>1, <3>2, <3>3, <3>4 DEF Went, Shaped, Sound
  <2> QED BY <2>2, <2>4, <2>5, <2>6
<1> QED BY <1>6, <1>7

(* The first update of a peer gives it its number. *)
LEMMA MainAdded ==
    ASSUME NEW d \in Tables, d.fault = "none", Sound(d), NEW p \in Peer, d.lists[p] = <<>>,
           NEW e \in AddAliasInternal(d, p, MainAlias(p))
    PROVE  Went(d, e, p) /\ e.user = d.user /\ e.name = d.name
<1>1. PICK b \in Aliases \ (Marks \cup Headings) : b = MainAlias(p)
  BY AliasKinds
<1>2. d.tree[b] = <<>> /\ Distinct(d.lists[p]) /\ ListsOK(d)
  BY <1>1 DEF Sound, ListsOK, ListOK
<1>3. \A c : ~ In(c, d.lists[p])
  <2>1. \A i \in 1..Len(<<>>) : FALSE
    OBVIOUS
  <2> QED BY <2>1 DEF In
<1>4. /\ e \in Tables /\ e.user = d.user /\ e.name = d.name
      /\ d.collided \subseteq e.collided
      /\ e.fault = "none" => Opened(d, e, p, b)
  BY <1>1, AddInternal
<1>5. ASSUME e.fault = "none" PROVE Sound(e) /\ e.lists[p] # <<>>
  <2>1. /\ \A q \in Peer : q # p => e.lists[q] = d.lists[q]
        /\ Distinct(e.lists[p]) /\ e.lists[p] # <<>>
        /\ \A c : In(c, e.lists[p]) <=> In(c, d.lists[p]) \/ c = b
        /\ d.lists[p] = <<>> => e.lists[p][1] = b
        /\ \A c \in Aliases : c # b => e.tree[c] = d.tree[c]
        /\ d.tree[b] = <<>> => e.tree[b] = <<p>>
    <3>1. Opened(d, e, p, b) /\ ~In(b, d.lists[p])
      BY <1>3, <1>4, <1>5
    <3> QED BY <1>2, <1>4, <3>1, OpenedEffect
  <2>2. e.lists[p][1] = b /\ e.tree[b] = <<p>> /\ \A c : In(c, e.lists[p]) <=> c = b
    BY <1>2, <1>3, <2>1
  <2>3. ListsOK(e)
    <3>1. \A q \in Peer : q # p => MainAlias(q) \in Aliases /\ MainAlias(q) # b
      BY <1>1, AliasKinds, MainOf
    <3>2. ListOK(e.lists[p], e.tree, p)
      BY <1>1, <2>1, <2>2, <3>1 DEF ListOK
    <3>3. ASSUME NEW q \in Peer, q # p PROVE ListOK(e.lists[q], e.tree, q)
      <4>1. e.lists[q] = d.lists[q] /\ e.tree[MainAlias(q)] = d.tree[MainAlias(q)]
            /\ ListOK(d.lists[q], d.tree, q)
        BY <1>2, <2>1, <3>1, <3>3 DEF ListsOK
      <4> QED BY <4>1 DEF ListOK
    <3> QED BY <3>2, <3>3 DEF ListsOK
  <2>4. \A q \in Peer, c \in Marks \cup Headings : In(c, e.lists[q]) <=> In(c, d.lists[q])
    BY <1>3, <2>1, <2>2
  <2>5. \A q \in Peer, k \in Sorts : In(FreedOf(k), e.lists[q]) <=> In(FreedOf(k), d.lists[q])
    BY <1>3, <2>1, <2>2, FreedKinds
  <2>6. \A c \in Marks \cup Headings : e.tree[c] = d.tree[c]
    BY <2>1, AliasKinds
  <2>7. "@" \in Sorts /\ "title" \in Sorts
    BY DEF Sorts
  <2>8. UsernamesOK(e)
    <3>1. UsernamesOK(d)
      BY DEF Sound
    <3>2. CurrentOK(Marks, "@", e.user, e.lists)
      BY <1>4, <2>4, <2>5, <2>7, <3>1 DEF UsernamesOK, CurrentOK
    <3>3. ASSUME NEW c \in Marks \ e.collided PROVE MarkOK(c, e.tree[c], e.lists)
      <4>1. MarkOK(c, d.tree[c], d.lists) /\ e.tree[c] = d.tree[c]
        BY <1>4, <2>6, <3>1 DEF UsernamesOK
      <4> QED BY <2>4, <2>5, <2>7, <4>1 DEF MarkOK
    <3> QED BY <3>2, <3>3 DEF UsernamesOK
  <2>9. TitlesOK(e)
    <3>1. TitlesOK(d)
      BY DEF Sound
    <3>2. CurrentOK(Headings, "title", e.name, e.lists)
      BY <1>4, <2>4, <2>5, <2>7, <3>1 DEF TitlesOK, CurrentOK
    <3>3. ASSUME NEW c \in Headings PROVE HeadingOK(c, e.tree[c], e.lists)
      <4>1. HeadingOK(c, d.tree[c], d.lists) /\ e.tree[c] = d.tree[c]
        BY <2>6, <3>1 DEF TitlesOK
      <4> QED BY <2>4, <2>5, <2>7, <4>1 DEF HeadingOK
    <3> QED BY <3>2, <3>3 DEF TitlesOK
  <2> QED BY <2>1, <2>3, <2>8, <2>9 DEF Sound
<1> QED BY <1>4, <1>5 DEF Went, Shaped

(* An alias is made from a title, or is none without one.                  *)
Titled(b, w) == IF w = None THEN b = None ELSE b \in Headings /\ b.of = w

(* The title that is generated is free, or leads to the peer.              *)
LEMMA TitleGenerated ==
    ASSUME NEW d, NEW p \in Peer, NEW w \in Titles \cup {None}, NEW b \in GenerateTitle(d, p, w)
    PROVE  /\ b \in Headings \cup {None} /\ Titled(b, w)
           /\ b # None => d.tree[b] = <<>> \/ Head(d.tree[b]) = p
<1>1. CASE w = None
  BY <1>1 DEF GenerateTitle, Titled
<1>2. CASE w # None
  <2>1. PICK k \in Suffixes : b = TitleAlias(w, k) /\ Usable(d, p, TitleAlias(w, k))
    BY <1>2 DEF GenerateTitle
  <2>2. b \in Headings /\ b.of = w
    <3>1. TitleAlias(w, k) \in Headings
      BY <1>2 DEF Headings
    <3>2. TitleAlias(w, k).of = w
      BY DEF TitleAlias
    <3> QED BY <2>1, <3>1, <3>2
  <2> QED BY <1>2, <2>1, <2>2 DEF Usable, Titled
<1> QED BY <1>1, <1>2

(* A name is set. *)
LEMMA SetNameStep ==
    ASSUME NEW d \in Tables, d.fault = "none", Sound(d), NEW p \in Peer, d.lists[p] # <<>>,
           NEW w \in Titles \cup {None}, NEW e \in SetName(d, p, w)
    PROVE  \E b \in Headings \cup {None} :
           /\ Titled(b, w) /\ e.name = [d.name EXCEPT ![p] = b] /\ e.user = d.user
           /\ Went(d, e, p)
<1>0. TitlesOK(d) /\ UsernamesOK(d) /\ ListsOK(d)
  BY DEF Sound
<1>1. PICK a \in Headings \cup {None} : a = d.name[p]
  BY <1>0 DEF TitlesOK, CurrentOK
<1>2. PICK b \in GenerateTitle(d, p, w) :
        e \in {[f EXCEPT !.name[p] = b] : f \in SubAliasInternal(d, p, a, b)}
  BY <1>1 DEF SetName
<1>3. PICK f \in SubAliasInternal(d, p, a, b) : e = [f EXCEPT !.name[p] = b]
  BY <1>2
<1>4. /\ b \in Headings \cup {None} /\ Titled(b, w)
      /\ b # None => d.tree[b] = <<>> \/ Head(d.tree[b]) = p
  BY TitleGenerated
<1>5. /\ a \in Aliases \cup {None} /\ b \in Aliases \cup {None}
      /\ Distinct(d.lists[p]) /\ d.lists[p][1] = MainAlias(p) /\ MainAlias(p) \notin {a, b}
  BY <1>0, <1>4, AliasKinds DEF ListsOK, ListOK
<1>6. ASSUME f \in Tables PROVE
        /\ e \in Tables /\ e.tree = f.tree /\ e.lists = f.lists /\ e.user = f.user
        /\ e.fault = f.fault /\ e.collided = f.collided
        /\ e.name = [f.name EXCEPT ![p] = b]
  <2>1. b \in Aliases \cup {None}
    BY <1>5
  <2> QED BY <1>3, <1>6, <2>1, NameWritten
<1> DEFINE Done == e.name = [d.name EXCEPT ![p] = b] /\ e.user = d.user /\ Went(d, e, p)
<1> SUFFICES Done
  BY <1>4
<1>7. CASE a = b
  <2>1. f = d
    <3>1. SubAliasInternal(d, p, a, a) = {d}
      BY DEF SubAliasInternal
    <3> QED BY <1>3, <1>7, <3>1
  <2>2. e.name = d.name
    <3>1. PICK u \in [Peer -> Aliases \cup {None}] : u = d.name
      BY TableFields DEF Fields
    <3>2. e.name = [u EXCEPT ![p] = u[p]]
      BY <1>1, <1>6, <1>7, <2>1, <3>1
    <3>3. [u EXCEPT ![p] = u[p]] = u
      OBVIOUS
    <3> QED BY <3>1, <3>2, <3>3
  <2>3. /\ e.tree = d.tree /\ e.lists = d.lists /\ e.user = d.user /\ e.fault = "none"
        /\ e.collided = d.collided /\ e \in Tables
    BY <1>6, <2>1
  <2>4. Sound(e)
    BY <1>0, <2>2, <2>3 DEF Sound, ListsOK, UsernamesOK, TitlesOK
  <2> QED BY <1>6, <2>1, <2>2, <2>3, <2>4 DEF Went, Shaped
<1>8. CASE a # b
  <2>1. b # None => ~In(b, d.lists[p])
    BY <1>0, <1>1, <1>4, <1>8 DEF TitlesOK, CurrentOK
  <2>2. /\ f \in Tables /\ f.user = d.user /\ f.name = d.name
        /\ d.collided \subseteq f.collided
        /\ f.fault = "none" => \/ a # None /\ ~In(a, d.lists[p]) /\ f = d
                               \/ Changed(d, f, p, a, b)
    BY <1>5, <1>8, <2>1, SubEffect
  <2>3. /\ e \in Tables /\ e.tree = f.tree /\ e.lists = f.lists /\ e.user = d.user
        /\ e.fault = f.fault /\ e.collided = f.collided
        /\ e.name = [d.name EXCEPT ![p] = b]
    BY <1>6, <2>2
  <2>4. CASE f.fault # "none"
    BY <2>2, <2>3, <2>4 DEF Went, Shaped
  <2>5. CASE f.fault = "none" /\ a # None /\ ~In(a, d.lists[p]) /\ f = d
    <3>1. ListsOK(e) /\ UsernamesOK(e)
      BY <1>0, <2>3, <2>5 DEF ListsOK, UsernamesOK
    <3>2. TitlesOK(e)
      <4>1. /\ Headings \in SUBSET Aliases /\ "title" \in Sorts
            /\ d.name \in [Peer -> Aliases \cup {None}]
            /\ CurrentOK(Headings, "title", d.name, d.lists)
        BY <1>0, AliasKinds, TableFields DEF Sorts, Fields, TitlesOK
      <4>2. CurrentOK(Headings, "title", e.name, f.lists)
        BY <1>1, <1>4, <2>3, <2>5, <4>1, CurrentChanged
      <4> QED BY <1>0, <2>3, <2>5, <4>2 DEF TitlesOK
    <3> QED BY <2>2, <2>3, <2>5, <3>1, <3>2 DEF Went, Shaped, Sound
  <2>6. CASE f.fault = "none" /\ Changed(d, f, p, a, b)
    <3>1. ListsOK(e)
      <4>1. ListsOK(f)
        BY <1>0, <1>4, <2>2, <2>6, ListsKept
      <4> QED BY <2>3, <4>1 DEF ListsOK
    <3>2. TitlesOK(e)
      <4>1. d.name[p] # b /\ Changed(d, f, p, d.name[p], b)
        BY <1>1, <1>8, <2>6
      <4> QED BY <1>0, <1>4, <2>2, <2>3, <4>1, TitleChanged
    <3>3. UsernamesOK(e)
      <4>1. UsernamesOK(f)
        BY <1>0, <1>4, <2>2, <2>6, UsernamesKept
      <4> QED BY <2>2, <2>3, <4>1 DEF UsernamesOK
    <3>4. e.lists[p] # <<>>
      BY <2>3, <2>6 DEF Changed
    <3> QED BY <2>2, <2>3, <3>1, <3>2, <3>3, <3>4 DEF Went, Shaped, Sound
  <2> HIDE DEF Done
  <2> QED BY <2>2, <2>4, <2>5, <2>6
<1> QED BY <1>7, <1>8

-----------------------------------------------------------------------------
(***************************************************************************)
(* What an update does to the names.                                       *)
(***************************************************************************)

(* The names that on_user_update and the others leave, *)
PeerNamed(d, e, p, o) ==
    /\ Went(d, e, p)
    /\ e.fault = "none" =>
         /\ p \in Groups => e.user = d.user
         /\ p \notin Groups => e.user = [d.user EXCEPT ![p] = UsernameAlias(o.uname)]
         /\ p \in Users /\ chat[p] = None =>
              \E b \in Headings \cup {None} : e.name = [d.name EXCEPT ![p] = b]
         /\ ~(p \in Users /\ chat[p] = None) => e.name = d.name

(* and on_chat_update after them.                                          *)
ChatNamed(d, e, p, o, w) ==
    /\ Went(d, e, p)
    /\ e.fault = "none" =>
         /\ p \in Groups => e.user = d.user
         /\ p \notin Groups => e.user = [d.user EXCEPT ![p] = UsernameAlias(o.uname)]
         /\ \E b \in Headings \cup {None} : Titled(b, w) /\ e.name = [d.name EXCEPT ![p] = b]

(* on_user_update, on_group_update, on_channel_update and                  *)
(* on_secret_chat_update.                                                  *)
LEMMA PeerNamesStep ==
    ASSUME NEW d \in Tables, d.fault = "none", Sound(d), NEW p \in Peer,
           NEW o \in Object, NEW e \in PeerNames(d, p, o)
    PROVE  PeerNamed(d, e, p, o)
<1> DEFINE Main == IF d.lists[p] = <<>> THEN AddAliasInternal(d, p, MainAlias(p)) ELSE {d}
           Full == IF p \in Groups THEN Main
                   ELSE UNION {IF x.fault = "none" THEN SetUsername(x, p, o.uname) ELSE {x} : x \in Main}
           Named == p \in Users /\ chat[p] = None
<1>1. o.uname \in Usernames \cup {None} /\ o.title \in Titles \cup {None}
  BY DEF Object
<1>2. e \in IF Named
            THEN UNION {IF x.fault = "none" THEN SetName(x, p, o.title) ELSE {x} : x \in Full}
            ELSE Full
  BY DEF PeerNames, Bind
<1>3. ASSUME NEW m \in Main
      PROVE  Went(d, m, p) /\ m.user = d.user /\ m.name = d.name
  <2>1. CASE d.lists[p] = <<>>
    <3>1. m \in AddAliasInternal(d, p, MainAlias(p))
      BY <2>1
    <3> QED BY <2>1, <3>1, MainAdded
  <2>2. CASE d.lists[p] # <<>>
    BY <2>2 DEF Went, Shaped
  <2> QED BY <2>1, <2>2
<1> HIDE DEF Main
<1>4. ASSUME NEW f \in Full
      PROVE  /\ Went(d, f, p) /\ f.name = d.name
             /\ f.fault = "none" =>
                  /\ p \in Groups => f.user = d.user
                  /\ p \notin Groups => f.user = [d.user EXCEPT ![p] = UsernameAlias(o.uname)]
  <2>1. CASE p \in Groups
    BY <1>3, <2>1
  <2>2. CASE p \notin Groups
    <3>1. PICK m \in Main : f \in IF m.fault = "none" THEN SetUsername(m, p, o.uname) ELSE {m}
      BY <2>2
    <3>2. Went(d, m, p) /\ m.user = d.user /\ m.name = d.name
      BY <1>3
    <3>3. CASE m.fault # "none"
      BY <2>2, <3>1, <3>2, <3>3
    <3>4. CASE m.fault = "none"
      <4>1. m \in Tables /\ Sound(m) /\ m.lists[p] # <<>> /\ f \in SetUsername(m, p, o.uname)
        BY <3>1, <3>2, <3>4 DEF Went, Shaped
      <4>2. PICK w \in Usernames \cup {None} : w = o.uname
        BY <1>1
      <4>3. f \in SetUsername(m, p, w)
        BY <4>1, <4>2
      <4>4. /\ Went(m, f, p) /\ f.name = m.name
            /\ f.user = [m.user EXCEPT ![p] = UsernameAlias(w)]
        BY <3>4, <4>1, <4>3, SetUsernameStep
      <4>6. Went(d, f, p)
        BY <3>2, <4>4, WentOn
      <4> QED BY <2>2, <3>2, <4>2, <4>4, <4>6
    <3> QED BY <3>3, <3>4
  <2> QED BY <2>1, <2>2
<1> HIDE DEF Full
<1>5. CASE ~Named
  BY <1>2, <1>4, <1>5 DEF PeerNamed
<1>6. CASE Named
  <2>1. PICK f \in Full : e \in IF f.fault = "none" THEN SetName(f, p, o.title) ELSE {f}
    BY <1>2, <1>6
  <2>2. /\ Went(d, f, p) /\ f.name = d.name
        /\ f.fault = "none" =>
             /\ p \in Groups => f.user = d.user
             /\ p \notin Groups => f.user = [d.user EXCEPT ![p] = UsernameAlias(o.uname)]
    BY <1>4
  <2>3. CASE f.fault # "none"
    BY <2>1, <2>2, <2>3 DEF PeerNamed
  <2>4. CASE f.fault = "none"
    <3>1. f \in Tables /\ Sound(f) /\ f.lists[p] # <<>> /\ e \in SetName(f, p, o.title)
      BY <2>1, <2>2, <2>4 DEF Went, Shaped
    <3>0. PICK w \in Titles \cup {None} : w = o.title
      BY <1>1
    <3>3. e \in SetName(f, p, w)
      BY <3>0, <3>1
    <3>2. PICK b \in Headings \cup {None} :
            /\ Titled(b, w) /\ e.name = [f.name EXCEPT ![p] = b] /\ e.user = f.user
            /\ Went(f, e, p)
      BY <2>4, <3>1, <3>3, SetNameStep
    <3>5. Went(d, e, p)
      BY <2>2, <3>2, WentOn
    <3> QED BY <1>6, <2>2, <2>4, <3>2, <3>5 DEF PeerNamed
  <2> QED BY <2>3, <2>4
<1> QED BY <1>5, <1>6

(* on_chat_update, and after the peer's its own title. *)
ChatNames(d, p, o, w) ==
    UNION {IF x.fault = "none" THEN SetName(x, p, w) ELSE {x} : x \in PeerNames(d, p, o)}

(* The names after it: they are the peer's, and then the title is the      *)
(* chat's.                                                                 *)
LEMMA ChatNamesStep ==
    ASSUME NEW d \in Tables, d.fault = "none", Sound(d), NEW p \in Peer,
           NEW o \in Object, NEW w \in Titles \cup {None},
           NEW e \in ChatNames(d, p, o, w)
    PROVE  ChatNamed(d, e, p, o, w)
<1>1. PICK f \in PeerNames(d, p, o) : e \in IF f.fault = "none" THEN SetName(f, p, w) ELSE {f}
  BY DEF ChatNames
<1>0. PeerNamed(d, f, p, o)
  BY PeerNamesStep
<1>2. /\ Went(d, f, p)
      /\ f.fault = "none" =>
           /\ p \in Groups => f.user = d.user
           /\ p \notin Groups => f.user = [d.user EXCEPT ![p] = UsernameAlias(o.uname)]
           /\ p \in Users /\ chat[p] = None =>
                \E b \in Headings \cup {None} : f.name = [d.name EXCEPT ![p] = b]
           /\ ~(p \in Users /\ chat[p] = None) => f.name = d.name
  BY <1>0 DEF PeerNamed
<1>3. CASE f.fault # "none"
  BY <1>1, <1>2, <1>3 DEF ChatNamed
<1>4. CASE f.fault = "none"
  <2>1. f \in Tables /\ Sound(f) /\ f.lists[p] # <<>> /\ e \in SetName(f, p, w)
    BY <1>1, <1>2, <1>4 DEF Went, Shaped
  <2>2. PICK b \in Headings \cup {None} :
          /\ Titled(b, w) /\ e.name = [f.name EXCEPT ![p] = b] /\ e.user = f.user
          /\ Went(f, e, p)
    BY <1>4, <2>1, SetNameStep
  <2>4. Went(d, e, p)
    BY <1>2, <2>2, WentOn
  <2>5. [f.name EXCEPT ![p] = b] = [d.name EXCEPT ![p] = b]
    BY <1>2, <1>4, TableFields DEF Fields
  <2> QED BY <1>2, <1>4, <2>2, <2>4, <2>5 DEF ChatNamed
<1> QED BY <1>3, <1>4

-----------------------------------------------------------------------------
(***************************************************************************)
(* Objects: the references and what they count.                            *)
(***************************************************************************)
One(P) == IF P THEN 1 ELSE 0

(* The objects of a peer that are o: the peer's own and the chat's. *)
Holds(u, c, o) == One(u = o) + One(c # None /\ c.user = o)
Counted(rs, us, cs) == \A p \in Peer, o \in Object : rs[p][o] = Holds(us[p], cs[p], o)

Counts == [Peer -> [Object -> Int]]

(* One reference more,                                                     *)
LEMMA TakeFacts ==
    ASSUME NEW rs \in Counts, NEW p \in Peer, NEW o \in Object
    PROVE  /\ Take(rs, p, o) \in Counts
           /\ \A q \in Peer, x \in Object :
                Take(rs, p, o)[q][x] = rs[q][x] + One(q = p /\ x = o)
BY DEF Counts, Take, One

(* and one less, unless there is no object.                                *)
LEMMA DropFacts ==
    ASSUME NEW rs \in Counts, NEW p \in Peer, NEW o \in Object \cup {None}
    PROVE  /\ Drop(rs, p, o) \in Counts
           /\ \A q \in Peer, x \in Object :
                Drop(rs, p, o)[q][x] = rs[q][x] - One(q = p /\ x = o)
<1>1. None \notin Object
  BY NullAssumption
<1>2. CASE o = None
  BY <1>1, <1>2 DEF Counts, Drop, One
<1>3. CASE o # None
  BY <1>3 DEF Counts, Drop, One
<1> QED BY <1>2, <1>3

(* on_user_update and the others count the new object for the old one. *)
LEMMA KeepObjectFacts ==
    ASSUME NEW rs \in Counts, NEW p \in Peer, NEW o \in Object,
           user[p] \in Object \cup {None}
    PROVE  /\ KeepObject(rs, p, o) \in Counts
           /\ \A q \in Peer, x \in Object :
                KeepObject(rs, p, o)[q][x]
                = rs[q][x] + One(q = p /\ x = o) - One(q = p /\ x = user[p])
<1>1. PICK r \in Counts : r = Take(rs, p, o)
  BY TakeFacts
<1>2. \A q \in Peer, x \in Object : r[q][x] = rs[q][x] + One(q = p /\ x = o)
  BY <1>1, TakeFacts
<1>3. PICK u \in Object \cup {None} : u = user[p]
  OBVIOUS
<1>4. /\ Drop(r, p, u) \in Counts
      /\ \A q \in Peer, x \in Object : Drop(r, p, u)[q][x] = r[q][x] - One(q = p /\ x = u)
  BY DropFacts
<1>5. KeepObject(rs, p, o) = Drop(r, p, u)
  BY <1>1, <1>3 DEF KeepObject
<1>6. \A q \in Peer, x \in Object :
        Drop(r, p, u)[q][x] = rs[q][x] + One(q = p /\ x = o) - One(q = p /\ x = u)
  <2> TAKE q \in Peer, x \in Object
  <2>1. r[q][x] = rs[q][x] + One(q = p /\ x = o)
    BY <1>2
  <2>2. Drop(r, p, u)[q][x] = r[q][x] - One(q = p /\ x = u)
    BY <1>4
  <2>3. rs[q][x] \in Int /\ One(q = p /\ x = o) \in Int /\ One(q = p /\ x = u) \in Int
    BY DEF Counts, One
  <2> QED BY <2>1, <2>2, <2>3
<1> QED BY <1>3, <1>4, <1>5, <1>6

(* A reference less to the object of a chat, if there was one. *)
Dropped(rs, n, p, old) ==
    /\ n \in Counts
    /\ \A q \in Peer, x \in Object : n[q][x] = rs[q][x] - One(q = p /\ old # None /\ x = old.user)

(* The chat's new object is not counted, only the old one is let go: for   *)
(* the new one it is the reference that tdlib gave.                        *)
LEMMA KeepChatFacts ==
    ASSUME NEW rs \in Counts, NEW p \in Peer, NEW o \in Object,
           NEW old \in ChatObject \cup {None}
    PROVE  Dropped(rs, KeepChat(rs, p, o, old), p, old)
<1>1. None \notin Object /\ None \notin ChatObject
  BY NullAssumption
<1>2. PICK u \in Object \cup {None} : u = IF old = None THEN None ELSE old.user
  BY DEF ChatObject
<1>3. PICK f \in Counts : f = Drop(rs, p, u)
  BY DropFacts
<1>4. f = IF old = None THEN rs ELSE Drop(rs, p, old.user)
  BY <1>2, <1>3 DEF Drop
<1>5. \A q \in Peer, x \in Object : f[q][x] = rs[q][x] - One(q = p /\ x = u)
  BY <1>3, DropFacts
<1>6. \A q \in Peer, x \in Object :
        f[q][x] = rs[q][x] - One(q = p /\ old # None /\ x = old.user)
  BY <1>1, <1>2, <1>5 DEF One
<1>7. PICK g \in Counts : g = Take(f, p, o)
  BY TakeFacts
<1>8. \A q \in Peer, x \in Object : g[q][x] = f[q][x] + One(q = p /\ x = o)
  BY <1>7, TakeFacts
<1>9. /\ Drop(g, p, o) \in Counts
      /\ \A q \in Peer, x \in Object : Drop(g, p, o)[q][x] = g[q][x] - One(q = p /\ x = o)
  BY DropFacts
<1>10. \A q \in Peer, x \in Object : Drop(g, p, o)[q][x] = f[q][x]
  <2> SUFFICES ASSUME NEW q \in Peer, NEW x \in Object PROVE Drop(g, p, o)[q][x] = f[q][x]
    OBVIOUS
  <2>1. f[q][x] \in Int /\ One(q = p /\ x = o) \in Int
    BY DEF Counts, One
  <2> QED BY <1>8, <1>9, <2>1
<1>11. KeepChat(rs, p, o, old) = Drop(g, p, o)
  BY <1>4, <1>7 DEF KeepChat
<1> QED BY <1>6, <1>9, <1>10, <1>11 DEF Dropped

(* With what was counted before, the updates count what they keep: an      *)
(* update of a peer,                                                       *)
LEMMA PeerCounted ==
    ASSUME NEW rs \in Counts, NEW p \in Peer, NEW o \in Object,
           user \in [Peer -> Object \cup {None}], Counted(rs, user, chat)
    PROVE  /\ KeepObject(rs, p, o) \in Counts
           /\ Counted(KeepObject(rs, p, o), [user EXCEPT ![p] = o], chat)
<1>1. /\ KeepObject(rs, p, o) \in Counts
      /\ \A q \in Peer, x \in Object :
           KeepObject(rs, p, o)[q][x]
           = rs[q][x] + One(q = p /\ x = o) - One(q = p /\ x = user[p])
  BY KeepObjectFacts
<1>2. ASSUME NEW q \in Peer, NEW x \in Object
      PROVE  KeepObject(rs, p, o)[q][x] = Holds([user EXCEPT ![p] = o][q], chat[q], x)
  <2>1. KeepObject(rs, p, o)[q][x]
        = Holds(user[q], chat[q], x) + One(q = p /\ x = o) - One(q = p /\ x = user[p])
    BY <1>1 DEF Counted
  <2>2. [user EXCEPT ![p] = o][q] = IF q = p THEN o ELSE user[q]
    OBVIOUS
  <2>3. CASE q = p
    BY <2>1, <2>2, <2>3 DEF Holds, One
  <2>4. CASE q # p
    BY <2>1, <2>2, <2>4 DEF Holds, One
  <2> QED BY <2>3, <2>4
<1> QED BY <1>1, <1>2 DEF Counted

(* of a chat, which comes with a reference,                                *)
LEMMA ChatCounted ==
    ASSUME NEW rs \in Counts, NEW p \in Peer, NEW c \in ChatObject,
           user \in [Peer -> Object \cup {None}], chat \in [Peer -> ChatObject \cup {None}],
           Counted(rs, user, chat)
    PROVE  LET n == KeepChat(KeepObject(Take(rs, p, c.user), p, c.user), p, c.user, chat[p])
           IN  /\ n \in Counts
               /\ Counted(n, [user EXCEPT ![p] = c.user], [chat EXCEPT ![p] = c])
<1>1. PICK o \in Object : o = c.user
  BY DEF ChatObject
<1>2. PICK r \in Counts : r = Take(rs, p, o)
  BY TakeFacts
<1>3. \A q \in Peer, x \in Object : r[q][x] = rs[q][x] + One(q = p /\ x = o)
  BY <1>2, TakeFacts
<1>4. PICK s \in Counts : s = KeepObject(r, p, o)
  BY KeepObjectFacts
<1>5. \A q \in Peer, x \in Object :
        s[q][x] = r[q][x] + One(q = p /\ x = o) - One(q = p /\ x = user[p])
  BY <1>4, KeepObjectFacts
<1>6. PICK old \in ChatObject \cup {None} : old = chat[p]
  OBVIOUS
<1>0. Dropped(s, KeepChat(s, p, o, old), p, old)
  BY KeepChatFacts
<1>7. PICK n \in Counts : n = KeepChat(s, p, o, old)
  BY <1>0 DEF Dropped
<1>8. \A q \in Peer, x \in Object :
        n[q][x] = s[q][x] - One(q = p /\ old # None /\ x = old.user)
  BY <1>0, <1>7 DEF Dropped
<1>9. n = KeepChat(KeepObject(Take(rs, p, c.user), p, c.user), p, c.user, chat[p])
  BY <1>1, <1>2, <1>4, <1>6, <1>7
<1>10. ASSUME NEW q \in Peer, NEW x \in Object
       PROVE  n[q][x] = Holds([user EXCEPT ![p] = c.user][q], [chat EXCEPT ![p] = c][q], x)
  <2>1. rs[q][x] = Holds(user[q], chat[q], x)
    BY DEF Counted
  <2>2. /\ [user EXCEPT ![p] = c.user][q] = IF q = p THEN o ELSE user[q]
        /\ [chat EXCEPT ![p] = c][q] = IF q = p THEN c ELSE chat[q]
    BY <1>1
  <2>3. /\ r[q][x] = rs[q][x] + One(q = p /\ x = o)
        /\ s[q][x] = r[q][x] + One(q = p /\ x = o) - One(q = p /\ x = user[p])
        /\ n[q][x] = s[q][x] - One(q = p /\ old # None /\ x = old.user)
    BY <1>3, <1>5, <1>8
  <2>4. c # None
    BY NullAssumption
  <2>5. CASE q = p
    BY <1>1, <1>6, <2>1, <2>2, <2>3, <2>4, <2>5 DEF Holds, One
  <2>6. CASE q # p
    BY <2>1, <2>2, <2>3, <2>6 DEF Holds, One
  <2> QED BY <2>5, <2>6
<1>11. Counted(n, [user EXCEPT ![p] = c.user], [chat EXCEPT ![p] = c])
  BY <1>10 DEF Counted
<1> QED BY <1>9, <1>11

(* and of the chat that is kept, with a new title.                         *)
LEMMA TitleCounted ==
    ASSUME NEW rs \in Counts, NEW p \in Peer, NEW c \in ChatObject,
           user \in [Peer -> Object \cup {None}], chat \in [Peer -> ChatObject \cup {None}],
           chat[p] # None, c.user = chat[p].user, Counted(rs, user, chat)
    PROVE  LET n == KeepChat(KeepObject(rs, p, c.user), p, c.user, None)
           IN  /\ n \in Counts
               /\ Counted(n, [user EXCEPT ![p] = c.user], [chat EXCEPT ![p] = c])
<1>1. PICK o \in Object : o = c.user
  BY DEF ChatObject
<1>2. PICK s \in Counts : s = KeepObject(rs, p, o)
  BY KeepObjectFacts
<1>3. Counted(s, [user EXCEPT ![p] = o], chat)
  BY <1>2, PeerCounted
<1>4. PICK old \in ChatObject \cup {None} : old = None
  OBVIOUS
<1>0. Dropped(s, KeepChat(s, p, o, old), p, old)
  BY KeepChatFacts
<1>5. PICK n \in Counts : n = KeepChat(s, p, o, old)
  BY <1>0 DEF Dropped
<1>6. \A q \in Peer, x \in Object :
        n[q][x] = s[q][x] - One(q = p /\ old # None /\ x = old.user)
  BY <1>0, <1>5 DEF Dropped
<1>7. n = KeepChat(KeepObject(rs, p, c.user), p, c.user, None)
  BY <1>1, <1>2, <1>4, <1>5
<1>8. ASSUME NEW q \in Peer, NEW x \in Object
      PROVE  n[q][x] = Holds([user EXCEPT ![p] = c.user][q], [chat EXCEPT ![p] = c][q], x)
  <2>1. s[q][x] = Holds([user EXCEPT ![p] = o][q], chat[q], x)
    BY <1>3 DEF Counted
  <2>2. n[q][x] = s[q][x]
    <3>1. n[q][x] = s[q][x] - One(q = p /\ old # None /\ x = old.user) /\ s[q][x] \in Int
      BY <1>6 DEF Counts
    <3> QED BY <1>4, <3>1 DEF One
  <2>3. [chat EXCEPT ![p] = c][q] = IF q = p THEN c ELSE chat[q]
    OBVIOUS
  <2>4. c # None
    BY NullAssumption
  <2> QED BY <1>1, <2>1, <2>2, <2>3, <2>4 DEF Holds, One
<1>9. Counted(n, [user EXCEPT ![p] = c.user], [chat EXCEPT ![p] = c])
  BY <1>8 DEF Counted
<1> QED BY <1>7, <1>9

-----------------------------------------------------------------------------
(***************************************************************************)
(* The inductive invariant.  Of the names in a client that was stopped it  *)
(* says no more than their types.                                          *)
(***************************************************************************)

(* The aliases of a peer are made from what is kept of it. *)
Borne ==
    /\ \A p \in Peer \ Groups :
         names.user[p] = IF user[p] = None THEN None ELSE UsernameAlias(user[p].uname)
    /\ \A p \in Peer : chat[p] # None => Titled(names.name[p], chat[p].title)

IInv ==
    /\ uname \in [Peer -> Usernames \cup {None}] /\ title \in [Peer -> Titles \cup {None}]
    /\ changes \in 0..MaxChanges
    /\ user \in [Peer -> Object \cup {None}] /\ chat \in [Peer -> ChatObject \cup {None}]
    /\ refs \in Counts /\ Counted(refs, user, chat)
    /\ names \in Tables
    /\ Running => Sound(names) /\ Borne

(* Before the first update nothing is known, and nothing counted.          *)
LEMMA InitIInv == Init => IInv
<1> SUFFICES ASSUME Init PROVE IInv
  OBVIOUS
<1>1. /\ uname \in [Peer -> Usernames \cup {None}] /\ title \in [Peer -> Titles \cup {None}]
      /\ changes \in 0..MaxChanges
      /\ user \in [Peer -> Object \cup {None}] /\ chat \in [Peer -> ChatObject \cup {None}]
      /\ refs \in Counts
  BY PeersAssumption DEF Init, Counts
<1>2. Counted(refs, user, chat)
  BY NullAssumption DEF Init, Counted, Holds, One
<1>3. /\ names.tree = [a \in Aliases |-> <<>>] /\ names.lists = [p \in Peer |-> <<>>]
      /\ names.user = [p \in Peer |-> None] /\ names.name = [p \in Peer |-> None]
      /\ names.fault = "none" /\ names.collided = {}
  BY DEF Init, NoNames
<1>4. names \in Tables
  BY DEF Init, NoNames, Tables
<1>5. \A p \in Peer : \A c : ~ In(c, names.lists[p])
  <2>1. \A i \in 1..Len(<<>>) : FALSE
    OBVIOUS
  <2> QED BY <1>3, <2>1 DEF In
<1>6. \A p \in Peer : MainAlias(p) \in Aliases
  BY AliasKinds
<1>7. \A p \in Peer : Distinct(names.lists[p])
  <2>1. \A i \in 1..Len(<<>>) : FALSE
    OBVIOUS
  <2> QED BY <1>3, <2>1 DEF Distinct
<1>8. ListsOK(names)
  BY <1>3, <1>5, <1>6, <1>7 DEF ListsOK, ListOK
<1>9. UsernamesOK(names)
  <2>1. \A a \in Marks : names.tree[a] = <<>>
    BY <1>3, AliasKinds
  <2>2. \A q \in Peer : <<q>> # <<>>
    OBVIOUS
  <2> QED BY <1>3, <1>5, <2>1, <2>2 DEF UsernamesOK, MarkOK, CurrentOK
<1>10. TitlesOK(names)
  <2>1. \A a \in Headings : names.tree[a] = <<>>
    BY <1>3, AliasKinds
  <2> QED BY <1>3, <1>5, <2>1 DEF TitlesOK, HeadingOK, CurrentOK
<1>11. Borne
  BY <1>3 DEF Init, Borne
<1> QED BY <1>1, <1>2, <1>3, <1>4, <1>8, <1>9, <1>10, <1>11 DEF IInv, Sound

(* An update of a peer. *)
LEMMA PeerUpdated ==
    ASSUME IInv, Running, NEW p \in Peer, NEW o \in Object,
           OnPeerUpdate(refs, p, o), UNCHANGED <<tdVars, chat>>
    PROVE  IInv'
<1>1. /\ uname' = uname /\ title' = title /\ changes' = changes /\ chat' = chat
      /\ user' = [user EXCEPT ![p] = o] /\ refs' = KeepObject(refs, p, o)
      /\ names' \in PeerNames(names, p, o)
  BY DEF OnPeerUpdate, tdVars
<1>2. names \in Tables /\ names.fault = "none" /\ Sound(names) /\ Borne
  BY DEF IInv, Running
<1>3. PICK d \in Tables : d = names
  BY <1>2
<1>4. PICK e \in PeerNames(d, p, o) : e = names'
  BY <1>1, <1>3
<1>5. /\ Went(d, e, p)
      /\ e.fault = "none" =>
           /\ p \in Groups => e.user = d.user
           /\ p \notin Groups => e.user = [d.user EXCEPT ![p] = UsernameAlias(o.uname)]
           /\ p \in Users /\ chat[p] = None =>
                \E b \in Headings \cup {None} : e.name = [d.name EXCEPT ![p] = b]
           /\ ~(p \in Users /\ chat[p] = None) => e.name = d.name
  <2>1. PeerNamed(d, e, p, o)
    BY <1>2, <1>3, PeerNamesStep
  <2> QED BY <2>1 DEF PeerNamed
<1>6. user' \in [Peer -> Object \cup {None}] /\ user'[p] = o
      /\ \A q \in Peer : q # p => user'[q] = user[q]
  BY <1>1 DEF IInv
<1>7. refs' \in Counts /\ Counted(refs', user', chat')
  BY <1>1, PeerCounted DEF IInv
<1>8. e \in Tables /\ (e.fault = "none" => Sound(e))
  BY <1>3, <1>5 DEF Went, Shaped, IInv
<1>9. ASSUME e.fault = "none" PROVE Borne'
  <2>1. /\ d.user \in [Peer -> Aliases \cup {None}] /\ d.name \in [Peer -> Aliases \cup {None}]
    BY TableFields DEF Fields
  <2>2. o # None
    BY NullAssumption
  <2>3. ASSUME NEW q \in Peer \ Groups
        PROVE  e.user[q] = IF user'[q] = None THEN None ELSE UsernameAlias(user'[q].uname)
    <3>1. CASE q = p
      BY <1>5, <1>6, <1>9, <2>1, <2>2, <3>1
    <3>2. CASE q # p
      <4>1. e.user[q] = d.user[q]
        BY <1>5, <1>9, <2>1, <3>2
      <4> QED BY <1>2, <1>3, <1>6, <3>2, <4>1 DEF Borne
    <3> QED BY <3>1, <3>2
  <2>4. ASSUME NEW q \in Peer, chat[q] # None
        PROVE  Titled(e.name[q], chat[q].title)
    <3>1. e.name[q] = d.name[q]
      BY <1>5, <1>9, <2>1, <2>4
    <3> QED BY <1>2, <1>3, <2>4, <3>1 DEF Borne
  <2> QED BY <1>1, <1>4, <2>3, <2>4 DEF Borne
<1> QED BY <1>1, <1>4, <1>6, <1>7, <1>8, <1>9 DEF IInv, Running

(* An update of a chat, by which its references are counted. *)
LEMMA ChatUpdated ==
    ASSUME IInv, Running, NEW p \in Peer, NEW c \in ChatObject,
           names' \in Bind(PeerNames(names, p, c.user), LAMBDA d : SetName(d, p, c.title)),
           user' = [user EXCEPT ![p] = c.user], chat' = [chat EXCEPT ![p] = c],
           refs' \in Counts, Counted(refs', user', chat'), UNCHANGED tdVars
    PROVE  IInv'
<1>1. uname' = uname /\ title' = title /\ changes' = changes
  BY DEF tdVars
<1>2. names \in Tables /\ names.fault = "none" /\ Sound(names) /\ Borne
  BY DEF IInv, Running
<1>3. PICK o \in Object : o = c.user
  BY DEF ChatObject
<1>4. PICK w \in Titles \cup {None} : w = c.title
  BY DEF ChatObject
<1>5. PICK d \in Tables : d = names
  BY <1>2
<1>6. PICK e \in ChatNames(d, p, o, w) : e = names'
  BY <1>3, <1>4, <1>5 DEF Bind, ChatNames
<1>7. /\ Went(d, e, p)
      /\ e.fault = "none" =>
           /\ p \in Groups => e.user = d.user
           /\ p \notin Groups => e.user = [d.user EXCEPT ![p] = UsernameAlias(o.uname)]
           /\ \E b \in Headings \cup {None} : Titled(b, w) /\ e.name = [d.name EXCEPT ![p] = b]
  <2>1. d.fault = "none" /\ Sound(d)
    BY <1>2, <1>5
  <2>2. ChatNamed(d, e, p, o, w)
    BY <2>1, ChatNamesStep
  <2> QED BY <2>2 DEF ChatNamed
<1>8. /\ user' \in [Peer -> Object \cup {None}] /\ user'[p] = o
      /\ \A q \in Peer : q # p => user'[q] = user[q]
      /\ chat' \in [Peer -> ChatObject \cup {None}] /\ chat'[p] = c
      /\ \A q \in Peer : q # p => chat'[q] = chat[q]
  BY <1>3 DEF IInv
<1>9. e \in Tables /\ (e.fault = "none" => Sound(e))
  BY <1>5, <1>7 DEF Went, Shaped, IInv
<1>10. ASSUME e.fault = "none" PROVE Borne'
  <2>1. /\ d.user \in [Peer -> Aliases \cup {None}] /\ d.name \in [Peer -> Aliases \cup {None}]
    BY TableFields DEF Fields
  <2>2. o # None
    BY NullAssumption
  <2>3. ASSUME NEW q \in Peer \ Groups
        PROVE  e.user[q] = IF user'[q] = None THEN None ELSE UsernameAlias(user'[q].uname)
    <3>1. CASE q = p
      BY <1>7, <1>8, <1>10, <2>1, <2>2, <3>1
    <3>2. CASE q # p
      <4>1. e.user[q] = d.user[q]
        BY <1>7, <1>10, <2>1, <3>2
      <4> QED BY <1>2, <1>5, <1>8, <3>2, <4>1 DEF Borne
    <3> QED BY <3>1, <3>2
  <2>4. ASSUME NEW q \in Peer, chat'[q] # None
        PROVE  Titled(e.name[q], chat'[q].title)
    <3>1. PICK b \in Headings \cup {None} : Titled(b, w) /\ e.name = [d.name EXCEPT ![p] = b]
      BY <1>7, <1>10
    <3>2. CASE q = p
      BY <1>4, <1>8, <2>1, <3>1, <3>2
    <3>3. CASE q # p
      <4>1. e.name[q] = d.name[q] /\ chat'[q] = chat[q]
        BY <1>8, <2>1, <3>1, <3>3
      <4> QED BY <1>2, <1>5, <2>4, <4>1 DEF Borne
    <3> QED BY <3>2, <3>3
  <2> QED BY <1>6, <2>3, <2>4 DEF Borne
<1> QED BY <1>1, <1>6, <1>8, <1>9, <1>10 DEF IInv, Running

(* Every update and every print keeps the invariant.                       *)
LEMMA NextIInv == IInv /\ [Next]_vars => IInv'
<1> SUFFICES ASSUME IInv, [Next]_vars PROVE IInv'
  OBVIOUS
<1>1. CASE UNCHANGED vars
  <2>1. /\ uname' = uname /\ title' = title /\ changes' = changes /\ refs' = refs
        /\ user' = user /\ chat' = chat /\ names' = names
    BY <1>1 DEF vars, tdVars
  <2> QED BY <2>1 DEF IInv, Running, Borne
<1>2. CASE Next
  <2>1. PICK p \in Peer :
          \/ Rename(p) \/ Retitle(p)
          \/ UpdatePeer(p) \/ UpdateChat(p) \/ UpdateChatTitle(p)
          \/ PrintChat(p) \/ PrintUser(p)
    BY <1>2 DEF Next
  <2>2. Running
    BY <1>2 DEF Next
  <2>3. Told(p) \in Object
    BY DEF IInv, Told, Object
  <2>4. CASE Rename(p)
    <3>1. /\ uname' \in [Peer -> Usernames \cup {None}] /\ changes' \in 0..MaxChanges
          /\ title' = title /\ refs' = refs /\ user' = user /\ chat' = chat /\ names' = names
      BY <2>4, PeersAssumption DEF Rename, IInv
    <3> QED BY <3>1 DEF IInv, Running, Borne
  <2>5. CASE Retitle(p)
    <3>1. /\ title' \in [Peer -> Titles \cup {None}] /\ changes' \in 0..MaxChanges
          /\ uname' = uname /\ refs' = refs /\ user' = user /\ chat' = chat /\ names' = names
      BY <2>5, PeersAssumption DEF Retitle, IInv
    <3> QED BY <3>1 DEF IInv, Running, Borne
  <2>6. CASE UpdatePeer(p)
    BY <2>2, <2>3, <2>6, PeerUpdated DEF UpdatePeer
  <2>7. CASE UpdateChat(p)
    <3>1. PICK c \in ChatObject : c = [title |-> title[p], user |-> Told(p)]
      BY <2>3 DEF IInv, ChatObject
    <3>2. c.user = Told(p)
      BY <3>1
    <3>3. /\ names' \in Bind(PeerNames(names, p, c.user), LAMBDA d : SetName(d, p, c.title))
          /\ refs' = KeepChat(KeepObject(Take(refs, p, c.user), p, c.user), p, c.user, chat[p])
          /\ user' = [user EXCEPT ![p] = c.user] /\ chat' = [chat EXCEPT ![p] = c]
          /\ UNCHANGED tdVars
      BY <2>7, <3>1, <3>2 DEF UpdateChat, OnChatUpdate
    <3>4. refs' \in Counts /\ Counted(refs', user', chat')
      BY <3>3, ChatCounted DEF IInv
    <3> QED BY <2>2, <3>3, <3>4, ChatUpdated
  <2>8. CASE UpdateChatTitle(p)
    <3>1. chat[p] # None /\ chat[p] \in ChatObject
      BY <2>8 DEF UpdateChatTitle, IInv
    <3>2. PICK c \in ChatObject : c = [chat[p] EXCEPT !.title = title[p]]
      BY <3>1 DEF IInv, ChatObject
    <3>3. c.user = chat[p].user
      BY <3>1, <3>2 DEF ChatObject
    <3>4. /\ names' \in Bind(PeerNames(names, p, c.user), LAMBDA d : SetName(d, p, c.title))
          /\ refs' = KeepChat(KeepObject(refs, p, c.user), p, c.user, None)
          /\ user' = [user EXCEPT ![p] = c.user] /\ chat' = [chat EXCEPT ![p] = c]
          /\ UNCHANGED tdVars
      BY <2>8, <3>2 DEF UpdateChatTitle, OnChatUpdate
    <3>5. refs' \in Counts /\ Counted(refs', user', chat')
      BY <3>1, <3>3, <3>4, TitleCounted DEF IInv
    <3> QED BY <2>2, <3>4, <3>5, ChatUpdated
  <2>9. CASE PrintChat(p)
    <3>1. chat[p].user \in Object
      BY <2>9 DEF PrintChat, IInv, ChatObject
    <3> QED BY <2>2, <2>9, <3>1, PeerUpdated DEF PrintChat
  <2>10. CASE PrintUser(p)
    <3>1. user[p] \in Object
      BY <2>10 DEF PrintUser, IInv
    <3> QED BY <2>2, <2>10, <3>1, PeerUpdated DEF PrintUser
  <2> QED BY <2>1, <2>4, <2>5, <2>6, <2>7, <2>8, <2>9, <2>10
<1> QED BY <1>1, <1>2

(* The invariant holds in every state of every behaviour. *)
THEOREM Invariance == Spec => []IInv
<1>1. Init => IInv
  BY InitIInv
<1>2. IInv /\ [Next]_vars => IInv'
  BY NextIInv
<1> QED BY <1>1, <1>2, PTL DEF Spec

-----------------------------------------------------------------------------
(***************************************************************************)
(* What follows from it.                                                   *)
(***************************************************************************)
LEMMA TypesFollow == IInv => TypeOK
<1> SUFFICES ASSUME IInv PROVE TypeOK
  OBVIOUS
<1>1. refs \in [Peer -> [Object -> 0..2]]
  <2>1. refs \in [Peer -> [Object -> Int]]
    BY DEF IInv, Counts
  <2>2. \A p \in Peer, o \in Object : refs[p][o] \in 0..2
    BY DEF IInv, Counted, Holds, One
  <2> QED BY <2>1, <2>2
<1>2. Fields /\ names \in Tables
  BY TableFields DEF IInv
<1>3. /\ names.tree \in [Aliases -> Seq(Peer)]
      /\ names.lists \in [Peer -> Seq(Text)]
      /\ names.user \in [Peer -> Aliases \cup {None}]
      /\ names.name \in [Peer -> Aliases \cup {None}]
      /\ names.fault \in {"none", "assert", "freed"}
      /\ names.collided \subseteq Aliases
  BY <1>2 DEF Fields
<1> QED BY <1>1, <1>3 DEF TypeOK, IInv

(* Two objects that say the same are one with two references.              *)
LEMMA RefsFollow == IInv => RefsExact
<1> SUFFICES ASSUME IInv PROVE RefsExact
  OBVIOUS
<1>1. ASSUME NEW p \in Peer, NEW o \in Object
      PROVE  refs[p][o] = Cardinality({x \in {"peer", "chat"} :
                 IF x = "peer" THEN user[p] = o ELSE chat[p] # None /\ chat[p].user = o})
  <2> DEFINE U == user[p] = o
             C == chat[p] # None /\ chat[p].user = o
             S == {x \in {"peer", "chat"} : IF x = "peer" THEN U ELSE C}
  <2>1. refs[p][o] = One(U) + One(C)
    BY DEF IInv, Counted, Holds
  <2>2. /\ Cardinality({}) = 0
        /\ Cardinality({"peer"}) = 1 /\ Cardinality({"chat"}) = 1
    BY FS_EmptySet, FS_Singleton
  <2>3. Cardinality({"peer", "chat"}) = 2
    <3>1. /\ IsFiniteSet({"peer"}) /\ {"peer", "chat"} = {"peer"} \cup {"chat"}
          /\ "chat" \notin {"peer"}
      BY FS_Singleton
    <3>2. Cardinality({"peer"} \cup {"chat"}) = Cardinality({"peer"}) + 1
      BY <3>1, FS_AddElement
    <3> QED BY <2>2, <3>1, <3>2
  <2> HIDE DEF U, C
  <2>4. CASE U /\ C
    <3>1. S = {"peer", "chat"}
      BY <2>4
    <3> QED BY <2>1, <2>3, <2>4, <3>1 DEF One, U, C
  <2>5. CASE U /\ ~C
    <3>1. S = {"peer"}
      BY <2>5
    <3> QED BY <2>1, <2>2, <2>5, <3>1 DEF One, U, C
  <2>6. CASE ~U /\ C
    <3>1. S = {"chat"}
      BY <2>6
    <3> QED BY <2>1, <2>2, <2>6, <3>1 DEF One, U, C
  <2>7. CASE ~U /\ ~C
    <3>1. S = {}
      BY <2>7
    <3> QED BY <2>1, <2>2, <2>7, <3>1 DEF One, U, C
  <2> QED BY <2>4, <2>5, <2>6, <2>7
<1> QED BY <1>1, TypesFollow DEF RefsExact

(* Where an alias of the kind was not freed, the list says as the peer.    *)
LEMMA Whole ==
    ASSUME NEW d \in Tables, NEW p \in Peer, NEW K \in SUBSET Aliases, NEW k, NEW cur,
           CurrentOK(K, k, cur, d.lists), FreedOf(k) \notin Range(d.lists[p]), NEW a \in K
    PROVE  In(a, d.lists[p]) <=> cur[p] = a
<1>1. d.lists[p] \in Seq(Text)
  BY TableFields DEF Fields
<1>2. ~In(FreedOf(k), d.lists[p])
  BY <1>1, InIsRange
<1>3. a # None
  BY AliasKinds
<1> QED BY <1>2, <1>3 DEF CurrentOK

(* The entries of an alias of which there is one, or that are one peer's.  *)
LEMMA OneEntry ==
    ASSUME NEW p \in Peer, NEW t \in Seq(Peer)
    PROVE  /\ t = <<>> => p \notin Range(t)
           /\ \A q \in Peer : t = <<q>> => (p \in Range(t) <=> p = q)
           /\ \A q \in Peer : t # <<>> /\ Only(t, q) => (p \in Range(t) <=> p = q)
           /\ \A q \in Peer : Only(t, q) => Range(t) \subseteq {q}
           /\ Len(t) > 1 => t # <<>> /\ \A q \in Peer : t # <<q>>
<1>1. Len(t) \in Nat /\ (t # <<>> => 1 \in 1..Len(t))
  BY LenProperties, EmptySeq
<1>2. Range(t) = {t[i] : i \in 1..Len(t)}
  BY LenProperties DEF Range
<1>3. \A q \in Peer : t # <<>> /\ Only(t, q) => (p \in Range(t) <=> p = q)
  BY <1>1, <1>2 DEF Only
<1>4. \A q \in Peer : <<q>> # <<>> /\ Only(<<q>>, q)
  <2>1. \A q \in Peer : Len(<<q>>) = 1 /\ <<q>>[1] = q /\ <<q>> # <<>>
    OBVIOUS
  <2>2. \A i \in 1..1 : i = 1
    OBVIOUS
  <2> QED BY <2>1, <2>2 DEF Only
<1>5. t = <<>> => p \notin Range(t)
  <2>1. Len(<<>>) = 0 /\ \A i \in 1..0 : FALSE
    OBVIOUS
  <2> QED BY <1>2, <2>1
<1>6. \A q \in Peer : t = <<q>> => (p \in Range(t) <=> p = q)
  BY <1>3, <1>4
<1>7. \A q \in Peer : Only(t, q) => Range(t) \subseteq {q}
  BY <1>2 DEF Only
<1>8. Len(t) > 1 => t # <<>> /\ \A q \in Peer : t # <<q>>
  <2>1. t = <<>> => Len(t) = 0
    OBVIOUS
  <2>2. ASSUME Len(t) > 1, NEW q \in Peer PROVE t # <<q>>
    <3>1. SUFFICES ASSUME t = <<q>> PROVE FALSE
      OBVIOUS
    <3>2. Len(<<q>>) = 1
      OBVIOUS
    <3>3. Len(t) = 1
      BY <3>1, <3>2
    <3> QED BY <2>2, <3>3
  <2> QED BY <2>1, <2>2
<1> QED BY <1>3, <1>5, <1>6, <1>7, <1>8

(* Where no username was freed, one that was never inserted twice leads to *)
(* the peer in whose list it is,                                           *)
LEMMA MarkLeads ==
    ASSUME IInv, Running, NEW p \in Peer, Intact(p, "@"), NEW a \in Marks \ names.collided
    PROVE  /\ In(a, names.lists[p]) <=> names.tree[a] = <<p>>
           /\ names.tree[a] = <<p>> <=> p \in Range(names.tree[a])
           /\ In(a, names.lists[p]) <=> names.user[p] = a
<1>1. names \in Tables /\ UsernamesOK(names) /\ a \in Aliases /\ Marks \in SUBSET Aliases
  BY AliasKinds DEF IInv, Sound
<1>2. names.lists[p] \in Seq(Text) /\ names.tree[a] \in Seq(Peer)
  BY <1>1, TableFields DEF Fields
<1>3. ~In(FreedOf("@"), names.lists[p]) /\ FreedOf("@") \notin Range(names.lists[p])
  BY <1>2, InIsRange DEF Intact
<1>4. MarkOK(a, names.tree[a], names.lists) /\ CurrentOK(Marks, "@", names.user, names.lists)
  BY <1>1 DEF UsernamesOK
<1>5. In(a, names.lists[p]) <=> names.tree[a] = <<p>>
  BY <1>3, <1>4 DEF MarkOK
<1>6. names.tree[a] = <<p>> <=> p \in Range(names.tree[a])
  <2>1. names.tree[a] = <<>> \/ \E q \in Peer : names.tree[a] = <<q>>
    BY <1>4 DEF MarkOK
  <2>2. /\ \A q \in Peer : <<q>> # <<>>
        /\ \A q \in Peer : <<q>> = <<p>> => p = q
    OBVIOUS
  <2>3. CASE names.tree[a] = <<>>
    <3>1. p \notin Range(names.tree[a])
      BY <1>2, <2>3, OneEntry
    <3> QED BY <2>2, <2>3, <3>1
  <2>4. ASSUME NEW q \in Peer, names.tree[a] = <<q>>
        PROVE  names.tree[a] = <<p>> <=> p \in Range(names.tree[a])
    <3>1. p \in Range(names.tree[a]) <=> p = q
      BY <1>2, <2>4, OneEntry
    <3> QED BY <2>2, <2>4, <3>1
  <2> QED BY <2>1, <2>3, <2>4
<1>7. In(a, names.lists[p]) <=> names.user[p] = a
  BY <1>1, <1>3, <1>4, Whole
<1> QED BY <1>5, <1>6, <1>7

(* and so does a title where none was freed.                               *)
LEMMA HeadingLeads ==
    ASSUME IInv, Running, NEW p \in Peer, Intact(p, "title"), NEW a \in Headings
    PROVE  /\ In(a, names.lists[p]) <=> p \in Range(names.tree[a])
           /\ In(a, names.lists[p]) <=> names.name[p] = a
<1>1. names \in Tables /\ TitlesOK(names) /\ a \in Aliases /\ Headings \in SUBSET Aliases
  BY AliasKinds DEF IInv, Sound
<1>2. names.lists[p] \in Seq(Text) /\ names.tree[a] \in Seq(Peer)
  BY <1>1, TableFields DEF Fields
<1>3. ~In(FreedOf("title"), names.lists[p]) /\ FreedOf("title") \notin Range(names.lists[p])
  BY <1>2, InIsRange DEF Intact
<1>4. /\ HeadingOK(a, names.tree[a], names.lists)
      /\ CurrentOK(Headings, "title", names.name, names.lists)
  BY <1>1 DEF TitlesOK
<1>5. ASSUME In(a, names.lists[p]) PROVE p \in Range(names.tree[a])
  <2>1. names.tree[a] # <<>> /\ Only(names.tree[a], p)
    BY <1>4, <1>5 DEF HeadingOK
  <2> QED BY <1>2, <2>1, OneEntry
<1>6. ASSUME p \in Range(names.tree[a]) PROVE In(a, names.lists[p])
  <2>1. names.tree[a] # <<>>
    BY <1>2, <1>6, OneEntry
  <2>2. PICK q \in Peer : /\ Only(names.tree[a], q)
                          /\ In(FreedOf("title"), names.lists[q]) \/ In(a, names.lists[q])
    BY <1>4, <2>1 DEF HeadingOK
  <2>3. p = q
    BY <1>2, <1>6, <2>1, <2>2, OneEntry
  <2> QED BY <1>3, <2>2, <2>3
<1>7. In(a, names.lists[p]) <=> names.name[p] = a
  BY <1>1, <1>3, <1>4, Whole
<1> QED BY <1>5, <1>6, <1>7

(* A username leads to its one bearer, a title to the one peer that has it.*)
LEMMA NamesFollow == IInv => NamesLead
<1> SUFFICES ASSUME IInv PROVE NamesLead
  OBVIOUS
<1>0. \A a \in Aliases : a.kind = "title" <=> a \in Headings
  BY AliasKinds
<1>1. ASSUME Running, NEW a \in Headings
      PROVE  \E p \in Peer : /\ Range(names.tree[a]) \subseteq {p}
                             /\ Len(names.tree[a]) > 1 => ~Intact(p, "title")
  <2>1. names \in Tables /\ HeadingOK(a, names.tree[a], names.lists) /\ a \in Aliases
    BY <1>1, AliasKinds DEF IInv, Sound, TitlesOK
  <2>2. names.tree[a] \in Seq(Peer) /\ \A p \in Peer : names.lists[p] \in Seq(Text)
    BY <2>1, TableFields DEF Fields
  <2>3. CASE names.tree[a] = <<>>
    <3>1. PICK p \in Peer : TRUE
      BY PeersAssumption
    <3>2. Range(names.tree[a]) \subseteq {p} /\ ~(Len(names.tree[a]) > 1)
      <4>1. Only(<<>>, p)
        BY <2>2, OnlyEntries
      <4>2. Range(names.tree[a]) \subseteq {p}
        BY <2>2, <2>3, <4>1, OneEntry
      <4>3. ~(Len(names.tree[a]) > 1)
        BY <2>2, <2>3, OneEntry
      <4> QED BY <4>2, <4>3
    <3> QED BY <3>2
  <2>4. CASE names.tree[a] # <<>>
    <3>1. PICK p \in Peer :
            /\ Only(names.tree[a], p)
            /\ In(FreedOf("title"), names.lists[p]) \/ names.tree[a] = <<p>>
      BY <2>1, <2>4 DEF HeadingOK
    <3>2. Range(names.tree[a]) \subseteq {p}
      BY <2>2, <3>1, OneEntry
    <3>3. Len(names.tree[a]) > 1 => names.tree[a] # <<p>>
      BY <2>2, OneEntry
    <3>4. In(FreedOf("title"), names.lists[p]) => ~Intact(p, "title")
      BY <2>2, InIsRange DEF Intact
    <3> QED BY <3>1, <3>2, <3>3, <3>4
  <2> QED BY <2>3, <2>4
<1>2. ASSUME Running, NEW p \in Peer \ Groups, NEW w \in Usernames, user[p] # None,
             UsernameAlias(w) \notin names.collided, Intact(p, "@")
      PROVE  names.tree[UsernameAlias(w)] = <<p>> <=> user[p].uname = w
  <2>1. w # None /\ UsernameAlias(w) \in Marks
    BY PeersAssumption DEF Marks
  <2>2. names.tree[UsernameAlias(w)] = <<p>> <=> names.user[p] = UsernameAlias(w)
    BY <1>2, <2>1, MarkLeads
  <2>3. names.user[p] = UsernameAlias(user[p].uname)
    BY <1>2 DEF IInv, Borne
  <2>4. user[p].uname \in Usernames \cup {None}
    BY <1>2 DEF IInv, Object
  <2> QED BY <2>2, <2>3, <2>4, MarkOf
<1>3. ASSUME Running, NEW p \in Peer, chat[p] # None, Intact(p, "title")
      PROVE  /\ \A a \in Headings : p \in Range(names.tree[a]) <=> a = names.name[p]
             /\ IF chat[p].title = None THEN names.name[p] = None
                ELSE names.name[p] # None /\ names.name[p].of = chat[p].title
  <2>1. Titled(names.name[p], chat[p].title)
    BY <1>3 DEF IInv, Borne
  <2>2. \A a \in Headings : p \in Range(names.tree[a]) <=> a = names.name[p]
    BY <1>3, HeadingLeads
  <2> QED BY <2>1, <2>2, AliasKinds DEF Titled
<1>4. TitlesApart
  BY <1>0, <1>1 DEF TitlesApart
<1>5. UsernameLeads
  BY <1>2 DEF UsernameLeads
<1>6. NameLeads
  BY <1>0, <1>3 DEF NameLeads
<1> QED BY <1>4, <1>5, <1>6 DEF NamesLead

(* Kind by kind: numbers, usernames and titles are in the tree and in a    *)
(* list, or in neither.                                                    *)
LEMMA TablesFollow == IInv => TablesAgree
<1> SUFFICES ASSUME IInv, Running, NEW a \in Aliases, NEW p \in Peer, Intact(p, a.kind),
                    a.kind = "@" => a \notin names.collided
             PROVE  p \in Range(names.tree[a]) <=> a \in Range(names.lists[p])
  BY DEF TablesAgree
<1>1. names \in Tables /\ ListsOK(names)
  BY DEF IInv, Sound
<1>2. names.lists[p] \in Seq(Text) /\ names.tree[a] \in Seq(Peer)
  BY <1>1, TableFields DEF Fields
<1>3. a \in Range(names.lists[p]) <=> In(a, names.lists[p])
  BY <1>2, InIsRange
<1>4. CASE a \in Marks
  <2>1. Intact(p, "@") /\ a \in Marks \ names.collided
    BY <1>4, AliasKinds
  <2> QED BY <1>3, <2>1, MarkLeads
<1>5. CASE a \in Headings
  <2>1. Intact(p, "title")
    BY <1>5, AliasKinds
  <2> QED BY <1>3, <1>5, <2>1, HeadingLeads
<1>6. ASSUME NEW q \in Peer, a = MainAlias(q)
      PROVE  p \in Range(names.tree[a]) <=> a \in Range(names.lists[p])
  <2>1. ListOK(names.lists[q], names.tree, q) /\ ListOK(names.lists[p], names.tree, p)
    BY <1>1 DEF ListsOK
  <2>2. In(a, names.lists[p]) => q = p /\ names.lists[p] # <<>>
    <3>1. ~In(a, <<>>)
      <4>1. \A i \in 1..Len(<<>>) : FALSE
        OBVIOUS
      <4> QED BY <4>1 DEF In
    <3> QED BY <1>6, <2>1, <3>1 DEF ListOK
  <2>3. ASSUME q = p, names.lists[p] # <<>> PROVE In(a, names.lists[p])
    <3>1. Len(names.lists[p]) \in Nat /\ Len(names.lists[p]) # 0
      BY <1>2, <2>3, LenProperties, EmptySeq
    <3>2. 1 \in 1..Len(names.lists[p]) /\ names.lists[p][1] = a
      BY <1>6, <2>1, <2>3, <3>1 DEF ListOK
    <3> QED BY <3>2 DEF In
  <2>4. p \in Range(names.tree[a]) <=> p = q /\ names.lists[q] # <<>>
    <3>1. IF names.lists[q] = <<>> THEN names.tree[a] = <<>> ELSE names.tree[a] = <<q>>
      BY <1>6, <2>1 DEF ListOK
    <3>2. CASE names.lists[q] = <<>>
      BY <1>2, <3>1, <3>2, OneEntry
    <3>3. CASE names.lists[q] # <<>>
      <4>0. names.tree[a] = <<q>>
        BY <3>1, <3>3
      <4>1. p \in Range(names.tree[a]) <=> p = q
        BY <1>2, <4>0, OneEntry
      <4> QED BY <3>3, <4>1
    <3> QED BY <3>2, <3>3
  <2> QED BY <1>3, <2>2, <2>3, <2>4
<1>7. a \in Marks \/ a \in Headings \/ \E q \in Peer : a = MainAlias(q)
  BY AliasKinds
<1> QED BY <1>4, <1>5, <1>6, <1>7

-----------------------------------------------------------------------------
(* The types of Peers: never more than two references to an object, and    *)
(* nothing but aliases and freed texts in the tables.                      *)
THEOREM TypeCorrect == Spec => []TypeOK
BY Invariance, TypesFollow, PTL

(* An object is counted once for the peer and once for the chat that keep  *)
(* it, whatever updates and prints of users and chats come in which order. *)
THEOREM RefsExactCorrect == Spec => []RefsExact
BY Invariance, RefsFollow, PTL

(* A username leads to the peer that bears it unless it was inserted twice *)
(* or one was freed in the peer's list; no two peers ever share a name or  *)
(* title; and a peer with a chat is found under the name of the chat, and  *)
(* under no other, unless a name was freed in his list.                    *)
THEOREM NamesLeadCorrect == Spec => []NamesLead
BY Invariance, NamesFollow, PTL

(* The tree of aliases and the list of a peer name the same aliases of     *)
(* each kind that was not freed there, but for usernames inserted twice.   *)
THEOREM TablesAgreeCorrect == Spec => []TablesAgree
BY Invariance, TablesFollow, PTL
==============================================================================
